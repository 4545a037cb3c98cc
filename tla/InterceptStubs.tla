--------------------------- MODULE InterceptStubs ---------------------------
(***************************************************************************)
(* The machine code heatNGserver generates around an intercepted function,  *)
(* run by the threads of the application under test (AUT), while the        *)
(* server thread installs intercepts.                                       *)
(*                                                                         *)
(* Each thread owns two TLS slots.  One holds the "in intercept" counter    *)
(* (0: intercepts act; anything else: they are passed through), the other   *)
(* the top of the thread's return address stack, the RAS, a heap block of   *)
(* one page where a stub keeps the return address it took off the machine   *)
(* stack while it calls the function it wraps.  Nothing checks that a push  *)
(* stays in the block: past its end the stubs use, and overwrite, words of  *)
(* the heap that other code of the AUT owns and writes.                     *)
(*                                                                         *)
(* A replacement function looks its caller stub up once, in a static        *)
(* variable that all threads share, and uses what it found ever after.      *)
(***************************************************************************)
EXTENDS Integers, Sequences, FiniteSets

CONSTANTS
  Threads,          \* AUT threads
  Functions,        \* functions that can be intercepted
  Sites,            \* return addresses
  NoSite,           \* a word that is no return address of the thread:
                    \* the null canary, heap data; and "not returned yet"
  NoInstall,        \* the server is not installing anything
  RASSlots,         \* return addresses that fit the page of a RAS
  SpanningDisables, \* may a replacement call its original while it holds a
                    \* disableInterceptionInCurrentThread?
  MaxDepth,         \* bound: pending calls per thread
  MaxInstalls,      \* bound: intercepts installed
  MaxDisables       \* bound: outstanding disables per thread

ASSUME ConstAssumption ==
  /\ RASSlots \in Nat \ {0}
  /\ MaxDepth \in Nat
  /\ MaxInstalls \in Nat
  /\ MaxDisables \in Nat
  /\ SpanningDisables \in BOOLEAN
  /\ NoSite \notin Sites

VARIABLES
  stack,      \* stack[t]: t's pending calls, innermost last
  flag,       \* flag[t]: TLS slot g_dwTlsCheckInterceptIndex
  off,        \* off[t]: disables t has made and not undone
  rasPtr,     \* rasPtr[t]: TLS slot g_dwTlsRASIndex, as an index into slot[t]
  slot,       \* slot[t]: the RAS page and the words of the heap behind it
  resumed,    \* resumed[t]: where t's last return went
  patched,    \* functions whose first bytes jump to a replacement stub
  installing, \* the intercept that is live but not yet in m_intercepts
  intercepts, \* m_intercepts
  caller,     \* caller[f]: the static in f's replacement function, as the
              \* position in m_intercepts of the caller stub it holds
  looked,     \* looked[t]: what getOriginalFunctionCaller returned to t and
              \* t has not stored yet
  crash       \* why the AUT died, or "none"

threadVars == <<stack, flag, off, rasPtr, slot, resumed>>
serverVars == <<patched, installing, intercepts>>
callerVars == <<caller, looked>>
vars == <<stack, flag, off, rasPtr, slot, resumed,
          patched, installing, intercepts, caller, looked, crash>>

NoRAS == -1     \* the RAS slot of a thread is still 0: no page allocated
NoCaller == 0   \* a null pointer for a caller stub

\* The words a RAS can reach; those from RASSlots on are not the thread's.
HeapWords == 0..(MaxDepth - 1)

(***************************************************************************)
(* A pending call.  "direct" calls return through the machine stack.  A     *)
(* "replacement" call was made by a replacement stub and an "original" call *)
(* by a caller stub; both return into their stub, which finds the way back  *)
(* in the RAS.  ret is the site the caller expects to continue at, off the  *)
(* disables outstanding at the call.                                        *)
(***************************************************************************)
Frame == [via : {"direct", "replacement", "original"}, fn : Functions,
          ret : Sites, off : Nat]
Install == [fn : Functions, reentrant : BOOLEAN]

Stub(fr) == fr.via # "direct"
Top(t) == stack[t][Len(stack[t])]

(***************************************************************************)
(* The innermost stub frame of s, as a position; 0 if there is none.  Code  *)
(* in a direct call belongs to the same context as its caller.              *)
(***************************************************************************)
InnermostStub(s, i) == /\ i \in 1..Len(s)
                       /\ Stub(s[i])
                       /\ \A j \in (i + 1)..Len(s) : ~Stub(s[j])

\* Thread code is replacement code, or helpers it calls directly.
InReplacement(s) ==
  \E i \in 1..Len(s) : InnermostStub(s, i) /\ s[i].via = "replacement"

Init ==
  /\ stack = [t \in Threads |-> <<>>]
  /\ flag = [t \in Threads |-> 0]
  /\ off = [t \in Threads |-> 0]
  /\ rasPtr = [t \in Threads |-> NoRAS]
  /\ slot = [t \in Threads |-> [k \in HeapWords |-> NoSite]]
  /\ resumed = [t \in Threads |-> NoSite]
  /\ patched = {}
  /\ installing = NoInstall
  /\ intercepts = <<>>
  /\ caller = [f \in Functions |-> NoCaller]
  /\ looked = [t \in Threads |-> NoCaller]
  /\ crash = "none"

-----------------------------------------------------------------------------
(* Pieces of generated code (sicodegen). *)

\* Mutant: the first push goes behind the canary.
RASIndexBehindCanary(t) == IF rasPtr[t] = NoRAS THEN 1 ELSE rasPtr[t]

\* allocRASInCurrentThread writes a null canary at the start of the page but
\* returns the page itself, so the first push goes to slot 0, over the canary.
RASIndex(t) == IF rasPtr[t] = NoRAS THEN 0 ELSE rasPtr[t]

\* writePushRAtoRAS: no test whether the word is still on the page.
PushRA(t, s) == /\ slot' = [slot EXCEPT ![t][RASIndex(t)] = s]
                /\ rasPtr' = [rasPtr EXCEPT ![t] = RASIndex(t) + 1]

\* Foreign code has written the word that the next pop reads.
TopLost(t) == slot[t][rasPtr[t] - 1] = NoSite

\* Mutant: the pop forgets to store the lowered top.
ReturnKeepingTop(t) ==
  /\ resumed' = [resumed EXCEPT ![t] = slot[t][rasPtr[t] - 1]]
  /\ UNCHANGED <<slot, rasPtr>>

\* Mutant: the pop lowers the top after the read instead of before it.
ReturnReadingFirst(t) ==
  /\ rasPtr' = [rasPtr EXCEPT ![t] = @ - 1]
  /\ resumed' = [resumed EXCEPT ![t] =
                  IF rasPtr[t] \in HeapWords THEN slot[t][rasPtr[t]] ELSE NoSite]
  /\ UNCHANGED slot

\* writePopRAfromRAS, and the ret that follows it.
ReturnThroughRAS(t) == /\ ~TopLost(t)
                       /\ rasPtr' = [rasPtr EXCEPT ![t] = @ - 1]
                       /\ resumed' = [resumed EXCEPT ![t] = slot[t][rasPtr[t] - 1]]
                       /\ UNCHANGED slot

SetInIntercept(t, n) == flag' = [flag EXCEPT ![t] = n]

Push(t, v, f, s) ==
  /\ Len(stack[t]) < MaxDepth
  /\ stack' = [stack EXCEPT ![t] =
       Append(@, [via |-> v, fn |-> f, ret |-> s, off |-> off[t]])]

Pop(t) == stack' = [stack EXCEPT ![t] = SubSeq(@, 1, Len(@) - 1)]

-----------------------------------------------------------------------------
(* Calls. *)

\* A call to a function that is not intercepted, or one that the replacement
\* stub hands to the copy of the original header because the counter is not 0.
CallDirect(t, f, s) ==
  /\ f \in patched => flag[t] # 0
  /\ Push(t, "direct", f, s)
  /\ UNCHANGED <<flag, off, rasPtr, slot, resumed, serverVars, callerVars, crash>>

\* Mutant: the replacement stub does not set the counter.
CallReplacementUnmarked(t, f, s) ==
  /\ f \in patched
  /\ flag[t] = 0
  /\ Push(t, "replacement", f, s)
  /\ PushRA(t, s)
  /\ UNCHANGED <<flag, off, resumed, serverVars, callerVars, crash>>

\* The replacement stub: set the counter, save the return address, call the
\* replacement function.
CallReplacement(t, f, s) ==
  /\ f \in patched
  /\ flag[t] = 0
  /\ Push(t, "replacement", f, s)
  /\ SetInIntercept(t, 1)
  /\ PushRA(t, s)
  /\ UNCHANGED <<off, resumed, serverVars, callerVars, crash>>

Matches(f) == {i \in 1..Len(intercepts) : intercepts[i].fn = f}

\* Mutant: the loop never breaks on a match.
LookupLast(f) == Len(intercepts)

\* Mutant: on a miss the loop's counter is used, which is past the end.
LookupPastEnd(f) ==
  IF Matches(f) = {} THEN Len(intercepts) + 1
  ELSE CHOOSE i \in Matches(f) : \A j \in Matches(f) : i <= j

\* getInterceptByName: the first intercept of f.  The loop leaves the last
\* entry in its variable when nothing matches.
Lookup(f) ==
  IF Matches(f) = {} THEN Len(intercepts)
  ELSE CHOOSE i \in Matches(f) : \A j \in Matches(f) : i <= j

\* The replacement that t is executing is f's.
Replaces(t, f) == \E i \in 1..Len(stack[t]) :
  /\ InnermostStub(stack[t], i)
  /\ stack[t][i].via = "replacement"
  /\ stack[t][i].fn = f

\* f's replacement finds its static null and asks for its caller stub.  The
\* disable and the enable in getOriginalFunctionCaller cancel out.
LookCallerUp(t, f) ==
  /\ Replaces(t, f)
  /\ caller[f] = NoCaller
  /\ intercepts # <<>>
  /\ looked' = [looked EXCEPT ![t] = Lookup(f)]
  /\ UNCHANGED <<threadVars, serverVars, caller, crash>>

\* It stores the answer, whatever another thread has stored meanwhile.
StoreCaller(t, f) ==
  /\ Replaces(t, f)
  /\ caller' = [caller EXCEPT ![f] = looked[t]]
  /\ looked' = [looked EXCEPT ![t] = NoCaller]
  /\ UNCHANGED <<threadVars, serverVars, crash>>

\* A fully reentrant intercept is called through its caller stub: save the
\* return address, let intercepts act again, call the original header copy.
CallOriginalReentrant(t, f, s) ==
  /\ Replaces(t, f)
  /\ caller[f] # NoCaller
  /\ intercepts[caller[f]].reentrant
  /\ SpanningDisables \/ off[t] = 0
  /\ Push(t, "original", intercepts[caller[f]].fn, s)
  /\ PushRA(t, s)
  /\ SetInIntercept(t, 0)
  /\ UNCHANGED <<off, resumed, serverVars, callerVars, crash>>

\* Otherwise the "caller stub" is the header copy itself.
CallOriginalPlain(t, f, s) ==
  /\ Replaces(t, f)
  /\ caller[f] # NoCaller
  /\ ~intercepts[caller[f]].reentrant
  /\ Push(t, "direct", intercepts[caller[f]].fn, s)
  /\ UNCHANGED <<flag, off, rasPtr, slot, resumed, serverVars, callerVars, crash>>

-----------------------------------------------------------------------------
(* Returns.  Code undoes its own disables before it returns. *)

Returning(t, v) == /\ stack[t] # <<>>
                   /\ Top(t).via = v
                   /\ off[t] = Top(t).off
                   /\ Pop(t)

ReturnDirect(t) ==
  /\ Returning(t, "direct")
  /\ resumed' = [resumed EXCEPT ![t] = Top(t).ret]
  /\ UNCHANGED <<flag, off, rasPtr, slot, serverVars, callerVars, crash>>

ReturnFromReplacement(t) ==
  /\ Returning(t, "replacement")
  /\ ReturnThroughRAS(t)
  /\ SetInIntercept(t, 0)
  /\ UNCHANGED <<off, serverVars, callerVars, crash>>

\* Mutant: the caller stub leaves the counter at 0.
ReturnFromOriginalUnmarked(t) ==
  /\ Returning(t, "original")
  /\ ReturnThroughRAS(t)
  /\ SetInIntercept(t, 0)
  /\ UNCHANGED <<off, serverVars, callerVars, crash>>

ReturnFromOriginal(t) ==
  /\ Returning(t, "original")
  /\ ReturnThroughRAS(t)
  /\ SetInIntercept(t, 1)
  /\ UNCHANGED <<off, serverVars, callerVars, crash>>

-----------------------------------------------------------------------------
(* The exported counter functions, callable from any code of the AUT. *)

DisableInterception(t) ==
  /\ off[t] < MaxDisables
  /\ flag' = [flag EXCEPT ![t] = @ + 1]
  /\ off' = [off EXCEPT ![t] = @ + 1]
  /\ UNCHANGED <<stack, rasPtr, slot, resumed, serverVars, callerVars, crash>>

EnableInterception(t) ==
  /\ off[t] > IF stack[t] = <<>> THEN 0 ELSE Top(t).off
  /\ flag' = [flag EXCEPT ![t] = @ - 1]
  /\ off' = [off EXCEPT ![t] = @ - 1]
  /\ UNCHANGED <<stack, rasPtr, slot, resumed, serverVars, callerVars, crash>>

-----------------------------------------------------------------------------
(* What kills the AUT. *)

Die(why) == crash' = why /\ UNCHANGED <<threadVars, serverVars, callerVars>>

\* memoryAlloc fails for the first RAS of a thread: the stub stores through 0.
NoMemoryForRAS(t) ==
  /\ flag[t] = 0
  /\ patched # {}
  /\ rasPtr[t] = NoRAS
  /\ Die("null RAS")

\* A stub pops a word that foreign code has written, and returns to it.
LoseTheWay(t) ==
  /\ stack[t] # <<>>
  /\ Stub(Top(t))
  /\ off[t] = Top(t).off
  /\ TopLost(t)
  /\ Die("wild return")

\* getOriginalFunctionCaller finds an empty list: its assertion fails.
NoOriginal(t, f) ==
  /\ Replaces(t, f)
  /\ caller[f] = NoCaller
  /\ intercepts = <<>>
  /\ Die("no intercept")

-----------------------------------------------------------------------------
(* The rest of the AUT's code writes the heap it owns: the words behind the *)
(* page of t's RAS, whether or not t has pushed that far.                   *)
WriteHeap(t, k) ==
  /\ k >= RASSlots
  /\ slot' = [slot EXCEPT ![t][k] = NoSite]
  /\ UNCHANGED <<stack, flag, off, rasPtr, resumed, serverVars, callerVars, crash>>

-----------------------------------------------------------------------------
(* The server thread handles CMD_INTERCEPT. *)

\* sinativeintercept::interceptFunction, up to its last step: the redirection
\* is written and AUT threads can run the replacement.  The client sends one
\* intercept per function (CIntercepts refuses the second).
Redirect(f, reentrant) ==
  /\ installing = NoInstall
  /\ f \notin patched
  /\ Len(intercepts) < MaxInstalls
  /\ patched' = patched \cup {f}
  /\ installing' = [fn |-> f, reentrant |-> reentrant]
  /\ UNCHANGED <<threadVars, intercepts, callerVars, crash>>

\* heatServerHandler::interceptFunction then records the intercept.
Register ==
  /\ installing # NoInstall
  /\ intercepts' = Append(intercepts, installing)
  /\ installing' = NoInstall
  /\ UNCHANGED <<threadVars, patched, callerVars, crash>>

-----------------------------------------------------------------------------
ThreadStep(t) ==
  \/ \E f \in Functions, s \in Sites :
       \/ CallDirect(t, f, s)
       \/ CallReplacement(t, f, s)
       \/ CallOriginalReentrant(t, f, s)
       \/ CallOriginalPlain(t, f, s)
  \/ \E f \in Functions : LookCallerUp(t, f) \/ NoOriginal(t, f)
  \/ ReturnDirect(t)
  \/ ReturnFromReplacement(t)
  \/ ReturnFromOriginal(t)
  \/ DisableInterception(t)
  \/ EnableInterception(t)
  \/ NoMemoryForRAS(t)
  \/ LoseTheWay(t)

\* A thread with an answer of getOriginalFunctionCaller in its hands stores it.
AUTStep(t) ==
  \/ looked[t] = NoCaller /\ ThreadStep(t)
  \/ looked[t] # NoCaller /\ \E f \in Functions : StoreCaller(t, f)
  \/ \E k \in HeapWords : WriteHeap(t, k)

ServerStep ==
  \/ \E f \in Functions, reentrant \in BOOLEAN : Redirect(f, reentrant)
  \/ Register

Next == /\ crash = "none"
        /\ (\E t \in Threads : AUTStep(t)) \/ ServerStep

Spec == Init /\ [][Next]_vars

-----------------------------------------------------------------------------
(* Properties. *)

(* Every variable keeps the type the code gives it; in particular a lookup   *)
(* that misses still returns an intercept of the list (getInterceptByName).  *)
TypeOK ==
  /\ stack \in [Threads -> Seq(Frame)]
  /\ flag \in [Threads -> Int]
  /\ off \in [Threads -> Nat]
  /\ rasPtr \in [Threads -> Nat \cup {NoRAS}]
  /\ slot \in [Threads -> [HeapWords -> Sites \cup {NoSite}]]
  /\ resumed \in [Threads -> Sites \cup {NoSite}]
  /\ patched \in SUBSET Functions
  /\ installing \in Install \cup {NoInstall}
  /\ intercepts \in Seq(Install)
  /\ caller \in [Functions -> 0..Len(intercepts)]
  /\ looked \in [Threads -> 0..Len(intercepts)]
  /\ crash \in {"none", "null RAS", "wild return", "no intercept"}

StubFrames(s) == {i \in 1..Len(s) : Stub(s[i])}
Rank(s, i) == Cardinality({j \in StubFrames(s) : j < i})

(* The RAS holds the return addresses of exactly the stubs that are on the   *)
(* thread's stack, outermost first: whatever mixture of stubs, direct calls, *)
(* disables and installations happened, no push or pop is ever unmatched.    *)
(* Past the page an address may have been overwritten by foreign code, but   *)
(* never by another address.                                                 *)
RASMirrorsStubs ==
  \A t \in Threads :
    /\ RASIndex(t) = Cardinality(StubFrames(stack[t]))
    /\ \A i \in StubFrames(stack[t]) :
         LET k == Rank(stack[t], i) IN
         \/ slot[t][k] = stack[t][i].ret
         \/ k >= RASSlots /\ slot[t][k] = NoSite

Overrun(t) == Cardinality(StubFrames(stack[t])) > RASSlots

(* A thread writes a word behind its page, and a thread loses its way, only  *)
(* while more stubs of it are pending than the page has slots: up to there   *)
(* the missing bounds check of writePushRAtoRAS does no harm.                *)
PageSuffices ==
  [][/\ \A t \in Threads, k \in HeapWords :
          (k >= RASSlots /\ slot'[t][k] # slot[t][k] /\ slot'[t][k] # NoSite)
          => Overrun(t)'
     /\ crash' # crash /\ crash' = "wild return" => \E t \in Threads : Overrun(t)]_vars

(* While replacement code runs, the counter is not 0: the functions it uses  *)
(* are not intercepted (generateReplacementStub, "mark is intercepting       *)
(* before proceeding").                                                      *)
ReplacementIsShielded ==
  \A t \in Threads : InReplacement(stack[t]) => flag[t] # 0

(* The counter is the thread's own disables plus one for replacement code:   *)
(* the absolute 0 and 1 the stubs write agree with the increments and        *)
(* decrements of the exported functions, so no sequence of calls leaves      *)
(* application code unobserved or replacement code observed.                 *)
CounterMatchesContext ==
  \A t \in Threads :
    flag[t] = off[t] + IF InReplacement(stack[t]) THEN 1 ELSE 0

(* A replacement is entered from within another one only through a caller    *)
(* stub, that is where the outer one asked for its original ("protective     *)
(* reentrance").                                                             *)
ProtectedReentrance ==
  \A t \in Threads : \A i, k \in 1..Len(stack[t]) :
    (/\ i < k
     /\ stack[t][i].via = "replacement"
     /\ stack[t][k].via = "replacement")
    => \E j \in (i + 1)..(k - 1) : stack[t][j].via = "original"

\* The i-th intercept is f's, or was recorded when f's was not yet.
OwnOrEarlier(i, f) ==
  intercepts[i].fn = f \/ \A j \in 1..i : intercepts[j].fn # f

\* The call at position k of s was made by code that the stub frame i runs.
Encloses(s, i, k) == /\ i < k
                     /\ Stub(s[i])
                     /\ \A j \in (i + 1)..(k - 1) : ~Stub(s[j])

(* A caller stub that a replacement enters, at once or through a pointer it  *)
(* stored long ago, runs the original of the very function replaced.  The    *)
(* one exception is the stub of an intercept that was recorded before the    *)
(* replaced function's own: the pointer was looked up in the gap between     *)
(* the redirection and its recording, where getInterceptByName falls back    *)
(* to the last entry, and the static keeps it for good.                      *)
OwnOriginal ==
  \A t \in Threads : \A i, k \in 1..Len(stack[t]) :
    (/\ Encloses(stack[t], i, k)
     /\ stack[t][i].via = "replacement"
     /\ stack[t][k].via = "original")
    => \E n \in 1..Len(intercepts) :
         /\ stack[t][k].fn = intercepts[n].fn
         /\ OwnOrEarlier(n, stack[t][i].fn)

(* getOriginalFunctionCaller's assert(si != 0): when a replacement asks for  *)
(* its original, the server has recorded an intercept.  It may not have: the *)
(* redirection comes first (no run checks this).                             *)
InterceptFound == crash # "no intercept"

(* The stubs are transparent: seen from the call sites, the program calls    *)
(* and returns as if nothing had been intercepted, until it dies or loses    *)
(* its way to foreign data in the RAS (PageSuffices says when it cannot).    *)
CR == INSTANCE CallReturn WITH
        callers <- [t \in Threads |->
                     [i \in 1..Len(stack[t]) |-> stack[t][i].ret]]

Transparent == CR!Spec
=============================================================================
