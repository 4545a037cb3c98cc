------------------------------ MODULE Patching ------------------------------
(***************************************************************************)
(* writeRedirection under running threads.  The jump to the replacement      *)
(* stub is written byte by byte over the first instructions of a function.   *)
(* addIntercepts pauses the application first; addIntercept, and HeatApi's   *)
(* sendIntercepts, do not.                                                   *)
(*                                                                           *)
(* Nothing in the code orders the writes of the five bytes: the source has   *)
(* one after the other, a build may merge or reorder them.                   *)
(***************************************************************************)
EXTENDS Integers

CONSTANTS
  Threads,     \* threads the AUT may have
  Started,     \* those it has at first
  Codes,       \* functions: at each offset an instruction, as in Instruction
  Out, Stub, Callee, Torn   \* where a thread may be other than in the function

Overwritten == 0..4
Elsewhere == {Out, Stub, Callee, Torn}

\* An instruction has a length and may be a call; then it goes on where it may.
Instruction(offsets) == [len : Nat \ {0}, call : BOOLEAN, goes : SUBSET offsets]

ASSUME CodesAssumption ==
  \A f \in Codes :
    /\ DOMAIN f \subseteq Nat /\ 0 \in DOMAIN f
    /\ f \in [DOMAIN f -> Instruction(DOMAIN f \cup {Out})]

ASSUME PlacesAssumption ==
  /\ Elsewhere \subseteq Int \ Nat
  /\ Out # Stub /\ Out # Callee /\ Out # Torn
  /\ Stub # Callee /\ Stub # Torn /\ Callee # Torn

ASSUME ThreadsAssumption == Started \subseteq Threads

VARIABLES
  code,       \* the function
  pauses,     \* is the application paused meanwhile?
  grows,      \* does the application create threads meanwhile?
  alive, suspended, at, returns,   \* the AUT's threads; where a callee returns to
  phase,      \* of the server
  snap, left, \* threads of the suspend walk, and those it has still to visit
  execute, write,   \* the protection of the function's page
  patched,    \* offsets that hold a byte of the jump
  inside      \* history: threads among the overwritten bytes at the first write

functionVars == <<code, pauses, grows>>
threadVars == <<alive, at, returns>>
walkVars == <<suspended, snap, left>>
pageVars == <<execute, write>>
vars == <<functionVars, threadVars, walkVars, pageVars, phase, patched, inside>>

\* The header copy jumps back to the first instruction behind the jump.
Tail == {a \in DOMAIN code : a \notin Overwritten}

Middle == Overwritten \ {0}

Inside(t) == at[t] \in Middle \/ (at[t] = Callee /\ returns[t] \in Middle)

Init ==
  /\ code \in Codes
  /\ pauses \in BOOLEAN
  /\ grows \in BOOLEAN
  /\ alive = Started
  /\ suspended = {}
  /\ at = [t \in Threads |-> Out]
  /\ returns = [t \in Threads |-> 0]
  /\ phase = "idle"
  /\ snap = {}
  /\ left = {}
  /\ execute = TRUE
  /\ write = FALSE
  /\ patched = {}
  /\ inside = {}

-----------------------------------------------------------------------------
(* The server: SUSPEND, INTERCEPT, RESUME of addIntercepts, or INTERCEPT.    *)

SnapshotNobody ==
  /\ phase = "idle"
  /\ IF pauses
     THEN phase' = "pausing" /\ snap' = alive /\ left' = {}
     ELSE phase' = "copied" /\ UNCHANGED <<snap, left>>
  /\ UNCHANGED <<functionVars, threadVars, suspended, pageVars, patched, inside>>

Snapshot ==
  /\ phase = "idle"
  /\ IF pauses
     THEN phase' = "pausing" /\ snap' = alive /\ left' = alive
     ELSE phase' = "copied" /\ UNCHANGED <<snap, left>>
  /\ UNCHANGED <<functionVars, threadVars, suspended, pageVars, patched, inside>>

\* A thread that has exited ends the walk and the batch.
SuspendThread(t) ==
  /\ phase = "pausing"
  /\ t \in left
  /\ IF t \in alive
     THEN suspended' = suspended \cup {t} /\ left' = left \ {t} /\ UNCHANGED phase
     ELSE phase' = "failed" /\ UNCHANGED <<suspended, left>>
  /\ UNCHANGED <<functionVars, threadVars, snap, pageVars, patched, inside>>

Paused ==
  /\ phase = "pausing"
  /\ left = {}
  /\ phase' = "copied"
  /\ UNCHANGED <<functionVars, threadVars, walkVars, pageVars, patched, inside>>

\* enablePageExecute(pvOriginalFunction).
EnablePage ==
  /\ phase = "copied"
  /\ \/ phase' = "writing" /\ execute' = TRUE /\ write' = TRUE
     \/ phase' = "failed" /\ UNCHANGED pageVars
  /\ UNCHANGED <<functionVars, threadVars, walkVars, patched, inside>>

WriteBytes ==
  /\ phase = "writing"
  /\ write
  /\ \E bytes \in (SUBSET (Overwritten \ patched)) \ {{}} : patched' = patched \cup bytes
  /\ inside' = IF patched = {} THEN {t \in Threads : Inside(t)} ELSE inside
  /\ UNCHANGED <<functionVars, threadVars, walkVars, pageVars, phase>>

RestorePageEarly ==
  /\ phase = "writing"
  /\ 0 \in patched
  /\ phase' = "written"
  /\ execute' = TRUE
  /\ write' = FALSE
  /\ UNCHANGED <<functionVars, threadVars, walkVars, patched, inside>>

RestorePage ==
  /\ phase = "writing"
  /\ patched = Overwritten
  /\ phase' = "written"
  /\ execute' = TRUE
  /\ write' = FALSE
  /\ UNCHANGED <<functionVars, threadVars, walkVars, patched, inside>>

ResumeThread(t) ==
  /\ phase = "written"
  /\ t \in suspended
  /\ suspended' = suspended \ {t}
  /\ UNCHANGED <<functionVars, threadVars, snap, left, pageVars, phase, patched, inside>>

Installed ==
  /\ phase = "written"
  /\ suspended = {}
  /\ phase' = "done"
  /\ UNCHANGED <<functionVars, threadVars, walkVars, pageVars, patched, inside>>

Server ==
  \/ Snapshot
  \/ \E t \in Threads : SuspendThread(t) \/ ResumeThread(t)
  \/ Paused
  \/ EnablePage
  \/ WriteBytes
  \/ RestorePage
  \/ Installed

-----------------------------------------------------------------------------
(* The application's threads. *)

Runs(t) == t \in alive /\ t \notin suspended

\* Everything but where t is.
OnlyMoves == UNCHANGED <<functionVars, alive, walkVars, pageVars, phase, patched, inside>>

Goes(t, place) ==
  /\ at' = [at EXCEPT ![t] = place]
  /\ UNCHANGED returns
  /\ OnlyMoves

CallFunction(t) ==
  /\ Runs(t)
  /\ at[t] = Out
  /\ Goes(t, 0)

Bytes(a) == a .. (a + code[a].len - 1)

Intact(a) == execute /\ Bytes(a) \cap patched = {}

RunInstruction(t) ==
  /\ Runs(t)
  /\ at[t] \in DOMAIN code
  /\ Intact(at[t])
  /\ ~code[at[t]].call
  /\ \E a \in code[at[t]].goes : Goes(t, a)

\* A call in the function; its return address is the next instruction.
RunCall(t) ==
  /\ Runs(t)
  /\ at[t] \in DOMAIN code
  /\ Intact(at[t])
  /\ code[at[t]].call
  /\ \E a \in code[at[t]].goes \ {Out} : returns' = [returns EXCEPT ![t] = a]
  /\ at' = [at EXCEPT ![t] = Callee]
  /\ OnlyMoves

CalleeReturns(t) ==
  /\ Runs(t)
  /\ at[t] = Callee
  /\ Goes(t, returns[t])

\* The jump to the stub, when all of it is there.
Jump == execute /\ patched = Overwritten

RunJump(t) ==
  /\ Runs(t)
  /\ at[t] = 0
  /\ Jump
  /\ Goes(t, Stub)

\* Some bytes of an instruction and some of the jump, or no right to execute.
RunTorn(t) ==
  /\ Runs(t)
  /\ at[t] \in DOMAIN code
  /\ ~Intact(at[t])
  /\ ~(at[t] = 0 /\ Jump)
  /\ Goes(t, Torn)

\* The stub calls a replacement, and that, or the stub itself, the original:
\* the copied header and then the rest of the function, which may end early.
StubReturns(t) ==
  /\ Runs(t)
  /\ at[t] = Stub
  /\ \E a \in Tail \cup {Out} : Goes(t, a)

StartThread(t) ==
  /\ grows
  /\ t \notin alive
  /\ \E creator \in alive : Runs(creator)
  /\ at[t] = Out
  /\ t \notin Started
  /\ alive' = alive \cup {t}
  /\ UNCHANGED <<functionVars, at, returns, walkVars, pageVars, phase, patched, inside>>

ExitThread(t) ==
  /\ Runs(t)
  /\ at[t] = Out
  /\ alive' = alive \ {t}
  /\ UNCHANGED <<functionVars, at, returns, walkVars, pageVars, phase, patched, inside>>

Thread(t) ==
  \/ CallFunction(t)
  \/ RunInstruction(t)
  \/ RunCall(t)
  \/ CalleeReturns(t)
  \/ RunJump(t)
  \/ RunTorn(t)
  \/ StubReturns(t)
  \/ StartThread(t)
  \/ ExitThread(t)

Next == Server \/ \E t \in Threads : Thread(t)

Spec == Init /\ [][Next]_vars

-----------------------------------------------------------------------------
(* Properties. *)

TypeOK ==
  /\ code \in Codes
  /\ pauses \in BOOLEAN /\ grows \in BOOLEAN
  /\ alive \subseteq Threads /\ suspended \subseteq Threads
  /\ at \in [Threads -> DOMAIN code \cup Elsewhere]
  /\ returns \in [Threads -> DOMAIN code]
  /\ phase \in {"idle", "pausing", "copied", "writing", "written", "done", "failed"}
  /\ snap \subseteq Threads /\ left \subseteq snap
  /\ execute \in BOOLEAN /\ write \in BOOLEAN
  /\ patched \subseteq Overwritten
  /\ inside \subseteq Threads

\* No branch of the function goes back to the bytes that are overwritten.
NoWayBack ==
  \A a \in Tail : code[a].goes \cap Overwritten = {}

(* Under addIntercepts a thread is torn apart only if it was in the middle of  *)
(* the overwritten bytes, or was to return there, when the first was written,  *)
(* or was created behind the back of the suspend walk.                         *)
PausedIsSafe ==
  (pauses /\ NoWayBack) =>
    \A t \in Threads : at[t] = Torn => t \in inside \/ t \notin snap

(* Who survives the installation is safe: once addIntercept has returned, a    *)
(* thread that is not inside can call the function at any time.                *)
SafeOnceInstalled ==
  [][NoWayBack =>
       \A t \in Threads :
         (phase \in {"written", "done"} /\ ~Inside(t)) => ~RunTorn(t)]_vars

\* Under a pause that nobody escapes, of a function whose first instruction is
\* as long as the jump.
AtOnce == pauses /\ ~grows /\ NoWayBack /\ DOMAIN code \cap Middle = {}

Place(t) ==
  IF ~AtOnce \/ at[t] \in {Out, 0} THEN "out"
  ELSE CASE at[t] = Stub -> "stub"
         [] at[t] = Torn -> "torn"
         [] OTHER -> "original"

R == INSTANCE Redirection WITH
       redirected <- AtOnce /\ patched = Overwritten,
       where <- [t \in Threads |-> Place(t)]

(* Then the five writes, and all that happens around them, are one step: every *)
(* thread calls the original before it and the stub after it.                  *)
IsOneStep == R!Spec
=============================================================================
