--------------------------- MODULE PatchingProofs ---------------------------
(***************************************************************************)
(* Proofs about Patching, for any threads and any functions.               *)
(***************************************************************************)
EXTENDS Patching, TLAPS

USE PlacesAssumption, ThreadsAssumption

(* The parameters are of the right kind, whichever function it is. *)
LEMMA CodeFacts ==
  ASSUME NEW f \in Codes
  PROVE  /\ DOMAIN f \subseteq Nat /\ 0 \in DOMAIN f
         /\ \A a \in DOMAIN f : /\ f[a].len \in Nat \ {0}
                                /\ f[a].goes \subseteq DOMAIN f \cup {Out}
  <1>1. DOMAIN f \subseteq Nat /\ 0 \in DOMAIN f
    BY CodesAssumption
  <1>2. ASSUME NEW a \in DOMAIN f
        PROVE  f[a] \in Instruction(DOMAIN f \cup {Out})
    BY CodesAssumption
  <1>3. ASSUME NEW a \in DOMAIN f
        PROVE  f[a].len \in Nat \ {0} /\ f[a].goes \subseteq DOMAIN f \cup {Out}
    BY <1>2 DEF Instruction
  <1> QED
    BY <1>1, <1>3

(* Patching keeps the types of its variables. *)
THEOREM TypeCorrect == Spec => []TypeOK
  <1>1. Init => TypeOK
    <2> SUFFICES ASSUME Init PROVE TypeOK
      OBVIOUS
    <2>1. 0 \in DOMAIN code
      BY CodeFacts DEF Init
    <2> QED
      BY <2>1 DEF Init, TypeOK, Elsewhere
  <1>2. TypeOK /\ [Next]_vars => TypeOK'
    <2> SUFFICES ASSUME TypeOK, [Next]_vars PROVE TypeOK'
      OBVIOUS
    <2> USE DEF TypeOK, functionVars, threadVars, walkVars, pageVars
    <2>1. CASE Snapshot
      BY <2>1 DEF Snapshot
    <2>2. ASSUME NEW t \in Threads, SuspendThread(t) PROVE TypeOK'
      BY <2>2 DEF SuspendThread
    <2>3. ASSUME NEW t \in Threads, ResumeThread(t) PROVE TypeOK'
      BY <2>3 DEF ResumeThread
    <2>4. CASE Paused
      BY <2>4 DEF Paused
    <2>5. CASE EnablePage
      BY <2>5 DEF EnablePage
    <2>6. CASE WriteBytes
      BY <2>6 DEF WriteBytes
    <2>7. CASE RestorePage
      BY <2>7 DEF RestorePage
    <2>8. CASE Installed
      BY <2>8 DEF Installed
    <2>9. ASSUME NEW t \in Threads, Thread(t) PROVE TypeOK'
      <3> USE DEF OnlyMoves, Goes
      <3>0. /\ DOMAIN code \subseteq Nat /\ 0 \in DOMAIN code
            /\ \A a \in DOMAIN code : code[a].goes \subseteq DOMAIN code \cup {Out}
        BY CodeFacts
      <3>1. CASE CallFunction(t)
        BY <3>0, <3>1 DEF CallFunction
      <3>2. CASE RunInstruction(t)
        BY <3>0, <3>2 DEF RunInstruction, Elsewhere
      <3>3. CASE RunCall(t)
        BY <3>0, <3>3 DEF RunCall, Elsewhere
      <3>4. CASE CalleeReturns(t)
        BY <3>0, <3>4 DEF CalleeReturns
      <3>5. CASE RunJump(t)
        BY <3>5 DEF RunJump, Elsewhere
      <3>6. CASE RunTorn(t)
        BY <3>6 DEF RunTorn, Elsewhere
      <3>7. CASE StubReturns(t)
        BY <3>7 DEF StubReturns, Elsewhere, Tail
      <3>8. CASE StartThread(t)
        BY <3>8 DEF StartThread
      <3>9. CASE ExitThread(t)
        BY <3>9 DEF ExitThread
      <3> QED
        BY <2>9, <3>1, <3>2, <3>3, <3>4, <3>5, <3>6, <3>7, <3>8, <3>9 DEF Thread
    <2>10. CASE UNCHANGED vars
      BY <2>10 DEF vars
    <2> QED
      BY <2>1, <2>2, <2>3, <2>4, <2>5, <2>6, <2>7, <2>8, <2>9, <2>10 DEF Next, Server
  <1> QED
    BY <1>1, <1>2, PTL DEF Spec

-----------------------------------------------------------------------------
(* The protection of the page and the bytes of the jump follow the server's   *)
(* phases.                                                                    *)
PhaseInv ==
  /\ execute
  /\ phase \in {"idle", "pausing", "copied", "failed"} => patched = {}
  /\ phase \in {"written", "done"} => patched = Overwritten

(* Nobody but the threads of the snapshot is suspended; while bytes are       *)
(* written under a pause, all of those are.                                   *)
PauseInv ==
  /\ suspended \subseteq snap
  /\ phase = "idle" => suspended = {}
  /\ pauses => /\ phase = "pausing" => snap \ left \subseteq suspended
               /\ phase \in {"copied", "writing"} => snap \subseteq suspended

(* A thread is clear when it can run on whatever the overwritten bytes hold,   *)
(* as long as the first of them is not half a jump.                            *)
Clear(t) == at[t] # Torn /\ ~Inside(t)

ClearInv ==
  /\ patched = {} => \A t \in Threads : at[t] # Torn
  /\ (pauses /\ NoWayBack /\ patched # {}) =>
       \A t \in snap \ inside : Clear(t)

PatchInv == PhaseInv /\ PauseInv /\ ClearInv

(* The server's phases are as PhaseInv has them. *)
LEMMA Phases == TypeOK /\ PhaseInv /\ [Next]_vars => PhaseInv'
  <1> SUFFICES ASSUME TypeOK, PhaseInv, [Next]_vars PROVE PhaseInv'
    OBVIOUS
  <1> USE DEF TypeOK, PhaseInv, functionVars, threadVars, walkVars, pageVars
  <1>1. CASE Snapshot
    BY <1>1 DEF Snapshot
  <1>2. ASSUME NEW t \in Threads, SuspendThread(t) \/ ResumeThread(t) PROVE PhaseInv'
    BY <1>2 DEF SuspendThread, ResumeThread
  <1>3. CASE Paused \/ EnablePage \/ WriteBytes \/ RestorePage \/ Installed
    BY <1>3 DEF Paused, EnablePage, WriteBytes, RestorePage, Installed
  <1>4. ASSUME NEW t \in Threads, Thread(t) PROVE PhaseInv'
    BY <1>4 DEF Thread, CallFunction, RunInstruction, RunCall, CalleeReturns,
                RunJump, RunTorn, StubReturns, StartThread, ExitThread, Goes, OnlyMoves
  <1>5. CASE UNCHANGED vars
    BY <1>5 DEF vars
  <1> QED
    BY <1>1, <1>2, <1>3, <1>4, <1>5 DEF Next, Server

(* Threads of the snapshot stay suspended until the jump is written. *)
LEMMA Pauses == TypeOK /\ PauseInv /\ [Next]_vars => PauseInv'
  <1> SUFFICES ASSUME TypeOK, PauseInv, [Next]_vars PROVE PauseInv'
    OBVIOUS
  <1> USE DEF TypeOK, PauseInv, functionVars, threadVars, walkVars, pageVars
  <1>1. CASE Snapshot
    BY <1>1 DEF Snapshot
  <1>2. ASSUME NEW t \in Threads, SuspendThread(t) PROVE PauseInv'
    BY <1>2 DEF SuspendThread
  <1>3. ASSUME NEW t \in Threads, ResumeThread(t) PROVE PauseInv'
    BY <1>3 DEF ResumeThread
  <1>4. CASE Paused \/ EnablePage \/ WriteBytes \/ RestorePage \/ Installed
    BY <1>4 DEF Paused, EnablePage, WriteBytes, RestorePage, Installed
  <1>5. ASSUME NEW t \in Threads, Thread(t) PROVE PauseInv'
    BY <1>5 DEF Thread, CallFunction, RunInstruction, RunCall, CalleeReturns,
                RunJump, RunTorn, StubReturns, StartThread, ExitThread, Goes, OnlyMoves
  <1>6. CASE UNCHANGED vars
    BY <1>6 DEF vars
  <1> QED
    BY <1>1, <1>2, <1>3, <1>4, <1>5, <1>6 DEF Next, Server

(* What a thread that is clear may run leaves it clear, when the overwritten   *)
(* bytes hold all of the jump and nothing behind them goes back.               *)
LEMMA StaysClear ==
  ASSUME TypeOK, PhaseInv, NoWayBack, patched = Overwritten,
         NEW t \in Threads, Clear(t), Thread(t)
  PROVE  Clear(t)'
  <1> USE DEF TypeOK, Clear, Inside, Goes, OnlyMoves, functionVars
  <1>0. /\ DOMAIN code \subseteq Nat
        /\ \A a \in DOMAIN code : /\ code[a].len \in Nat \ {0}
                                  /\ code[a].goes \subseteq DOMAIN code \cup {Out}
    BY CodeFacts
  <1>1. \A a \in Tail : code[a].goes \cap Middle = {}
    BY DEF NoWayBack, Middle
  <1>2. ASSUME at[t] \in DOMAIN code, Intact(at[t]) PROVE at[t] \in Tail
    <2>1. at[t] \in Bytes(at[t])
      BY <1>0, <1>2 DEF Bytes
    <2> QED
      BY <2>1, <1>2 DEF Intact, Tail
  <1>3. /\ Out \notin Middle /\ Stub \notin Middle /\ Callee \notin Middle /\ 0 \notin Middle
        /\ Tail \cap Middle = {}
    BY DEF Elsewhere, Middle, Overwritten, Tail
  <1>4. CASE CallFunction(t)
    BY <1>3, <1>4 DEF CallFunction, Elsewhere
  <1>5. CASE RunInstruction(t)
    <2>1. PICK a \in code[at[t]].goes : at' = [at EXCEPT ![t] = a]
      BY <1>5 DEF RunInstruction
    <2>2. at[t] \in Tail
      BY <1>2, <1>5 DEF RunInstruction
    <2>3. a \in DOMAIN code \cup {Out} /\ a \notin Middle
      BY <1>0, <1>1, <1>3, <2>2 DEF Tail
    <2>4. a # Torn /\ a # Callee
      BY <1>0, <2>3 DEF Elsewhere
    <2> QED
      BY <2>1, <2>3, <2>4
  <1>6. CASE RunCall(t)
    <2>1. PICK a \in code[at[t]].goes \ {Out} : returns' = [returns EXCEPT ![t] = a]
      BY <1>6 DEF RunCall
    <2>2. at[t] \in Tail
      BY <1>2, <1>6 DEF RunCall
    <2>3. a \in DOMAIN code /\ a \notin Middle
      BY <1>0, <1>1, <2>1, <2>2 DEF Tail
    <2>4. at' = [at EXCEPT ![t] = Callee]
      BY <1>6 DEF RunCall
    <2> QED
      BY <1>3, <2>1, <2>3, <2>4
  <1>7. CASE CalleeReturns(t)
    <2>1. at[t] = Callee /\ at' = [at EXCEPT ![t] = returns[t]] /\ UNCHANGED returns
      BY <1>7 DEF CalleeReturns
    <2>2. returns[t] \in DOMAIN code /\ returns[t] \notin Middle
      BY <2>1
    <2>3. returns[t] # Torn /\ returns[t] # Callee
      BY <1>0, <2>2 DEF Elsewhere
    <2> QED
      BY <2>1, <2>2, <2>3
  <1>8. CASE RunJump(t)
    BY <1>3, <1>8 DEF RunJump
  <1>9. CASE RunTorn(t)
    <2>1. at[t] \in DOMAIN code /\ ~Intact(at[t]) /\ at[t] # 0
      BY <1>9 DEF RunTorn, Jump, PhaseInv
    <2>2. at[t] \in Nat /\ at[t] \notin Overwritten
      BY <1>0, <2>1 DEF Middle, Overwritten
    <2>3. Bytes(at[t]) \cap Overwritten = {}
      BY <1>0, <2>1, <2>2 DEF Bytes, Overwritten
    <2> QED
      BY <2>1, <2>3 DEF Intact, PhaseInv
  <1>10. CASE StubReturns(t)
    <2>1. PICK a \in Tail \cup {Out} : at' = [at EXCEPT ![t] = a]
      BY <1>10 DEF StubReturns
    <2>2. a \notin Middle /\ a # Torn /\ a # Callee
      BY <1>0, <1>3 DEF Elsewhere, Tail
    <2> QED
      BY <2>1, <2>2
  <1>11. CASE StartThread(t)
    BY <1>11 DEF StartThread
  <1>12. CASE ExitThread(t)
    BY <1>12 DEF ExitThread
  <1> QED
    BY <1>4, <1>5, <1>6, <1>7, <1>8, <1>9, <1>10, <1>11, <1>12 DEF Thread

(* A step of one thread moves no other. *)
LEMMA OthersStay ==
  ASSUME TypeOK, NEW t \in Threads, Thread(t)
  PROVE  /\ UNCHANGED <<functionVars, snap, phase, patched, inside>>
         /\ \A u \in Threads \ {t} : at'[u] = at[u] /\ returns'[u] = returns[u]
  BY DEF TypeOK, Thread, CallFunction, RunInstruction, RunCall, CalleeReturns, RunJump,
         RunTorn, StubReturns, StartThread, ExitThread, Goes, OnlyMoves, walkVars

(* Before the first byte is written nothing can be torn. *)
LEMMA WholeBefore ==
  ASSUME TypeOK, PhaseInv, patched = {}, NEW t \in Threads, at[t] # Torn, Thread(t)
  PROVE  at'[t] # Torn
  <1> USE DEF TypeOK, Goes, OnlyMoves
  <1>0. /\ DOMAIN code \subseteq Nat /\ 0 \in DOMAIN code
        /\ \A a \in DOMAIN code : code[a].goes \subseteq DOMAIN code \cup {Out}
    BY CodeFacts
  <1>1. Torn \notin DOMAIN code \cup {Out, Callee, Stub}
    BY <1>0 DEF Elsewhere
  <1>2. CASE CallFunction(t) \/ RunCall(t) \/ CalleeReturns(t) \/ RunJump(t)
    BY <1>0, <1>1, <1>2 DEF CallFunction, RunCall, CalleeReturns, RunJump
  <1>3. CASE RunInstruction(t)
    BY <1>0, <1>1, <1>3 DEF RunInstruction
  <1>4. CASE RunTorn(t)
    BY <1>4 DEF RunTorn, Intact, PhaseInv
  <1>5. CASE StubReturns(t)
    BY <1>1, <1>5 DEF StubReturns, Tail
  <1>6. CASE StartThread(t) \/ ExitThread(t)
    BY <1>6 DEF StartThread, ExitThread
  <1> QED
    BY <1>2, <1>3, <1>4, <1>5, <1>6 DEF Thread

(* A suspended thread does nothing that could hurt it. *)
LEMMA SuspendedStays ==
  ASSUME NEW t \in Threads, Thread(t), t \in suspended
  PROVE  UNCHANGED <<at, returns>>
  BY DEF Thread, CallFunction, RunInstruction, RunCall, CalleeReturns, RunJump,
         RunTorn, StubReturns, StartThread, ExitThread, Runs

(* ClearInv is kept. *)
LEMMA Clears == TypeOK /\ PatchInv /\ [Next]_vars => ClearInv'
  <1> SUFFICES ASSUME TypeOK, PatchInv, [Next]_vars PROVE ClearInv'
    OBVIOUS
  <1> USE DEF PatchInv
  <1>1. CASE Snapshot
    BY <1>1 DEF Snapshot, ClearInv, PhaseInv, functionVars, threadVars
  <1>2. CASE WriteBytes
    <2>0. PICK bytes \in (SUBSET (Overwritten \ patched)) \ {{}} : patched' = patched \cup bytes
      BY <1>2 DEF WriteBytes
    <2>1. UNCHANGED <<code, pauses, at, returns, snap>> /\ patched' # {}
      BY <1>2, <2>0 DEF WriteBytes, functionVars, threadVars, walkVars
    <2>2. ASSUME pauses, NoWayBack, NEW t \in snap \ inside' PROVE Clear(t)
      <3>1. CASE patched = {}
        <4>1. inside' = {u \in Threads : Inside(u)}
          BY <1>2, <3>1 DEF WriteBytes
        <4>2. t \in Threads
          BY <2>2 DEF TypeOK
        <4> QED
          BY <2>2, <3>1, <4>1, <4>2 DEF Clear, ClearInv
      <3>2. CASE patched # {}
        BY <1>2, <2>2, <3>2 DEF WriteBytes, ClearInv
      <3> QED
        BY <3>1, <3>2
    <2> QED
      BY <2>1, <2>2 DEF ClearInv, Clear, Inside, NoWayBack, Tail
  <1>3. CASE \/ Paused \/ EnablePage \/ RestorePage \/ Installed
             \/ \E t \in Threads : SuspendThread(t) \/ ResumeThread(t)
    <2>1. UNCHANGED <<code, pauses, at, returns, snap, patched, inside>>
      BY <1>3 DEF Paused, EnablePage, RestorePage, Installed, SuspendThread, ResumeThread,
                  functionVars, threadVars, walkVars, pageVars
    <2> QED
      BY <2>1 DEF ClearInv, Clear, Inside, NoWayBack, Tail
  <1>4. ASSUME NEW t \in Threads, Thread(t) PROVE ClearInv'
    <2>1. /\ UNCHANGED <<code, pauses, snap, patched, inside>>
          /\ \A u \in Threads \ {t} : at'[u] = at[u] /\ returns'[u] = returns[u]
      BY <1>4, OthersStay DEF functionVars
    <2>2. ASSUME patched = {} PROVE \A u \in Threads : at'[u] # Torn
      BY <1>4, <2>1, <2>2, WholeBefore DEF ClearInv
    <2>3. ASSUME pauses, NoWayBack, patched # {}, NEW u \in snap \ inside PROVE Clear(u)'
      <3>1. u \in Threads /\ Clear(u)
        BY <2>3 DEF TypeOK, ClearInv
      <3>2. CASE u # t
        BY <2>1, <3>1, <3>2 DEF Clear, Inside
      <3>3. CASE u = t /\ phase = "writing"
        <4>1. t \in suspended
          BY <2>3, <3>3 DEF PauseInv
        <4>2. UNCHANGED <<at, returns>>
          BY <1>4, <4>1, SuspendedStays
        <4> QED
          BY <3>1, <4>2 DEF Clear, Inside
      <3>4. CASE u = t /\ phase # "writing"
        <4>1. patched = Overwritten
          BY <2>3, <3>4 DEF PhaseInv, TypeOK
        <4> QED
          BY <1>4, <2>3, <3>1, <3>4, <4>1, StaysClear
      <3> QED
        BY <3>2, <3>3, <3>4
    <2>4. NoWayBack' <=> NoWayBack
      BY <2>1 DEF NoWayBack, Tail
    <2> QED
      BY <2>1, <2>2, <2>3, <2>4 DEF ClearInv
  <1>5. CASE UNCHANGED vars
    BY <1>5 DEF vars, functionVars, threadVars, walkVars, ClearInv, Clear, Inside, NoWayBack, Tail
  <1> QED
    BY <1>1, <1>2, <1>3, <1>4, <1>5 DEF Next, Server

(* The inductive invariant behind the theorems. *)
LEMMA Inductive == Spec => [](TypeOK /\ PatchInv)
  <1>1. Init => PatchInv
    <2> SUFFICES ASSUME Init PROVE PatchInv
      OBVIOUS
    <2>1. Out # Torn
      BY DEF Elsewhere
    <2> QED
      BY <2>1 DEF Init, PatchInv, PhaseInv, PauseInv, ClearInv
  <1>2. TypeOK /\ PatchInv /\ [Next]_vars => PatchInv'
    BY Phases, Pauses, Clears DEF PatchInv
  <1> QED
    BY <1>1, <1>2, TypeCorrect, PTL DEF Spec

(* Under a pause the only threads torn are those that were among the           *)
(* overwritten bytes and those the suspend walk did not know.                  *)
THEOREM PauseProtects == Spec => []PausedIsSafe
  <1>1. TypeOK /\ PatchInv => PausedIsSafe
    BY DEF PatchInv, ClearInv, PausedIsSafe, Clear
  <1> QED
    BY <1>1, Inductive, PTL

(* The installed jump hurts nobody who is not inside when it is complete. *)
THEOREM InstalledIsSafe == Spec => SafeOnceInstalled
  <1>1. ASSUME TypeOK, PatchInv, NoWayBack, NEW t \in Threads,
               phase \in {"written", "done"}, ~Inside(t), RunTorn(t)
        PROVE  FALSE
    <2>1. patched = Overwritten
      BY <1>1 DEF PatchInv, PhaseInv
    <2>2. at[t] # Torn
      BY <1>1, CodeFacts DEF RunTorn, TypeOK, Elsewhere
    <2>3. Clear(t) /\ Thread(t)
      BY <1>1, <2>2 DEF Clear, Thread
    <2>4. Clear(t)'
      BY <1>1, <2>1, <2>3, StaysClear DEF PatchInv
    <2>5. at'[t] = Torn
      BY <1>1 DEF RunTorn, Goes, TypeOK
    <2> QED
      BY <2>4, <2>5 DEF Clear
  <1>2. TypeOK /\ PatchInv /\ [Next]_vars =>
          [NoWayBack =>
             \A t \in Threads :
               (phase \in {"written", "done"} /\ ~Inside(t)) => ~RunTorn(t)]_vars
    BY <1>1
  <1> QED
    BY <1>2, Inductive, PTL DEF SafeOnceInstalled, Spec

-----------------------------------------------------------------------------
(* With a long first instruction and nobody created meanwhile, nobody escapes  *)
(* the suspend walk and nobody is torn.                                       *)
OnceInv ==
  AtOnce => /\ phase # "idle" => alive \subseteq snap
            /\ \A t \in Threads : at[t] # Torn

(* What makes AtOnce true does not change. *)
LEMMA StaysAtOnce == TypeOK /\ [Next]_vars => (AtOnce' <=> AtOnce)
  <1> SUFFICES ASSUME TypeOK, [Next]_vars PROVE UNCHANGED functionVars
    BY DEF AtOnce, NoWayBack, Tail, functionVars
  <1>1. ASSUME NEW t \in Threads, Thread(t) PROVE UNCHANGED functionVars
    BY <1>1, OthersStay
  <1>2. ASSUME NEW t \in Threads, SuspendThread(t) \/ ResumeThread(t)
        PROVE UNCHANGED functionVars
    BY <1>2 DEF SuspendThread, ResumeThread
  <1>3. CASE Snapshot \/ Paused \/ EnablePage \/ WriteBytes \/ RestorePage \/ Installed
    BY <1>3 DEF Snapshot, Paused, EnablePage, WriteBytes, RestorePage, Installed
  <1> QED
    BY <1>1, <1>2, <1>3 DEF Next, Server, vars

(* No instruction, and so no thread, is among the overwritten bytes. *)
LEMMA NobodyInside ==
  ASSUME TypeOK, AtOnce, NEW t \in Threads
  PROVE  ~Inside(t)
  <1>1. \A a \in Elsewhere : a \notin Middle
    BY DEF Elsewhere, Middle, Overwritten
  <1> QED
    BY <1>1 DEF TypeOK, AtOnce, Inside

(* Nobody is torn when AtOnce holds. *)
LEMMA NobodyTorn ==
  ASSUME TypeOK, PatchInv, OnceInv, AtOnce, NEW t \in Threads, Thread(t)
  PROVE  at'[t] # Torn
  <1> USE DEF PatchInv
  <1>1. Clear(t)
    BY NobodyInside DEF OnceInv, Clear
  <1>2. CASE patched = {}
    BY <1>1, <1>2, WholeBefore DEF Clear
  <1>3. CASE patched # {} /\ phase = "writing"
    <2>1. t \in suspended \/ t \notin alive
      BY <1>3 DEF OnceInv, PauseInv, AtOnce
    <2>2. UNCHANGED at
      BY <2>1 DEF Thread, CallFunction, RunInstruction, RunCall, CalleeReturns, RunJump,
                  RunTorn, StubReturns, StartThread, ExitThread, Runs
    <2> QED
      BY <1>1, <2>2 DEF Clear
  <1>4. CASE patched # {} /\ phase # "writing"
    <2>1. patched = Overwritten
      BY <1>4 DEF PhaseInv, TypeOK
    <2> QED
      BY <1>1, <2>1, StaysClear DEF AtOnce, Clear
  <1> QED
    BY <1>2, <1>3, <1>4

(* OnceInv is kept. *)
LEMMA Onces == TypeOK /\ PatchInv /\ OnceInv /\ [Next]_vars => OnceInv'
  <1> SUFFICES ASSUME TypeOK, PatchInv, OnceInv, [Next]_vars, AtOnce, AtOnce'
               PROVE  OnceInv'
    BY StaysAtOnce DEF OnceInv
  <1> USE DEF threadVars, walkVars, pageVars, functionVars
  <1>1. CASE Snapshot
    BY <1>1 DEF Snapshot, OnceInv, AtOnce
  <1>2. CASE \/ Paused \/ EnablePage \/ WriteBytes \/ RestorePage \/ Installed
             \/ \E t \in Threads : SuspendThread(t) \/ ResumeThread(t)
    BY <1>2 DEF Paused, EnablePage, WriteBytes, RestorePage, Installed,
                SuspendThread, ResumeThread, OnceInv
  <1>3. ASSUME NEW t \in Threads, Thread(t) PROVE OnceInv'
    <2>1. UNCHANGED <<snap, phase>> /\ \A u \in Threads \ {t} : at'[u] = at[u]
      BY <1>3, OthersStay
    <2>2. at'[t] # Torn
      BY <1>3, NobodyTorn
    <2>3. alive' \subseteq alive
      BY <1>3 DEF AtOnce, Thread, CallFunction, RunInstruction, RunCall, CalleeReturns,
         RunJump, RunTorn, StubReturns, StartThread, ExitThread, Goes, OnlyMoves
    <2> QED
      BY <2>1, <2>2, <2>3 DEF OnceInv
  <1>4. CASE UNCHANGED vars
    BY <1>4 DEF vars, OnceInv
  <1> QED
    BY <1>1, <1>2, <1>3, <1>4 DEF Next, Server

(* A step of a thread is a call, a return, or nothing, of Redirection. *)
LEMMA ThreadMaps ==
  ASSUME TypeOK, PatchInv, OnceInv, AtOnce, AtOnce', NEW t \in Threads, Thread(t)
  PROVE  R!Next \/ UNCHANGED R!vars
  <1> DEFINE places == [u \in Threads |-> Place(u)]
  <1>0. /\ DOMAIN code \subseteq Nat /\ 0 \in DOMAIN code
        /\ \A a \in DOMAIN code : /\ code[a].len \in Nat \ {0}
                                  /\ code[a].goes \subseteq DOMAIN code \cup {Out}
    BY CodeFacts DEF TypeOK
  <1>1. /\ UNCHANGED <<functionVars, patched>>
        /\ \A u \in Threads \ {t} : at'[u] = at[u]
    BY OthersStay
  <1>2. places' = [places EXCEPT ![t] = Place(t)']
    <2>1. \A u \in Threads \ {t} : Place(u)' = Place(u)
      BY <1>1 DEF Place
    <2> QED
      BY <2>1
  <1>3. at \in [Threads -> DOMAIN code \cup Elsewhere]
    BY DEF TypeOK
  <1>4. Torn \notin {Out, Stub, Callee} \cup DOMAIN code
        /\ Out \notin DOMAIN code /\ Stub \notin DOMAIN code /\ Callee \notin DOMAIN code
        /\ Out # Stub /\ Out # Callee /\ Stub # Callee
    BY <1>0 DEF Elsewhere
  <1> USE DEF Goes
  <1>5. CASE CallFunction(t) \/ StartThread(t) \/ ExitThread(t)
    <2>1. Place(t)' = Place(t)
      BY <1>0, <1>3, <1>4, <1>5 DEF CallFunction, StartThread, ExitThread, Place
    <2> QED
      BY <1>1, <1>2, <2>1 DEF R!vars
  <1>6. CASE RunInstruction(t)
    <2>1. PICK a \in code[at[t]].goes : at' = [at EXCEPT ![t] = a]
      BY <1>6 DEF RunInstruction
    <2>2. at[t] \in DOMAIN code /\ a \in DOMAIN code \cup {Out}
      BY <1>0, <1>6, <2>1 DEF RunInstruction
    <2>3. CASE at[t] = 0
      <3>1. patched # Overwritten
        BY <1>0, <1>6, <2>3 DEF RunInstruction, Intact, Bytes, Overwritten
      <3>2. Place(t) = "out" /\ Place(t)' \in {"out", "original"}
        BY <1>0, <1>3, <1>4, <2>1, <2>2, <2>3 DEF Place
      <3> QED
        BY <1>1, <1>2, <3>1, <3>2 DEF R!vars, R!Next, R!Call
    <2>4. CASE at[t] # 0
      <3>1. Place(t) = "original" /\ Place(t)' \in {"out", "original"}
        BY <1>0, <1>3, <1>4, <2>1, <2>2, <2>4 DEF Place
      <3> QED
        BY <1>1, <1>2, <3>1 DEF R!vars, R!Next, R!Return
    <2> QED
      BY <2>3, <2>4
  <1>7. CASE RunCall(t)
    <2>1. at[t] \in DOMAIN code /\ at' = [at EXCEPT ![t] = Callee]
      BY <1>7 DEF RunCall
    <2>2. CASE at[t] = 0
      <3>1. patched # Overwritten
        BY <1>0, <1>7, <2>2 DEF RunCall, Intact, Bytes, Overwritten
      <3>2. Place(t) = "out" /\ Place(t)' = "original"
        BY <1>0, <1>3, <1>4, <2>1, <2>2 DEF Place
      <3> QED
        BY <1>1, <1>2, <3>1, <3>2 DEF R!Next, R!Call
    <2>3. CASE at[t] # 0
      <3>1. Place(t) = "original" /\ Place(t)' = "original"
        BY <1>0, <1>3, <1>4, <2>1, <2>3 DEF Place
      <3> QED
        BY <1>1, <1>2, <3>1 DEF R!vars
    <2> QED
      BY <2>2, <2>3
  <1>8. CASE CalleeReturns(t)
    <2>1. at[t] = Callee /\ at' = [at EXCEPT ![t] = returns[t]] /\ returns[t] \in DOMAIN code
      BY <1>8 DEF CalleeReturns, TypeOK
    <2>2. Place(t) = "original" /\ Place(t)' \in {"out", "original"}
      BY <1>0, <1>3, <1>4, <2>1 DEF Place
    <2> QED
      BY <1>1, <1>2, <2>2 DEF R!vars, R!Next, R!Return
  <1>9. CASE RunJump(t)
    <2>1. at[t] = 0 /\ at' = [at EXCEPT ![t] = Stub] /\ patched = Overwritten
      BY <1>9 DEF RunJump, Jump
    <2>2. Place(t) = "out" /\ Place(t)' = "stub"
      BY <1>0, <1>3, <1>4, <2>1 DEF Place
    <2> QED
      BY <1>1, <1>2, <2>1, <2>2 DEF R!Next, R!Call
  <1>10. CASE RunTorn(t)
    <2>1. at' = [at EXCEPT ![t] = Torn]
      BY <1>10 DEF RunTorn
    <2> QED
      BY <1>3, <2>1, NobodyTorn
  <1>11. CASE StubReturns(t)
    <2>1. PICK a \in Tail \cup {Out} : at' = [at EXCEPT ![t] = a]
      BY <1>11 DEF StubReturns
    <2>2. at[t] = Stub /\ a \in DOMAIN code \cup {Out}
      BY <1>11, <2>1 DEF StubReturns, Tail
    <2>3. Place(t) = "stub" /\ Place(t)' \in {"out", "original"}
      BY <1>0, <1>3, <1>4, <2>1, <2>2 DEF Place
    <2> QED
      BY <1>1, <1>2, <2>3 DEF R!Next, R!CallOriginal, R!Return
  <1> QED
    BY <1>5, <1>6, <1>7, <1>8, <1>9, <1>10, <1>11 DEF Thread

(* Patching implements Redirection: with a long first instruction, under a     *)
(* pause, the five bytes are one step.                                         *)
THEOREM OneStep == Spec => IsOneStep
  <1>1. Init => OnceInv /\ R!Init
    <2> SUFFICES ASSUME Init PROVE OnceInv /\ R!Init
      OBVIOUS
    <2>1. Out # Torn
      BY DEF Elsewhere
    <2> QED
      BY <2>1 DEF Init, OnceInv, R!Init, Place, Overwritten
  <1>2. TypeOK /\ PatchInv /\ OnceInv /\ [Next]_vars => [R!Next]_(R!vars)
    <2> SUFFICES ASSUME TypeOK, PatchInv, OnceInv, [Next]_vars
                 PROVE  R!Next \/ UNCHANGED R!vars
      OBVIOUS
    <2>1. AtOnce' <=> AtOnce
      BY StaysAtOnce
    <2>2. CASE ~AtOnce
      <3>1. \A t \in Threads : Place(t) = "out" /\ Place(t)' = "out"
        BY <2>1, <2>2 DEF Place
      <3>2. UNCHANGED [t \in Threads |-> Place(t)]
        BY <3>1
      <3> QED
        BY <2>1, <2>2, <3>2 DEF R!vars
    <2>3. CASE AtOnce /\ WriteBytes
      <3>1. UNCHANGED <<code, at>> /\ (patched = Overwritten => patched' = Overwritten)
        BY <2>3 DEF WriteBytes, functionVars, threadVars
      <3>2. UNCHANGED [u \in Threads |-> Place(u)]
        BY <2>1, <3>1 DEF Place
      <3> QED
        BY <2>1, <2>3, <3>1, <3>2 DEF R!vars, R!Next, R!Redirect
    <2>4. CASE AtOnce /\ \E t \in Threads : Thread(t)
      BY <2>1, <2>4, ThreadMaps
    <2>5. CASE \/ Snapshot \/ Paused \/ EnablePage \/ RestorePage \/ Installed
               \/ \E t \in Threads : SuspendThread(t) \/ ResumeThread(t)
               \/ UNCHANGED vars
      <3>1. UNCHANGED <<code, at, patched>>
        BY <2>5 DEF Snapshot, Paused, EnablePage, RestorePage, Installed, SuspendThread,
                    ResumeThread, vars, functionVars, threadVars
      <3> QED
        BY <2>1, <3>1 DEF R!vars, Place
    <2> QED
      BY <2>2, <2>3, <2>4, <2>5 DEF Next, Server
  <1> QED
    BY <1>1, <1>2, Onces, Inductive, PTL DEF Spec, IsOneStep, R!Spec
=============================================================================
