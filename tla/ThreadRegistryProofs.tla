------------------------ MODULE ThreadRegistryProofs ------------------------
(***************************************************************************)
(* Proofs about ThreadRegistry.  Ids and walks may be as many as one likes.  *)
(***************************************************************************)
EXTENDS ThreadRegistry, TLAPS


-----------------------------------------------------------------------------
(* Each new thread has one maker, who has its handle until it is released; a  *)
(* thread leaves while it is alive, and is not suspended when it is gone.     *)

Makers ==
  /\ \A c \in Ids : stage[c] = "idle" <=> making[c] = Nobody
  /\ \A c, d \in Ids : making[c] # Nobody /\ making[c] = making[d] => c = d
  /\ \A c \in Ids : making[c] # Nobody =>
       making[c] \in handles /\ owner[making[c]] \in {"heat", "gone"}

Leavers ==
  /\ \A t \in Ids : leaving[t] # "no" => owner[t] \in {"aut", "heat"}
  /\ \A t \in Ids : owner[t] \in {"free", "gone"} => count[t] = 0

Sound == TypeOK /\ Makers /\ Leavers

(* Types. *)

\* Types hold at the start.
LEMMA InitType == Init => TypeOK
  <1> SUFFICES ASSUME Init PROVE TypeOK
    OBVIOUS
  <1>1. count \in [Ids -> Nat] /\ owner \in [Ids -> {"free", "aut", "heat", "gone"}]
    BY DEF Init
  <1>2. leaving \in [Ids -> {"no", "found", "missing"}] /\ stage \in [Ids -> {"idle", "created", "registered"}] /\ making \in [Ids -> Ids \cup {Nobody}]
    BY DEF Init
  <1>3. walks \in 0..MaxWalks
    BY IdAssumption DEF Init
  <1>4. /\ handles \subseteq Ids /\ heatThreadIds \subseteq Ids /\ left \subseteq Ids
        /\ walk = "idle" /\ gaveUp \in BOOLEAN /\ hurried \subseteq Ids /\ abandoned \in Nat
    BY DEF Init
  <1> QED BY <1>1, <1>2, <1>3, <1>4 DEF TypeOK

\* A resume takes one off a count, and a count that is zero stays so.
LEMMA ResumedType ==
  ASSUME NEW k \in Nat
  PROVE  Resumed(k) \in Nat /\ Resumed(k) <= k /\ (k <= 1 => Resumed(k) = 0)
BY DEF Resumed

\* Every step keeps the types.
LEMMA NextType == Sound /\ [Next]_vars => TypeOK'
<1> SUFFICES ASSUME Sound, [Next]_vars PROVE TypeOK'
  OBVIOUS
<1> USE IdAssumption DEF Sound, TypeOK, threadVars, creationVars, walkVars
<1>1. CASE Walking
  <2>1. CASE Snapshot
    BY <2>1 DEF Snapshot, Alive
  <2>2. CASE EndWalk
    BY <2>2 DEF EndWalk
  <2>3. ASSUME NEW t \in Ids, Visit(t) PROVE TypeOK'
    <3>1. count[t] + 1 \in Nat /\ Resumed(count[t]) \in Nat
      BY ResumedType
    <3>2. count' \in [Ids -> Nat]
      BY <2>3, <3>1 DEF Visit
    <3>3. hurried' \subseteq Ids
      BY <2>3 DEF Visit
    <3>4. /\ left' \subseteq Ids
          /\ UNCHANGED <<owner, handles, making, stage, leaving, heatThreadIds, walk, walks, abandoned, gaveUp>>
      BY <2>3 DEF Visit
    <3> QED BY <3>2, <3>3, <3>4
  <2>4. ASSUME NEW t \in Ids, GiveUp(t) PROVE TypeOK'
    BY <2>4 DEF GiveUp
  <2> HIDE DEF TypeOK
  <2> QED BY <1>1, <2>1, <2>2, <2>3, <2>4 DEF Walking
<1>2. ASSUME NEW c \in Ids, Register(c) PROVE TypeOK'
  <2>1. making[c] \in Ids
    BY <1>2 DEF Register, Makers
  <2> QED BY <1>2, <2>1 DEF Register
<1>3. ASSUME NEW c \in Ids, Release(c) PROVE TypeOK'
  <2>1. making[c] \in Ids => Resumed(count[making[c]]) \in Nat
    BY ResumedType
  <2>2. count' \in [Ids -> Nat]
    BY <1>3, <2>1 DEF Release
  <2>3. /\ making' \in [Ids -> Ids \cup {Nobody}]
        /\ stage' \in [Ids -> {"idle", "created", "registered"}]
        /\ UNCHANGED <<owner, handles, leaving, heatThreadIds, walk, left, walks, abandoned, gaveUp, hurried>>
    BY <1>3 DEF Release
  <2> QED BY <2>2, <2>3
<1>4. ASSUME NEW t \in Ids, CloseHandle(t) PROVE TypeOK'
  BY <1>4 DEF CloseHandle
<1>5. ASSUME NEW t \in Ids, BeginExit(t) PROVE TypeOK'
  BY <1>5 DEF BeginExit
<1>6. ASSUME NEW t \in Ids, EndExit(t) PROVE TypeOK'
  BY <1>6 DEF EndExit, Leaves
<1>7. ASSUME NEW c \in Ids, NEW t \in Ids, Create(c, t) PROVE TypeOK'
  BY <1>7 DEF Create
<1>8. ASSUME NEW c \in Ids, NEW t \in Ids, CreateOwn(c, t) PROVE TypeOK'
  BY <1>8 DEF CreateOwn
<1>10. CASE Abandon
  BY <1>10 DEF Abandon
<1>9. CASE UNCHANGED vars
  BY <1>9 DEF vars
<1> QED BY <1>1, <1>2, <1>3, <1>4, <1>5, <1>6, <1>7, <1>8, <1>9, <1>10 DEF Next, Creating

\* Makers and leavers are as they should be at the start.
LEMMA InitSound == Init => Sound
  <1> SUFFICES ASSUME Init PROVE Sound
    OBVIOUS
  <1>1. Makers
    BY IdAssumption DEF Init, Makers
  <1>2. Leavers
    BY DEF Init, Leavers
  <1> QED BY InitType, <1>1, <1>2 DEF Sound

\* Every step leaves each new thread its one maker.
LEMMA NextMakers == Sound /\ [Next]_vars => Makers'
<1> SUFFICES ASSUME Sound, [Next]_vars PROVE Makers'
  OBVIOUS
<1> USE IdAssumption DEF Sound, TypeOK, Makers, threadVars, creationVars, walkVars
<1>1. CASE Walking
  BY <1>1, Zenon DEF Walking, Snapshot, EndWalk, Visit, GiveUp
<1>2. ASSUME NEW c \in Ids, Register(c) PROVE Makers'
  BY <1>2 DEF Register
<1>3. ASSUME NEW c \in Ids, Release(c) PROVE Makers'
  <2>1. /\ \A d \in Ids : making'[d] = IF d = c THEN Nobody ELSE making[d]
        /\ \A d \in Ids : stage'[d] = IF d = c THEN "idle" ELSE stage[d]
        /\ handles' = handles /\ owner' = owner
    BY <1>3 DEF Release
  <2> QED BY <2>1
<1>4. ASSUME NEW t \in Ids, CloseHandle(t) PROVE Makers'
  BY <1>4 DEF CloseHandle
<1>5. ASSUME NEW t \in Ids, BeginExit(t) PROVE Makers'
  BY <1>5 DEF BeginExit
<1>6. ASSUME NEW t \in Ids, EndExit(t) PROVE Makers'
  BY <1>6 DEF EndExit, Leaves
<1>7. ASSUME NEW c \in Ids, NEW t \in Ids, Create(c, t) PROVE Makers'
  <2>1. /\ \A d \in Ids : making'[d] = IF d = c THEN t ELSE making[d]
        /\ \A d \in Ids : stage'[d] = IF d = c THEN "created" ELSE stage[d]
        /\ \A u \in Ids : owner'[u] = IF u = t THEN "heat" ELSE owner[u]
        /\ handles' = handles \cup {t}
    BY <1>7 DEF Create
  <2>2. \A d \in Ids : making[d] # t
    BY <1>7 DEF Create
  <2> QED BY <2>1, <2>2
<1>8. ASSUME NEW c \in Ids, NEW t \in Ids, CreateOwn(c, t) PROVE Makers'
  <2>1. /\ \A u \in Ids : owner'[u] = IF u = t THEN "aut" ELSE owner[u]
        /\ UNCHANGED <<making, stage, handles>>
    BY <1>8 DEF CreateOwn
  <2>2. \A d \in Ids : making[d] # t
    BY <1>8 DEF CreateOwn
  <2> QED BY <2>1, <2>2
<1>10. CASE Abandon
  BY <1>10 DEF Abandon
<1>9. CASE UNCHANGED vars
  BY <1>9 DEF vars
<1> HIDE DEF Makers
<1> QED BY <1>1, <1>2, <1>3, <1>4, <1>5, <1>6, <1>7, <1>8, <1>9, <1>10 DEF Next, Creating

\* Every step leaves gone threads alone.
LEMMA NextLeavers == Sound /\ [Next]_vars => Leavers'
<1> SUFFICES ASSUME Sound, [Next]_vars PROVE Leavers'
  OBVIOUS
<1> USE IdAssumption DEF Sound, TypeOK, Leavers, threadVars, creationVars, walkVars
<1>1. CASE Walking
  <2>1. CASE Snapshot
    BY <2>1 DEF Snapshot
  <2>2. CASE EndWalk
    BY <2>2 DEF EndWalk
  <2>3. ASSUME NEW t \in Ids, Visit(t) PROVE Leavers'
    BY <2>3 DEF Visit, Alive
  <2>4. ASSUME NEW t \in Ids, GiveUp(t) PROVE Leavers'
    BY <2>4 DEF GiveUp
  <2> HIDE DEF Leavers
  <2> QED BY <1>1, <2>1, <2>2, <2>3, <2>4 DEF Walking
<1>2. ASSUME NEW c \in Ids, Register(c) PROVE Leavers'
  BY <1>2 DEF Register
<1>3. ASSUME NEW c \in Ids, Release(c) PROVE Leavers'
  <2>1. \A t \in Ids : count'[t] = IF t = making[c] THEN Resumed(count[t]) ELSE count[t]
    BY <1>3 DEF Release
  <2>2. UNCHANGED <<owner, leaving>>
    BY <1>3 DEF Release
  <2>3. \A t \in Ids : count[t] = 0 => count'[t] = 0
    BY <2>1 DEF Resumed
  <2> QED BY <2>2, <2>3
<1>4. ASSUME NEW t \in Ids, CloseHandle(t) PROVE Leavers'
  BY <1>4 DEF CloseHandle
<1>5. ASSUME NEW t \in Ids, BeginExit(t) PROVE Leavers'
  BY <1>5 DEF BeginExit, Idle, Runs, Alive
<1>6. ASSUME NEW t \in Ids, EndExit(t) PROVE Leavers'
  BY <1>6 DEF EndExit, Leaves, Runs, Alive
<1>7. ASSUME NEW c \in Ids, NEW t \in Ids, Create(c, t) PROVE Leavers'
  BY <1>7 DEF Create
<1>8. ASSUME NEW c \in Ids, NEW t \in Ids, CreateOwn(c, t) PROVE Leavers'
  BY <1>8 DEF CreateOwn
<1>10. CASE Abandon
  BY <1>10 DEF Abandon
<1>9. CASE UNCHANGED vars
  BY <1>9 DEF vars
<1> HIDE DEF Leavers
<1> QED BY <1>1, <1>2, <1>3, <1>4, <1>5, <1>6, <1>7, <1>8, <1>9, <1>10 DEF Next, Creating

\* Hence all three always hold.
LEMMA AlwaysSound == Spec => []Sound
  <1>1. Sound /\ [Next]_vars => Sound'
    BY NextType, NextMakers, NextLeavers DEF Sound
  <1> QED BY InitSound, <1>1, PTL DEF Spec

(* Every variable keeps its type, however many ids and walks there are.       *)
THEOREM TypeCorrect == Spec => []TypeOK
  <1>1. Sound => TypeOK
    BY DEF Sound
  <1> QED BY AlwaysSound, <1>1, PTL

-----------------------------------------------------------------------------
(* Unless a walk has let a thread of that id go before its maker had           *)
(* registered it: HEAT's threads are registered or held by their makers,       *)
(* nobody else is, and what a thread found out when it began to leave is still *)
(* so.                                                                         *)
Known ==
  \A t \in Ids \ hurried :
    /\ owner[t] = "heat" => t \in heatThreadIds \/ (Unregistered(t) /\ count[t] > 0)
    /\ owner[t] # "heat" => t \notin heatThreadIds
    /\ Unregistered(t) => owner[t] = "heat" /\ count[t] > 0
    /\ leaving[t] = "found" => t \in heatThreadIds
    /\ leaving[t] = "missing" => owner[t] # "heat"

\* At the start no thread of HEAT's runs.
LEMMA InitKnown == Init => Known
  <1> SUFFICES ASSUME Init PROVE Known
    OBVIOUS
  <1>1. \A t \in Ids : stage[t] = "idle" /\ leaving[t] = "no" /\ owner[t] # "heat"
    BY DEF Init
  <1> QED BY <1>1 DEF Init, Known, Unregistered

\* A step that changes nothing that Known speaks of.
LEMMA SameKnown ==
  ASSUME Known, UNCHANGED <<owner, count, making, stage, leaving, heatThreadIds, hurried>>
  PROVE  Known'
BY DEF Known, Unregistered

\* Every step keeps the register up to date.
LEMMA NextKnown == Sound /\ Known /\ [Next]_vars => Known'
<1> SUFFICES ASSUME Sound, Known, [Next]_vars PROVE Known'
  OBVIOUS
<1> USE IdAssumption DEF threadVars, creationVars, walkVars
<1>1. CASE Walking
  <2>1. CASE Snapshot
    BY <2>1, SameKnown DEF Snapshot
  <2>2. CASE EndWalk
    BY <2>2, SameKnown DEF EndWalk
  <2>3. ASSUME NEW t \in Ids, Visit(t) PROVE Known'
    <3>1. /\ hurried \subseteq hurried'
          /\ t \notin hurried' => ~(count'[t] = 0 /\ Unregistered(t))
      BY <2>3 DEF Visit
    <3>2. /\ UNCHANGED <<owner, making, stage, leaving, heatThreadIds>>
          /\ \A u \in Ids : u # t => count'[u] = count[u]
      BY <2>3 DEF Visit, Sound, TypeOK
    <3>3. count'[t] \in Nat
      BY <2>3, NextType DEF Sound, TypeOK
    <3>4. \A u \in Ids : Unregistered(u)' <=> Unregistered(u)
      BY <3>2 DEF Unregistered
    <3>5. \A u \in Ids \ hurried' : Unregistered(u) => count'[u] > 0
      BY <3>1, <3>2, <3>3 DEF Known
    <3> HIDE DEF Unregistered
    <3> QED BY <3>1, <3>2, <3>4, <3>5 DEF Known
  <2>4. ASSUME NEW t \in Ids, GiveUp(t) PROVE Known'
    BY <2>4, SameKnown DEF GiveUp
  <2> QED BY <1>1, <2>1, <2>2, <2>3, <2>4 DEF Walking
<1>2. ASSUME NEW c \in Ids, Register(c) PROVE Known'
  <2>1. Known
    OBVIOUS
  <2>2. /\ heatThreadIds' = heatThreadIds \cup {making[c]}
        /\ \A d \in Ids : stage'[d] = IF d = c THEN "registered" ELSE stage[d]
        /\ UNCHANGED <<owner, count, making, leaving, hurried>>
    BY <1>2 DEF Register, Sound, TypeOK
  <2>3. /\ making[c] \in Ids /\ Unregistered(making[c])
        /\ making[c] \notin hurried => owner[making[c]] = "heat"
    BY <1>2, <2>1 DEF Register, Sound, TypeOK, Makers, Unregistered, Known
  <2>4. \A u \in Ids : u # making[c] => (Unregistered(u)' <=> Unregistered(u))
    BY <2>2 DEF Unregistered
  <2>5. ~Unregistered(making[c])'
    BY <2>2, <2>3 DEF Unregistered, Sound, Makers
  <2> QED BY <2>1, <2>2, <2>3, <2>4, <2>5 DEF Known
<1>3. ASSUME NEW c \in Ids, Release(c) PROVE Known'
  <2>1. Known
    OBVIOUS
  <2>2. /\ \A d \in Ids : making'[d] = IF d = c THEN Nobody ELSE making[d]
        /\ \A d \in Ids : stage'[d] = IF d = c THEN "idle" ELSE stage[d]
        /\ \A u \in Ids : u # making[c] => count'[u] = count[u]
        /\ UNCHANGED <<owner, leaving, heatThreadIds, hurried>>
        /\ stage[c] = "registered"
    BY <1>3 DEF Release, Sound, TypeOK
  <2>3. ~Unregistered(making[c])
    BY <2>2 DEF Unregistered, Sound, Makers
  <2>4. \A u \in Ids : Unregistered(u)' <=> Unregistered(u)
    BY <2>2 DEF Unregistered
  <2> QED BY <2>1, <2>2, <2>3, <2>4 DEF Known
<1>4. ASSUME NEW t \in Ids, CloseHandle(t) PROVE Known'
  <2>1. Known
    OBVIOUS
  <2>2. /\ \A u \in Ids : owner'[u] = "heat" <=> owner[u] = "heat"
        /\ UNCHANGED <<count, making, stage, leaving, heatThreadIds, hurried>>
    BY <1>4 DEF CloseHandle, Sound, TypeOK
  <2> QED BY <2>1, <2>2 DEF Known, Unregistered
<1>5. ASSUME NEW t \in Ids, BeginExit(t) PROVE Known'
  <2>1. Known
    OBVIOUS
  <2>2. /\ \A u \in Ids : leaving'[u] =
             IF u = t THEN (IF t \in heatThreadIds THEN "found" ELSE "missing") ELSE leaving[u]
        /\ UNCHANGED <<owner, count, making, stage, heatThreadIds, hurried>>
        /\ count[t] = 0
    BY <1>5 DEF BeginExit, Idle, Runs, Sound, TypeOK
  <2> QED BY <2>1, <2>2 DEF Known, Unregistered
<1>6. ASSUME NEW t \in Ids, EndExit(t) PROVE Known'
  <2>1. Known
    OBVIOUS
  <2>2. /\ \A u \in Ids : u # t => owner'[u] = owner[u] /\ leaving'[u] = leaving[u]
        /\ owner'[t] \in {"free", "gone"} /\ leaving'[t] = "no"
        /\ heatThreadIds' = IF leaving[t] = "found" THEN heatThreadIds \ {t} ELSE heatThreadIds
        /\ UNCHANGED <<count, making, stage, hurried>>
        /\ count[t] = 0 /\ leaving[t] # "no"
    BY <1>6 DEF EndExit, Leaves, Runs, Sound, TypeOK
  <2>3. leaving[t] \in {"found", "missing"}
    BY <2>2 DEF Sound, TypeOK
  <2> QED BY <2>1, <2>2, <2>3 DEF Known, Unregistered
<1>7. ASSUME NEW c \in Ids, NEW t \in Ids, Create(c, t) PROVE Known'
  <2>1. Known
    OBVIOUS
  <2>2. /\ \A d \in Ids : making'[d] = IF d = c THEN t ELSE making[d]
        /\ \A d \in Ids : stage'[d] = IF d = c THEN "created" ELSE stage[d]
        /\ \A u \in Ids : owner'[u] = IF u = t THEN "heat" ELSE owner[u]
        /\ \A u \in Ids : count'[u] = IF u = t THEN 1 ELSE count[u]
        /\ UNCHANGED <<leaving, heatThreadIds, hurried>>
        /\ stage[c] = "idle" /\ owner[t] = "free"
    BY <1>7 DEF Create, Idle, Sound, TypeOK
  <2>3. leaving[t] = "no"
    BY <2>2 DEF Sound, Leavers
  <2>4. \A u \in Ids : Unregistered(u)' <=> Unregistered(u) \/ u = t
    BY <2>2 DEF Unregistered
  <2> QED BY <2>1, <2>2, <2>3, <2>4 DEF Known
<1>8. ASSUME NEW c \in Ids, NEW t \in Ids, CreateOwn(c, t) PROVE Known'
  <2>1. Known
    OBVIOUS
  <2>2. /\ \A u \in Ids : owner'[u] = IF u = t THEN "aut" ELSE owner[u]
        /\ UNCHANGED <<count, making, stage, leaving, heatThreadIds, hurried>>
        /\ owner[t] = "free"
    BY <1>8 DEF CreateOwn, Sound, TypeOK
  <2> QED BY <2>1, <2>2 DEF Known, Unregistered
<1>10. CASE Abandon
  BY <1>10, SameKnown DEF Abandon
<1>9. CASE UNCHANGED vars
  BY <1>9, SameKnown DEF vars
<1> QED BY <1>1, <1>2, <1>3, <1>4, <1>5, <1>6, <1>7, <1>8, <1>9, <1>10 DEF Next, Creating

\* Hence it always is.
LEMMA AlwaysKnown == Spec => []Known
  BY AlwaysSound, InitKnown, NextKnown, PTL DEF Spec

(* HEAT's threads are registered while they run, but for ids of threads that a *)
(* client's walk has resumed before their maker came to register them.         *)
THEOREM Registered == Spec => []RunningIsRegistered
  <1>1. Sound /\ Known => RunningIsRegistered
    BY DEF Sound, TypeOK, Known, RunningIsRegistered, IsHeatCreatedThread, Runs
  <1> QED BY AlwaysSound, AlwaysKnown, <1>1, PTL

(* An id that Windows gives to a thread of the application is not HEAT's, but  *)
(* for ids of threads that a client's walk has resumed before their maker came *)
(* to register them.                                                           *)
THEOREM NoStranger == Spec => []NoStrangers
  <1>1. Known => NoStrangers
    BY DEF Known, NoStrangers, IsHeatCreatedThread
  <1> QED BY AlwaysKnown, <1>1, PTL

-----------------------------------------------------------------------------
(* What a thread's suspend count is made of: its maker's, until it releases    *)
(* it, and the client's, from the visit that suspends to the one that resumes. *)
Owed(t) == IF \E c \in Ids : making[c] = t THEN 1 ELSE 0

Pending(t) ==
  IF \/ walk = "paused"
     \/ walk = "suspending" /\ t \notin left
     \/ walk = "resuming" /\ t \in left
  THEN 1 ELSE 0

Balance == \A t \in Ids : count[t] <= abandoned + Owed(t) + Pending(t)

BalanceInv == ~gaveUp => Balance

\* At the start no thread is owed a resume.
LEMMA InitBalance == Init => BalanceInv
  <1> SUFFICES ASSUME Init PROVE Balance
    BY DEF BalanceInv
  <1>1. \A t \in Ids : count[t] = 0
    BY DEF Init
  <1>2. ASSUME NEW t \in Ids PROVE count[t] <= abandoned + Owed(t) + Pending(t)
    <2>1. Owed(t) = 0 \/ Owed(t) = 1
      BY DEF Owed
    <2>2. Pending(t) = 0 \/ Pending(t) = 1
      BY DEF Pending
    <2>3. abandoned = 0
      BY DEF Init
    <2> QED BY <1>1, <2>1, <2>2, <2>3
  <1> QED BY <1>2, Zenon DEF Balance

\* Every walk that suspends owes what the next one gives back.
LEMMA NextBalance == Sound /\ BalanceInv /\ [Next]_vars => BalanceInv'
<1> SUFFICES ASSUME Sound, BalanceInv, [Next]_vars, ~gaveUp' PROVE Balance'
  BY DEF BalanceInv
<1> USE IdAssumption DEF threadVars, creationVars, walkVars
<1>0. ~gaveUp => Balance
  BY DEF BalanceInv
<1>t. abandoned \in Nat /\ count \in [Ids -> Nat] /\ owner \in [Ids -> {"free", "aut", "heat", "gone"}]
  BY DEF Sound, TypeOK
<1>d. \A t \in Ids : t \notin Alive => count[t] = 0
  BY <1>t DEF Sound, Leavers, Alive
<1>1. CASE Walking
  <2>1. CASE Snapshot
    <3>1. UNCHANGED <<count, making, abandoned, gaveUp>> /\ left' = Alive
      BY <2>1 DEF Snapshot
    <3>2. \/ walk = "idle" /\ walk' = "suspending"
          \/ walk = "paused" /\ walk' = "resuming"
      BY <2>1 DEF Snapshot
    <3> QED BY <3>1, <3>2, <1>0, <1>d, <1>t DEF Balance, Owed, Pending
  <2>2. CASE EndWalk
    BY <2>2, <1>0, <1>t DEF EndWalk, Balance, Owed, Pending
  <2>3. ASSUME NEW t \in Ids, Visit(t) PROVE Balance'
    <3>1. /\ left' = left \ {t} /\ t \in left
          /\ walk \in {"suspending", "resuming"}
          /\ UNCHANGED <<making, walk, abandoned, gaveUp>>
      BY <2>3 DEF Visit
    <3>2. \A u \in Ids : u # t => count'[u] = count[u]
      BY <2>3, <1>t DEF Visit
    <3>3. count'[t] = IF walk = "suspending" THEN count[t] + 1 ELSE Resumed(count[t])
      BY <2>3, <1>t DEF Visit
    <3>4. \A u \in Ids : Owed(u)' = Owed(u)
      BY <3>1 DEF Owed
    <3>5. \A u \in Ids : Owed(u) \in {0, 1}
      BY DEF Owed
    <3>6. Balance
      BY <3>1, <1>0
    <3>7. \A u \in Ids : u # t => Pending(u)' = Pending(u)
      BY <3>1 DEF Pending
    <3>8. /\ walk = "suspending" => Pending(t) = 0 /\ Pending(t)' = 1
          /\ walk = "resuming" => Pending(t) = 1 /\ Pending(t)' = 0
      BY <3>1 DEF Pending
    <3>9. count'[t] <= abandoned' + Owed(t)' + Pending(t)'
      BY <3>1, <3>3, <3>4, <3>5, <3>6, <3>8, <1>t DEF Balance, Resumed
    <3>10. abandoned' = abandoned
      BY <3>1
    <3> QED BY <3>2, <3>4, <3>6, <3>7, <3>9, <3>10 DEF Balance
  <2>4. ASSUME NEW t \in Ids, GiveUp(t) PROVE Balance'
    BY <2>4 DEF GiveUp
  <2> QED BY <1>1, <2>1, <2>2, <2>3, <2>4 DEF Walking
<1>2. ASSUME NEW c \in Ids, Register(c) PROVE Balance'
  BY <1>2, <1>0 DEF Register, Balance, Owed, Pending
<1>3. ASSUME NEW c \in Ids, Release(c) PROVE Balance'
  <2>1. /\ \A d \in Ids : making'[d] = IF d = c THEN Nobody ELSE making[d]
        /\ \A u \in Ids : count'[u] = IF u = making[c] THEN Resumed(count[u]) ELSE count[u]
        /\ UNCHANGED <<walk, left, abandoned, gaveUp>>
    BY <1>3 DEF Release, Sound, TypeOK
  <2>2. \A u \in Ids : u # making[c] => Owed(u)' = Owed(u)
    BY <2>1 DEF Owed
  <2>3. \A u \in Ids : u = making[c] => Owed(u) = 1 /\ Owed(u)' = 0
    BY <2>1 DEF Owed, Sound, Makers
  <2>4. \A u \in Ids : Pending(u)' = Pending(u) /\ Pending(u) \in {0, 1}
    BY <2>1 DEF Pending
  <2>5. Balance
    BY <2>1, <1>0
  <2> QED BY <2>1, <2>2, <2>3, <2>4, <2>5, <1>t DEF Balance, Resumed
<1>4. ASSUME NEW t \in Ids, CloseHandle(t) PROVE Balance'
  BY <1>4, <1>0 DEF CloseHandle, Balance, Owed, Pending
<1>5. ASSUME NEW t \in Ids, BeginExit(t) PROVE Balance'
  BY <1>5, <1>0 DEF BeginExit, Balance, Owed, Pending
<1>6. ASSUME NEW t \in Ids, EndExit(t) PROVE Balance'
  BY <1>6, <1>0 DEF EndExit, Leaves, Balance, Owed, Pending
<1>7. ASSUME NEW c \in Ids, NEW t \in Ids, Create(c, t) PROVE Balance'
  <2>1. /\ \A d \in Ids : making'[d] = IF d = c THEN t ELSE making[d]
        /\ \A u \in Ids : count'[u] = IF u = t THEN 1 ELSE count[u]
        /\ UNCHANGED <<walk, left, abandoned, gaveUp>>
        /\ making[c] = Nobody
    BY <1>7 DEF Create, Idle, Sound, TypeOK, Makers
  <2>2. \A u \in Ids : Owed(u)' = IF u = t THEN 1 ELSE Owed(u)
    BY <2>1 DEF Owed
  <2>3. \A u \in Ids : Pending(u)' = Pending(u) /\ Pending(u) \in {0, 1}
    BY <2>1 DEF Pending
  <2>4. Balance
    BY <2>1, <1>0
  <2> QED BY <2>1, <2>2, <2>3, <2>4, <1>t DEF Balance
<1>8. ASSUME NEW c \in Ids, NEW t \in Ids, CreateOwn(c, t) PROVE Balance'
  BY <1>8, <1>0 DEF CreateOwn, Balance, Owed, Pending
<1>10. CASE Abandon
  <2>1. /\ walk = "paused" /\ walk' = "idle" /\ abandoned' = abandoned + 1
        /\ UNCHANGED <<count, making, gaveUp>>
    BY <1>10 DEF Abandon
  <2>2. \A t \in Ids : Pending(t) = 1 /\ Pending(t)' = 0 /\ Owed(t)' = Owed(t)
    BY <2>1 DEF Pending, Owed
  <2>3. \A t \in Ids : Owed(t) \in {0, 1}
    BY DEF Owed
  <2> QED BY <2>1, <2>2, <2>3, <1>0, <1>t DEF Balance
<1>9. CASE UNCHANGED vars
  BY <1>9, <1>0 DEF vars, Balance, Owed, Pending
<1> QED BY <1>1, <1>2, <1>3, <1>4, <1>5, <1>6, <1>7, <1>8, <1>9, <1>10 DEF Next, Creating

(* Between batches a thread is suspended at most once for its maker and once  *)
(* for each batch that was left half-way.                                      *)
THEOREM LeftBehind == Spec => []NobodyLeftBehind
  <1>1. Sound /\ BalanceInv => NobodyLeftBehind
    <2> SUFFICES ASSUME Sound, BalanceInv, walk = "idle", ~gaveUp, NEW t \in Ids
                 PROVE  count[t] <= abandoned + Owed(t)
      BY DEF NobodyLeftBehind, Alive, Owed
    <2>1. Pending(t) = 0 /\ count[t] <= abandoned + Owed(t) + Pending(t)
      BY DEF BalanceInv, Balance, Pending
    <2>2. count[t] \in Nat /\ abandoned \in Nat /\ Owed(t) \in {0, 1}
      BY DEF Sound, TypeOK, Owed
    <2> QED BY <2>1, <2>2
  <1>2. Spec => []BalanceInv
    BY AlwaysSound, InitBalance, NextBalance, PTL DEF Spec
  <1> QED BY AlwaysSound, <1>1, <1>2, PTL
=============================================================================
