--------------------------- MODULE ThreadRegistry ---------------------------
(***************************************************************************)
(* The register of the threads that HEAT created, heatThreadIds.  A          *)
(* replacement creates threads with HeatCreateThread; sithread creates them  *)
(* suspended, registers them and lets them run; DLL_THREAD_DETACH takes them *)
(* out.  Meanwhile a client suspends and resumes all threads, and Windows    *)
(* gives the ids of threads that are gone to new ones.                       *)
(***************************************************************************)
EXTENDS Integers

CONSTANTS
  Ids,         \* thread ids
  Started,     \* those of the AUT's first threads
  Nobody,      \* not an id
  MaxWalks     \* bound: batches of the client

ASSUME IdAssumption == Started \subseteq Ids /\ Nobody \notin Ids /\ MaxWalks \in Nat

VARIABLES
  owner,         \* whose thread has the id: "free", "aut", "heat"; or "gone", when a handle is left
  count,         \* suspend count
  handles,       \* ids of threads whose creator has not closed the handle
  making, stage, \* a thread's call of HeatCreateThread: the new thread, and how far it has got
  leaving,       \* a thread's DLL_THREAD_DETACH: "no", "found", "missing"
  heatThreadIds,
  walk, left, walks,  \* the client's batch: its phase, the threads to visit, how many so far
  abandoned,     \* pauses that were not followed by a resume
  gaveUp,        \* history: a walk has failed half-way
  hurried        \* history: ids of threads that a walk let run before they were registered

threadVars == <<owner, count, handles, leaving>>
creationVars == <<making, stage>>
walkVars == <<walk, left, walks, abandoned, gaveUp>>
vars == <<threadVars, creationVars, walkVars, heatThreadIds, hurried>>

Alive == {t \in Ids : owner[t] \in {"aut", "heat"}}

Runs(t) == t \in Alive /\ count[t] = 0

\* Not in the middle of an exit or of a call of HeatCreateThread.
Idle(t) == Runs(t) /\ leaving[t] = "no" /\ stage[t] = "idle"

Resumed(c) == IF c = 0 THEN 0 ELSE c - 1

Init ==
  /\ owner = [t \in Ids |-> IF t \in Started THEN "aut" ELSE "free"]
  /\ count = [t \in Ids |-> 0]
  /\ handles = {}
  /\ making = [t \in Ids |-> Nobody]
  /\ stage = [t \in Ids |-> "idle"]
  /\ leaving = [t \in Ids |-> "no"]
  /\ heatThreadIds = {}
  /\ walk = "idle"
  /\ left = {}
  /\ walks = 0
  /\ abandoned = 0
  /\ gaveUp = FALSE
  /\ hurried = {}

-----------------------------------------------------------------------------
(* HeatCreateThread, sithread. *)

CreateRunning(c, t) ==
  /\ Idle(c)
  /\ owner[t] = "free"
  /\ owner' = [owner EXCEPT ![t] = "heat"]
  /\ count' = [count EXCEPT ![t] = 0]
  /\ handles' = handles \cup {t}
  /\ making' = [making EXCEPT ![c] = t]
  /\ stage' = [stage EXCEPT ![c] = "created"]
  /\ UNCHANGED <<leaving, walkVars, heatThreadIds, hurried>>

Create(c, t) ==
  /\ Idle(c)
  /\ owner[t] = "free"
  /\ owner' = [owner EXCEPT ![t] = "heat"]
  /\ count' = [count EXCEPT ![t] = 1]
  /\ handles' = handles \cup {t}
  /\ making' = [making EXCEPT ![c] = t]
  /\ stage' = [stage EXCEPT ![c] = "created"]
  /\ UNCHANGED <<leaving, walkVars, heatThreadIds, hurried>>

Register(c) ==
  /\ Runs(c)
  /\ stage[c] = "created"
  /\ heatThreadIds' = heatThreadIds \cup {making[c]}
  /\ stage' = [stage EXCEPT ![c] = "registered"]
  /\ UNCHANGED <<threadVars, making, walkVars, hurried>>

ReleaseNobody(c) ==
  /\ Runs(c)
  /\ stage[c] = "registered"
  /\ making' = [making EXCEPT ![c] = Nobody]
  /\ stage' = [stage EXCEPT ![c] = "idle"]
  /\ UNCHANGED <<threadVars, walkVars, heatThreadIds, hurried>>

\* ResumeThread; a thread that is gone has nothing to resume.
Release(c) ==
  /\ Runs(c)
  /\ stage[c] = "registered"
  /\ count' = [count EXCEPT ![making[c]] = Resumed(@)]
  /\ making' = [making EXCEPT ![c] = Nobody]
  /\ stage' = [stage EXCEPT ![c] = "idle"]
  /\ UNCHANGED <<owner, handles, leaving, walkVars, heatThreadIds, hurried>>

\* The caller of HeatCreateThread gets the handle, sithread keeps none.
CloseHandle(t) ==
  /\ t \in handles
  /\ \A c \in Ids : making[c] # t
  /\ handles' = handles \ {t}
  /\ owner' = [owner EXCEPT ![t] = IF @ = "gone" THEN "free" ELSE @]
  /\ UNCHANGED <<count, leaving, creationVars, walkVars, heatThreadIds, hurried>>

-----------------------------------------------------------------------------
(* Other threads of the AUT, and the exit of all of them. *)

CreateOwn(c, t) ==
  /\ Idle(c)
  /\ owner[t] = "free"
  /\ owner' = [owner EXCEPT ![t] = "aut"]
  /\ UNCHANGED <<count, handles, leaving, creationVars, walkVars, heatThreadIds, hurried>>

\* DLL_THREAD_DETACH: find and end are one critical section each, erase another.
BeginExit(t) ==
  /\ Idle(t)
  /\ leaving' = [leaving EXCEPT ![t] = IF t \in heatThreadIds THEN "found" ELSE "missing"]
  /\ UNCHANGED <<owner, count, handles, creationVars, walkVars, heatThreadIds, hurried>>

Leaves(t) ==
  /\ Runs(t)
  /\ owner' = [owner EXCEPT ![t] = IF t \in handles THEN "gone" ELSE "free"]
  /\ leaving' = [leaving EXCEPT ![t] = "no"]
  /\ UNCHANGED <<count, handles, creationVars, walkVars, hurried>>

EndExitOnly(t) ==
  /\ leaving[t] # "no"
  /\ Leaves(t)
  /\ UNCHANGED heatThreadIds

EndExit(t) ==
  /\ leaving[t] # "no"
  /\ Leaves(t)
  /\ heatThreadIds' = IF leaving[t] = "found" THEN heatThreadIds \ {t} ELSE heatThreadIds

-----------------------------------------------------------------------------
(* The batch of a client: suspendAllThreads, resumeAllThreads. *)

Snapshot ==
  /\ \/ walk = "idle" /\ walks < MaxWalks /\ walk' = "suspending" /\ walks' = walks + 1
     \/ walk = "paused" /\ walk' = "resuming" /\ UNCHANGED walks
  /\ left' = Alive
  /\ UNCHANGED <<threadVars, creationVars, heatThreadIds, abandoned, gaveUp, hurried>>

\* addIntercepts returns without CMD_RESUMEAPP when an intercept is refused, the
\* client dies, or the snapshot for the way back fails: the AUT stays paused.
Abandon ==
  /\ walk = "paused"
  /\ walk' = "idle"
  /\ abandoned' = abandoned + 1
  /\ UNCHANGED <<threadVars, creationVars, heatThreadIds, left, walks, gaveUp, hurried>>

\* The thread a creator has not registered yet.
Unregistered(t) == \E c \in Ids : making[c] = t /\ stage[c] = "created"

Visit(t) ==
  /\ walk \in {"suspending", "resuming"}
  /\ t \in left
  /\ t \in Alive
  /\ count' = [count EXCEPT ![t] = IF walk = "suspending" THEN @ + 1 ELSE Resumed(@)]
  /\ left' = left \ {t}
  /\ hurried' = hurried \cup {u \in {t} : count'[u] = 0 /\ Unregistered(u)}
  /\ UNCHANGED <<owner, handles, leaving, creationVars, heatThreadIds, walk, walks,
                 abandoned, gaveUp>>

\* The thread is gone: OpenThread fails, the batch is over.
GiveUp(t) ==
  /\ walk \in {"suspending", "resuming"}
  /\ t \in left
  /\ t \notin Alive
  /\ walk' = "idle"
  /\ left' = {}
  /\ gaveUp' = TRUE
  /\ UNCHANGED <<threadVars, creationVars, heatThreadIds, walks, abandoned, hurried>>

EndWalk ==
  /\ walk \in {"suspending", "resuming"}
  /\ left = {}
  /\ walk' = IF walk = "suspending" THEN "paused" ELSE "idle"
  /\ UNCHANGED <<threadVars, creationVars, heatThreadIds, left, walks, abandoned, gaveUp, hurried>>

Creating(c) == Register(c) \/ Release(c)

Walking == Snapshot \/ EndWalk \/ \E t \in Ids : Visit(t) \/ GiveUp(t)

Next ==
  \/ Walking
  \/ Abandon
  \/ \E t \in Ids :
       \/ Creating(t)
       \/ CloseHandle(t)
       \/ BeginExit(t)
       \/ EndExit(t)
       \/ \E u \in Ids : Create(t, u) \/ CreateOwn(t, u)

Spec == Init /\ [][Next]_vars

\* The server's thread goes on with a walk, and so does a thread with a creation
\* while it runs.  Who has paused resumes or not: a client or a server that
\* waits for ever has abandoned the batch.  Nobody has to begin anything.
FairSpec ==
  /\ Spec
  /\ WF_vars(walk \in {"suspending", "resuming"} /\ Walking)
  /\ WF_vars(walk = "paused" /\ (Walking \/ Abandon))
  /\ \A t \in Ids : WF_vars(Creating(t))

-----------------------------------------------------------------------------
(* Properties. *)

TypeOK ==
  /\ owner \in [Ids -> {"free", "aut", "heat", "gone"}]
  /\ count \in [Ids -> Nat]
  /\ handles \subseteq Ids
  /\ making \in [Ids -> Ids \cup {Nobody}]
  /\ stage \in [Ids -> {"idle", "created", "registered"}]
  /\ leaving \in [Ids -> {"no", "found", "missing"}]
  /\ heatThreadIds \subseteq Ids
  /\ walk \in {"idle", "suspending", "paused", "resuming"}
  /\ left \subseteq Ids
  /\ walks \in 0..MaxWalks /\ abandoned \in Nat
  /\ gaveUp \in BOOLEAN /\ hurried \subseteq Ids

\* Asked by thread t about a thread, it answers about t (heatNGserver.cpp:253),
\* whatever the thread it is asked about.
IsHeatCreatedThread(t, dwThreadID) == t \in heatThreadIds

(* A thread of HEAT is registered when it executes its first instruction, and  *)
(* until it leaves: "create the thread suspended; so we can do any heat        *)
(* related markups for it before it executes" (sithread.h:69).  It may not be  *)
(* if a client's walk resumed a thread of this id before its maker registered  *)
(* it.                                                                         *)
RunningIsRegistered ==
  \A t \in Ids \ hurried :
    (owner[t] = "heat" /\ Runs(t)) => \A u \in Ids : IsHeatCreatedThread(t, u)

(* The register names living threads of HEAT's only, or dead ones that cannot  *)
(* have left their id to somebody yet: whatever a thread of the application    *)
(* asks about, it is not taken for HEAT's itself.  Except for ids of threads   *)
(* that a client's walk let run between CreateThread and the registration      *)
(* (sithread.h:78-85): such a thread may exit with nothing to erase            *)
(* (dllmain.cpp:77-80), its maker then registers the id of a dead thread, and  *)
(* Windows gives it to another, which is taken for HEAT's.                     *)
NoStrangers ==
  \A t \in Ids \ hurried :
    owner[t] \in {"free", "aut"} => \A u \in Ids : ~IsHeatCreatedThread(t, u)

(* Suspends and resumes of parties who know nothing of each other add up:      *)
(* between batches a thread is suspended once if it is still to be released,   *)
(* and at most once for each batch that paused and did not resume: one more    *)
(* batch, which resumes, gives back no more than it took.                      *)
NobodyLeftBehind ==
  (walk = "idle" /\ ~gaveUp) =>
    \A t \in Alive :
      count[t] <= abandoned + (IF \E c \in Ids : making[c] = t THEN 1 ELSE 0)

(* A thread that was created runs at last, unless a walk has given up or a     *)
(* client has left the AUT paused.                                             *)
RunsAtLast ==
  \A t \in Ids :
    (owner[t] = "heat")
      ~> (owner[t] # "heat" \/ count[t] = 0 \/ gaveUp \/ abandoned > 0)
=============================================================================
