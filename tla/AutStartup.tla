----------------------------- MODULE AutStartup -----------------------------
(***************************************************************************)
(* How HeatNG gets into an application under test: the client injects       *)
(* heatNGserver.dll, its DllMain starts a worker, the worker suspends the   *)
(* thread that loads the DLL, starts the server thread and allocates the    *)
(* TLS slots, the client connects and sends its first intercept, and runs   *)
(* the application.                                                         *)
(*                                                                         *)
(* An AUT created suspended loads the DLL on its first thread, through the  *)
(* import table; into a running one the client injects a remote thread.     *)
(* The threads meet at the loader lock and the heap lock, which the         *)
(* program's own code takes as well, at suspend counts, and at the TLS      *)
(* slots.                                                                   *)
(***************************************************************************)
EXTENDS Integers

CONSTANTS Main, Remote, Worker, Server,  \* threads of the AUT
          NoThread

Threads == {Main, Remote, Worker, Server}

HeatThreads == {Worker, Server}

ASSUME ThreadAssumption ==
  /\ NoThread \notin Threads
  /\ Main # Remote /\ Main # Worker /\ Main # Server
  /\ Remote # Worker /\ Remote # Server /\ Worker # Server

VARIABLES
  running,        \* was the AUT running when the client came?
  client,         \* where HeatNGApp's constructor or the client after it is
  walk,           \* threads left in the client's suspend or resume walk
  missed,         \* did a resume walk give up before it reached Main?
  pc,             \* where each thread is
  suspends,       \* suspend counts
  loader, heap,   \* holders of the loader lock and of the heap lock
  heatThreadIds,  \* threads registered as HeatNG's own
  checkSlot,      \* has g_dwTlsCheckInterceptIndex been allocated?
  rasSlot,        \* has g_dwTlsRASIndex been allocated?
  counter,        \* the disable counter in the allocated slot, per thread
  pipe,           \* "none", "made" or "connected"
  command         \* the first intercept: "none", "sent", "answered"

vars == <<running, client, walk, missed, pc, suspends, loader, heap, heatThreadIds,
          checkSlot, rasSlot, counter, pipe, command>>

walking == <<walk, missed>>
locks == <<loader, heap>>
slots == <<checkSlot, rasSlot, counter>>
channel == <<pipe, command>>

\* The thread that loads the DLL.
Loading == IF running THEN Remote ELSE Main

Alive(t) == pc[t] \notin {"absent", "exited"}
At(t, label) == pc[t] = label /\ suspends[t] = 0

Goto(t, label) == pc' = [pc EXCEPT ![t] = label]

Init ==
  /\ running \in BOOLEAN
  /\ client = "inject"
  /\ walk = {}
  /\ missed = FALSE
  /\ pc = [t \in Threads |->
       IF t # Main THEN "absent" ELSE IF running THEN "user" ELSE "load"]
  /\ suspends = [t \in Threads |-> IF t = Main /\ ~running THEN 1 ELSE 0]
  /\ loader = NoThread
  /\ heap = NoThread
  /\ heatThreadIds = {}
  /\ checkSlot = FALSE
  /\ rasSlot = FALSE
  /\ counter = [t \in Threads |-> 0]
  /\ pipe = "none"
  /\ command = "none"

-----------------------------------------------------------------------------
(* The client. *)

ClientGoes(from, to) == client = from /\ client' = to

\* injectIntoProcess: edit the import table and resume the first thread.  If
\* it fails the constructor goes on to connect all the same.
InjectSuspended ==
  /\ ~running
  /\ ClientGoes("inject", "connect")
  /\ \/ suspends' = [suspends EXCEPT ![Main] = 0]
     \/ UNCHANGED suspends
  /\ UNCHANGED <<running, walking, pc, locks, heatThreadIds, slots, channel>>

\* injectIntoRunningProcess: suspend all threads, ...
BeginInjectRunning ==
  /\ running
  /\ ClientGoes("inject", "suspending")
  /\ walk' = {t \in Threads : Alive(t)}
  /\ UNCHANGED <<running, missed, pc, suspends, locks, heatThreadIds, slots, channel>>

ClientVisits(t) ==
  /\ client \in {"suspending", "resuming"}
  /\ t \in walk
  /\ walk' = walk \ {t}
  /\ suspends' = [suspends EXCEPT ![t] =
       IF client = "suspending" THEN @ + 1 ELSE IF @ > 0 THEN @ - 1 ELSE 0]
  /\ UNCHANGED <<running, client, missed, pc, locks, heatThreadIds, slots, channel>>

\* A walk has no snapshot, or gives up at a thread of it, one of these or
\* another of the program's, that has exited.  The client ignores the answer
\* and goes on.
WalkGivesUp ==
  /\ client \in {"suspending", "resuming"}
  /\ walk # {}
  /\ walk' = {}
  /\ missed' = (missed \/ (client = "resuming" /\ Main \in walk))
  /\ UNCHANGED <<running, client, pc, suspends, locks, heatThreadIds, slots, channel>>

\* ... start the remote thread, ...
StartRemote ==
  /\ walk = {}
  /\ ClientGoes("suspending", "waiting")
  /\ Goto(Remote, "load")
  /\ UNCHANGED <<running, walking, suspends, locks, heatThreadIds, slots, channel>>

\* ... unless something fails on the way; ...
InjectRunningFails ==
  /\ running
  /\ \/ ClientGoes("inject", "connect") /\ UNCHANGED walk
     \/ /\ walk = {}
        /\ ClientGoes("suspending", "resuming")
        /\ walk' = {t \in Threads : Alive(t)}
  /\ UNCHANGED <<running, missed, pc, suspends, locks, heatThreadIds, slots, channel>>

\* ... wait until it has exited, or for ten seconds, and resume all threads.
RemoteAwaited ==
  /\ ClientGoes("waiting", "resuming")
  /\ walk' = {t \in Threads : Alive(t)}
  /\ UNCHANGED <<running, missed, pc, suspends, locks, heatThreadIds, slots, channel>>

Injected ==
  /\ walk = {}
  /\ ClientGoes("resuming", "connect")
  /\ UNCHANGED <<running, walking, pc, suspends, locks, heatThreadIds, slots, channel>>

\* siclient: there is a pipe, or there is none for five seconds and the
\* constructor throws.
Connect ==
  /\ pipe = "made"
  /\ ClientGoes("connect", "send")
  /\ pipe' = "connected"
  /\ UNCHANGED <<running, walking, pc, suspends, locks, heatThreadIds, slots, command>>

ConnectTimesOut ==
  /\ pipe = "none"
  /\ ClientGoes("connect", "failed")
  /\ UNCHANGED <<running, walking, pc, suspends, locks, heatThreadIds, slots, channel>>

\* addIntercept.
Send ==
  /\ ClientGoes("send", "wait")
  /\ command' = "sent"
  /\ UNCHANGED <<running, walking, pc, suspends, locks, heatThreadIds, slots, pipe>>

Receive ==
  /\ command = "answered"
  /\ ClientGoes("wait", "run")
  /\ UNCHANGED <<running, walking, pc, suspends, locks, heatThreadIds, slots, channel>>

\* runApp.
RunApp ==
  /\ ClientGoes("run", "done")
  /\ suspends' = [suspends EXCEPT ![Main] =
       IF ~running /\ @ > 0 THEN @ - 1 ELSE @]
  /\ UNCHANGED <<running, walking, pc, locks, heatThreadIds, slots, channel>>

-----------------------------------------------------------------------------
(* sithread's constructor, run by thread c for thread t. *)

CreateStarted(c, t) ==
  /\ heap = NoThread
  /\ pc' = [pc EXCEPT ![c] = "register", ![t] = "created"]
  /\ UNCHANGED <<running, client, walking, suspends, locks, heatThreadIds, slots, channel>>

\* The wrapper is allocated, the thread created suspended.
Create(c, t) ==
  /\ heap = NoThread
  /\ pc' = [pc EXCEPT ![c] = "register", ![t] = "created"]
  /\ suspends' = [suspends EXCEPT ![t] = 1]
  /\ UNCHANGED <<running, client, walking, locks, heatThreadIds, slots, channel>>

RegisterCaller(c, t) ==
  /\ At(c, "register")
  /\ Goto(c, "release")
  /\ heatThreadIds' = heatThreadIds \cup {c}
  /\ UNCHANGED <<running, client, walking, suspends, locks, slots, channel>>

Register(c, t) ==
  /\ At(c, "register")
  /\ Goto(c, "release")
  /\ heatThreadIds' = heatThreadIds \cup {t}
  /\ UNCHANGED <<running, client, walking, suspends, locks, slots, channel>>

ReleaseForgotten(c, t, next) ==
  /\ At(c, "release")
  /\ Goto(c, next)
  /\ UNCHANGED <<running, client, walking, suspends, locks, heatThreadIds, slots, channel>>

Release(c, t, next) ==
  /\ At(c, "release")
  /\ Goto(c, next)
  /\ suspends' = [suspends EXCEPT ![t] = IF @ > 0 THEN @ - 1 ELSE 0]
  /\ UNCHANGED <<running, client, walking, locks, heatThreadIds, slots, channel>>

-----------------------------------------------------------------------------
(* The thread that loads the DLL. *)

\* It holds the loader lock while DllMain runs, and until every other DLL has
\* been initialized.
BeginLoad ==
  /\ At(Loading, "load")
  /\ loader = NoThread
  /\ loader' = Loading
  /\ Goto(Loading, "attach")
  /\ UNCHANGED <<running, client, walking, suspends, heap, heatThreadIds, slots, channel>>

\* DllMain: updateCriticalSystemPointers may fail, or the worker's CreateThread
\* and sithread throws, and the load with it; else the worker is started.
LoadFails ==
  /\ At(Loading, "attach")
  /\ loader' = NoThread
  /\ Goto(Loading, IF running THEN "detach" ELSE "exited")
  /\ UNCHANGED <<running, client, walking, suspends, heap, heatThreadIds, slots, channel>>

CreateWorker == At(Loading, "attach") /\ Create(Loading, Worker)
RegisterWorker == Register(Loading, Worker)
ReleaseWorker == Release(Loading, Worker, "leave")

Leave ==
  /\ At(Loading, "leave")
  /\ loader' = NoThread
  /\ Goto(Loading, IF running THEN "detach" ELSE "user")
  /\ UNCHANGED <<running, client, walking, suspends, heap, heatThreadIds, slots, channel>>

\* DLL_THREAD_DETACH, under the loader lock, forgets the thread.
Detach(t) ==
  /\ At(t, "detach")
  /\ loader = NoThread
  /\ loader' = t
  /\ heatThreadIds' = heatThreadIds \ {t}
  /\ Goto(t, "detaching")
  /\ UNCHANGED <<running, client, walking, suspends, heap, slots, channel>>

Exit(t) ==
  /\ At(t, "detaching")
  /\ loader' = NoThread
  /\ Goto(t, "exited")
  /\ UNCHANGED <<running, client, walking, suspends, heap, heatThreadIds, slots, channel>>

(* The program's own code on the first thread. *)
TakeLoader ==
  /\ At(Main, "user")
  /\ loader = NoThread /\ heap # Main
  /\ loader' = Main
  /\ UNCHANGED <<running, client, walking, pc, suspends, heap, heatThreadIds, slots, channel>>

TakeHeap ==
  /\ At(Main, "user")
  /\ heap = NoThread /\ loader # Main
  /\ heap' = Main
  /\ UNCHANGED <<running, client, walking, pc, suspends, loader, heatThreadIds, slots, channel>>

Holds(t) == loader = t \/ heap = t

GiveBack ==
  /\ At(Main, "user")
  /\ Holds(Main)
  /\ loader' = IF loader = Main THEN NoThread ELSE loader
  /\ heap' = IF heap = Main THEN NoThread ELSE heap
  /\ UNCHANGED <<running, client, walking, pc, suspends, heatThreadIds, slots, channel>>

-----------------------------------------------------------------------------
(* The worker and the server thread. *)

\* A new thread passes DLL_THREAD_ATTACH, under the loader lock, ...
Attach(t) ==
  /\ At(t, "created")
  /\ loader = NoThread
  /\ Goto(t, "stub")
  /\ UNCHANGED <<running, client, walking, suspends, locks, heatThreadIds, slots, channel>>

\* ... and threadFuncStub disables interception in it, in the slot that is
\* there: as long as none has been allocated, in slot 0.
Disable(t) ==
  /\ At(t, "stub")
  /\ Goto(t, "body")
  /\ counter' = IF checkSlot THEN [counter EXCEPT ![t] = @ + 1] ELSE counter
  /\ UNCHANGED <<running, client, walking, suspends, locks, heatThreadIds, checkSlot,
                 rasSlot, channel>>

SuspendNone ==
  /\ At(Worker, "body")
  /\ Goto(Worker, "pipe")
  /\ UNCHANGED <<running, client, walking, suspends, locks, heatThreadIds, slots, channel>>

SuspendFirst ==
  /\ At(Worker, "body")
  /\ Goto(Worker, "pipe")
  /\ suspends' = [suspends EXCEPT ![Main] = @ + 1]
  /\ UNCHANGED <<running, client, walking, locks, heatThreadIds, slots, channel>>

\* suspendWorker.
SuspendLoading ==
  /\ At(Worker, "body")
  /\ Goto(Worker, "pipe")
  /\ suspends' = [suspends EXCEPT ![Loading] = IF Alive(Loading) THEN @ + 1 ELSE @]
  /\ UNCHANGED <<running, client, walking, locks, heatThreadIds, slots, channel>>

\* startupServer: the pipe, the server thread, the slots.
MakePipe ==
  /\ At(Worker, "pipe")
  /\ heap = NoThread
  /\ Goto(Worker, "thread")
  /\ pipe' = "made"
  /\ UNCHANGED <<running, client, walking, suspends, locks, heatThreadIds, slots, command>>

CreateServer == At(Worker, "thread") /\ Create(Worker, Server)

\* CreateNamedPipe or CreateThread fails and throws: startupServer catches it,
\* the worker ignores the answer.  The pipe, if it was made, stays, and no slot
\* is allocated.
StartupFails ==
  /\ At(Worker, "pipe") \/ At(Worker, "thread")
  /\ heap = NoThread
  /\ Goto(Worker, "enable")
  /\ UNCHANGED <<running, client, walking, suspends, locks, heatThreadIds, slots, channel>>

RegisterServer == Register(Worker, Server)
ReleaseServer == Release(Worker, Server, "tlsCheck")

AllocCheckSlot ==
  /\ At(Worker, "tlsCheck")
  /\ Goto(Worker, "tlsRAS")
  /\ checkSlot' = TRUE
  /\ UNCHANGED <<running, client, walking, suspends, locks, heatThreadIds, rasSlot,
                 counter, channel>>

AllocRASSlot ==
  /\ At(Worker, "tlsRAS")
  /\ Goto(Worker, "enable")
  /\ rasSlot' = TRUE
  /\ UNCHANGED <<running, client, walking, suspends, locks, heatThreadIds, checkSlot,
                 counter, channel>>

\* The end of suspendWorker and of the stub.
Enable ==
  /\ At(Worker, "enable")
  /\ heap = NoThread
  /\ Goto(Worker, "detach")
  /\ counter' = IF checkSlot THEN [counter EXCEPT ![Worker] = @ - 1] ELSE counter
  /\ UNCHANGED <<running, client, walking, suspends, locks, heatThreadIds, checkSlot,
                 rasSlot, channel>>

\* serverFunction: waitForConnection, and the first command, which resolves
\* modules and allocates.
Accept ==
  /\ At(Server, "body")
  /\ pipe = "connected"
  /\ Goto(Server, "serve")
  /\ UNCHANGED <<running, client, walking, suspends, locks, heatThreadIds, slots, channel>>

Serve ==
  /\ At(Server, "serve")
  /\ command = "sent"
  /\ loader = NoThread /\ heap = NoThread
  /\ command' = "answered"
  /\ UNCHANGED <<running, client, walking, pc, suspends, locks, heatThreadIds, slots, pipe>>

-----------------------------------------------------------------------------
ClientStep ==
  \/ InjectSuspended
  \/ BeginInjectRunning
  \/ \E t \in Threads : ClientVisits(t)
  \/ WalkGivesUp
  \/ StartRemote
  \/ InjectRunningFails
  \/ RemoteAwaited
  \/ Injected
  \/ Connect
  \/ ConnectTimesOut
  \/ Send
  \/ Receive
  \/ RunApp

LoadingStep ==
  \/ BeginLoad
  \/ LoadFails
  \/ CreateWorker
  \/ RegisterWorker
  \/ ReleaseWorker
  \/ Leave
  \/ Detach(Remote)
  \/ Exit(Remote)

WorkerStep ==
  \/ Attach(Worker)
  \/ Disable(Worker)
  \/ SuspendLoading
  \/ MakePipe
  \/ CreateServer
  \/ StartupFails
  \/ RegisterServer
  \/ ReleaseServer
  \/ AllocCheckSlot
  \/ AllocRASSlot
  \/ Enable
  \/ Detach(Worker)
  \/ Exit(Worker)

ServerStep ==
  \/ Attach(Server)
  \/ Disable(Server)
  \/ Accept
  \/ Serve

Next ==
  \/ ClientStep
  \/ LoadingStep
  \/ WorkerStep
  \/ ServerStep
  \/ TakeLoader
  \/ TakeHeap
  \/ GiveBack

Spec == Init /\ [][Next]_vars

\* Every thread that runs goes on, the program gives its locks back, and a
\* thread that waits for a lock gets it if it is given back again and again.
Fairness ==
  /\ WF_vars(ClientStep)
  /\ SF_vars(LoadingStep)
  /\ SF_vars(WorkerStep)
  /\ SF_vars(ServerStep)
  /\ WF_vars(GiveBack)

FairSpec == Spec /\ Fairness

-----------------------------------------------------------------------------
(* Properties. *)

Labels == {"absent", "load", "attach", "register", "release", "leave", "user",
           "created", "stub", "body", "pipe", "thread", "tlsCheck", "tlsRAS",
           "enable", "serve", "detach", "detaching", "exited"}

TypeOK ==
  /\ running \in BOOLEAN
  /\ client \in {"inject", "suspending", "waiting", "resuming", "connect",
                 "send", "wait", "run", "done", "failed"}
  /\ walk \subseteq Threads /\ missed \in BOOLEAN
  /\ pc \in [Threads -> Labels]
  /\ suspends \in [Threads -> Nat]
  /\ loader \in {NoThread, Main, Remote, Worker}
  /\ heap \in {NoThread, Main}
  /\ heatThreadIds \subseteq HeatThreads
  /\ checkSlot \in BOOLEAN /\ rasSlot \in BOOLEAN
  /\ counter \in [Threads -> Int]
  /\ pipe \in {"none", "made", "connected"}
  /\ command \in {"none", "sent", "answered"}

(* An AUT created suspended does not run between the client's connect and      *)
(* runApp: the worker makes the pipe only after it has suspended the loading   *)
(* thread.                                                                     *)
HeldUntilRun ==
  (~running /\ client \in {"send", "wait", "run"}) => suspends[Main] > 0

(* When the client is through, the program's first thread runs: the suspends   *)
(* of CreateProcess, the client and the worker and the resumes of the          *)
(* injection and runApp add up, and a suspend walk that gives up does no harm. *)
(* The one exception is a resume walk that gave up before it reached the first *)
(* thread: nobody looks at the answer, and the thread stays suspended.         *)
AutReleased == client = "done" => suspends[Main] = 0 \/ missed

(* In an AUT created suspended, HeatNG's threads are registered before their   *)
(* first instruction until they detach: IsHeatCreatedThread can tell.          *)
Registered ==
  ~running => \A t \in HeatThreads :
                pc[t] \notin {"created", "detaching"} =>
                  (t \in heatThreadIds <=> Alive(t))

\* A thread is suspended that holds a lock.
Wedged == \E t \in {Main, Remote} : suspends[t] > 0 /\ Holds(t)

\* startupServer has failed between the pipe and its thread.
Serverless ==
  /\ pipe = "connected"
  /\ pc[Server] = "absent"
  /\ pc[Worker] \in {"enable", "detach", "detaching", "exited"}

(* The client gets through or gives up, but for two cases in which it waits    *)
(* for its answer forever: a thread is suspended while it holds the loader     *)
(* lock or the heap lock, by the worker or because a resume walk gave up, and  *)
(* the server thread cannot get on; or there is a pipe and no server thread,   *)
(* because CreateThread failed.                                                *)
Served == <>(client \in {"done", "failed"}) \/ <>[]Wedged \/ <>[]Serverless

(* "generate a stub for the original thread function which first disables      *)
(* interception in the current thread" (sithread): the server thread serves    *)
(* with interception disabled in the slot the stubs look at.                   *)
ServerIsShielded == (checkSlot /\ pc[Server] = "serve") => counter[Server] > 0
=============================================================================
