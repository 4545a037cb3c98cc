-------------------------- MODULE AutStartupProofs --------------------------
(***************************************************************************)
(* Proofs about AutStartup.  TypeOK is inductive by itself; HeldUntilRun    *)
(* needs to know how far the worker is: it makes the pipe, without which    *)
(* the client cannot connect, only after it has suspended the first thread, *)
(* and nothing resumes that thread before runApp.                           *)
(***************************************************************************)
EXTENDS AutStartup, TLAPS

(* The initial states have the types of TypeOK. *)
LEMMA InitTypeOK == Init => TypeOK
<1> SUFFICES ASSUME Init PROVE TypeOK
  OBVIOUS
<1> USE ThreadAssumption DEF Init
<1>1. /\ pc \in [Threads -> Labels]
      /\ suspends \in [Threads -> Nat]
      /\ counter \in [Threads -> Int]
  BY DEF Threads, Labels
<1>2. /\ walk \subseteq Threads
      /\ loader \in {NoThread, Main, Remote, Worker} /\ heap \in {NoThread, Main}
      /\ heatThreadIds \subseteq HeatThreads
  OBVIOUS
<1>3. running \in BOOLEAN /\ checkSlot \in BOOLEAN /\ rasSlot \in BOOLEAN
  OBVIOUS
<1>4. QED
  BY <1>1, <1>2, <1>3 DEF TypeOK

(* Every step of the startup preserves the types. *)
LEMMA NextTypeOK == TypeOK /\ [Next]_vars => TypeOK'
<1> SUFFICES ASSUME TypeOK, [Next]_vars PROVE TypeOK'
  OBVIOUS
<1> USE ThreadAssumption DEF TypeOK, Threads, HeatThreads, Labels, walking, locks, slots,
        channel
<1>1. CASE InjectSuspended
  BY <1>1 DEF InjectSuspended, ClientGoes, Loading, Alive
<1>2. CASE BeginInjectRunning
  BY <1>2 DEF BeginInjectRunning, ClientGoes, Loading, Alive
<1>3. ASSUME NEW t \in Threads, ClientVisits(t) PROVE TypeOK'
  BY <1>3 DEF ClientVisits, Loading, Alive
<1>4. CASE WalkGivesUp
  BY <1>4 DEF WalkGivesUp, Loading, Alive
<1>5. CASE StartRemote
  BY <1>5 DEF StartRemote, ClientGoes, Goto, Loading, Alive
<1>6. CASE InjectRunningFails
  BY <1>6 DEF InjectRunningFails, ClientGoes, Loading, Alive
<1>7. CASE RemoteAwaited
  BY <1>7 DEF RemoteAwaited, ClientGoes, Loading, Alive
<1>8. CASE Injected
  BY <1>8 DEF Injected, ClientGoes, Loading, Alive
<1>9. CASE Connect
  BY <1>9 DEF Connect, ClientGoes, Loading, Alive
<1>10. CASE ConnectTimesOut
  BY <1>10 DEF ConnectTimesOut, ClientGoes, Loading, Alive
<1>11. CASE Send
  BY <1>11 DEF Send, ClientGoes, Loading, Alive
<1>12. CASE Receive
  BY <1>12 DEF Receive, ClientGoes, Loading, Alive
<1>13. CASE RunApp
  BY <1>13 DEF RunApp, ClientGoes, Loading, Alive
<1>14. CASE BeginLoad
  BY <1>14 DEF BeginLoad, At, Goto, Loading, Alive
<1>15. CASE LoadFails
  BY <1>15 DEF LoadFails, At, Goto, Loading, Alive
<1>16. CASE CreateWorker
  BY <1>16 DEF CreateWorker, Create, At, Loading, Alive
<1>17. CASE RegisterWorker
  BY <1>17 DEF RegisterWorker, Register, Goto, At, Loading, Alive
<1>18. CASE ReleaseWorker
  BY <1>18 DEF ReleaseWorker, Release, Goto, At, Loading, Alive
<1>19. CASE Leave
  BY <1>19 DEF Leave, At, Goto, Loading, Alive
<1>20. CASE Detach(Remote)
  BY <1>20 DEF Detach, At, Goto, Loading, Alive
<1>21. CASE Exit(Remote)
  BY <1>21 DEF Exit, At, Goto, Loading, Alive
<1>22. CASE Attach(Worker)
  BY <1>22 DEF Attach, At, Goto, Loading, Alive
<1>23. CASE Disable(Worker)
  BY <1>23 DEF Disable, At, Goto, Loading, Alive
<1>24. CASE SuspendLoading
  BY <1>24 DEF SuspendLoading, At, Goto, Loading, Alive
<1>25. CASE MakePipe
  BY <1>25 DEF MakePipe, At, Goto, Loading, Alive
<1>26. CASE CreateServer
  BY <1>26 DEF CreateServer, Create, At, Loading, Alive
<1>27. CASE StartupFails
  BY <1>27 DEF StartupFails, At, Goto, Loading, Alive
<1>28. CASE RegisterServer
  BY <1>28 DEF RegisterServer, Register, Goto, At, Loading, Alive
<1>29. CASE ReleaseServer
  BY <1>29 DEF ReleaseServer, Release, Goto, At, Loading, Alive
<1>30. CASE AllocCheckSlot
  BY <1>30 DEF AllocCheckSlot, At, Goto, Loading, Alive
<1>31. CASE AllocRASSlot
  BY <1>31 DEF AllocRASSlot, At, Goto, Loading, Alive
<1>32. CASE Enable
  BY <1>32 DEF Enable, At, Goto, Loading, Alive
<1>33. CASE Detach(Worker)
  BY <1>33 DEF Detach, At, Goto, Loading, Alive
<1>34. CASE Exit(Worker)
  BY <1>34 DEF Exit, At, Goto, Loading, Alive
<1>35. CASE Attach(Server)
  BY <1>35 DEF Attach, At, Goto, Loading, Alive
<1>36. CASE Disable(Server)
  BY <1>36 DEF Disable, At, Goto, Loading, Alive
<1>37. CASE Accept
  BY <1>37 DEF Accept, At, Goto, Loading, Alive
<1>38. CASE Serve
  BY <1>38 DEF Serve, At, Loading, Alive
<1>39. CASE TakeLoader
  BY <1>39 DEF TakeLoader, At, Loading, Alive
<1>40. CASE TakeHeap
  BY <1>40 DEF TakeHeap, At, Loading, Alive
<1>41. CASE GiveBack
  BY <1>41 DEF GiveBack, At, Holds, Loading, Alive
<1>42. CASE UNCHANGED vars
  BY <1>42 DEF vars, walking, locks, slots, channel, Loading, Alive
<1>43. QED
  BY <1>1, <1>2, <1>3, <1>4, <1>5, <1>6, <1>7, <1>8, <1>9, <1>10, <1>11,
     <1>12, <1>13, <1>14, <1>15, <1>16, <1>17, <1>18, <1>19, <1>20, <1>21,
     <1>22, <1>23, <1>24, <1>25, <1>26, <1>27, <1>28, <1>29, <1>30, <1>31,
     <1>32, <1>33, <1>34, <1>35, <1>36, <1>37, <1>38, <1>39, <1>40, <1>41,
     <1>42 DEF Next,
     ClientStep, LoadingStep, WorkerStep, ServerStep

(* In every behaviour, whatever the four threads are, every variable keeps its *)
(* type: only the loading threads and the worker ever own the loader lock, and *)
(* only HeatNG's own threads are registered.                                   *)
THEOREM TypeCorrect == Spec => []TypeOK
BY InitTypeOK, NextTypeOK, PTL DEF Spec

-----------------------------------------------------------------------------
(* What keeps an AUT created suspended where it is.                            *)

\* The worker has not suspended the first thread yet.
BeforeSuspend == {"absent", "created", "stub", "body"}

\* No walk of the client's touches the AUT, and its first thread loads the DLL
\* before there is a worker.
FirstThread ==
  /\ client \notin {"suspending", "waiting", "resuming"}
  /\ client = "inject" => pc[Main] = "load" /\ suspends[Main] = 1
  /\ pc[Main] # "absent"
  /\ pc[Main] \in {"load", "attach", "exited"} => pc[Worker] = "absent"

\* The order of the worker's steps and of the client's.
WorkerFirst ==
  /\ pc[Worker] \notin BeforeSuspend /\ client # "done" => suspends[Main] > 0
  /\ pc[Worker] \in BeforeSuspend \cup {"pipe"} => pipe = "none"
  /\ client \in {"send", "wait", "run", "done"} => pipe = "connected"

Holding == ~running => FirstThread /\ WorkerFirst

(* Initially the first thread is suspended and nobody else is there.           *)
LEMMA InitHolding == Init => Holding
BY ThreadAssumption DEF Init, Holding, FirstThread, WorkerFirst, BeforeSuspend, Threads

(* Every step preserves what keeps the AUT.                                    *)
LEMMA NextHolding == TypeOK /\ Holding /\ [Next]_vars => Holding'
<1> SUFFICES ASSUME TypeOK, Holding, [Next]_vars, ~running' PROVE (FirstThread /\ WorkerFirst)'
  BY DEF Holding
<1> USE ThreadAssumption DEF TypeOK, Holding, FirstThread, WorkerFirst, BeforeSuspend,
        Threads, Labels, walking, locks, slots,
        channel
<1>1. CASE InjectSuspended
  BY <1>1 DEF InjectSuspended, ClientGoes, Loading, Alive
<1>2. CASE BeginInjectRunning
  BY <1>2 DEF BeginInjectRunning, ClientGoes, Loading, Alive
<1>3. ASSUME NEW t \in Threads, ClientVisits(t) PROVE (FirstThread /\ WorkerFirst)'
  BY <1>3 DEF ClientVisits, Loading, Alive
<1>4. CASE WalkGivesUp
  BY <1>4 DEF WalkGivesUp, Loading, Alive
<1>5. CASE StartRemote
  BY <1>5 DEF StartRemote, ClientGoes, Goto, Loading, Alive
<1>6. CASE InjectRunningFails
  BY <1>6 DEF InjectRunningFails, ClientGoes, Loading, Alive
<1>7. CASE RemoteAwaited
  BY <1>7 DEF RemoteAwaited, ClientGoes, Loading, Alive
<1>8. CASE Injected
  BY <1>8 DEF Injected, ClientGoes, Loading, Alive
<1>9. CASE Connect
  BY <1>9 DEF Connect, ClientGoes, Loading, Alive
<1>10. CASE ConnectTimesOut
  BY <1>10 DEF ConnectTimesOut, ClientGoes, Loading, Alive
<1>11. CASE Send
  BY <1>11 DEF Send, ClientGoes, Loading, Alive
<1>12. CASE Receive
  BY <1>12 DEF Receive, ClientGoes, Loading, Alive
<1>13. CASE RunApp
  BY <1>13 DEF RunApp, ClientGoes, Loading, Alive
<1>14. CASE BeginLoad
  BY <1>14 DEF BeginLoad, At, Goto, Loading, Alive
<1>15. CASE LoadFails
  BY <1>15 DEF LoadFails, At, Goto, Loading, Alive
<1>16. CASE CreateWorker
  BY <1>16 DEF CreateWorker, Create, At, Loading, Alive
<1>17. CASE RegisterWorker
  BY <1>17 DEF RegisterWorker, Register, Goto, At, Loading, Alive
<1>18. CASE ReleaseWorker
  BY <1>18 DEF ReleaseWorker, Release, Goto, At, Loading, Alive
<1>19. CASE Leave
  BY <1>19 DEF Leave, At, Goto, Loading, Alive
<1>20. CASE Detach(Remote)
  BY <1>20 DEF Detach, At, Goto, Loading, Alive
<1>21. CASE Exit(Remote)
  BY <1>21 DEF Exit, At, Goto, Loading, Alive
<1>22. CASE Attach(Worker)
  BY <1>22 DEF Attach, At, Goto, Loading, Alive
<1>23. CASE Disable(Worker)
  BY <1>23 DEF Disable, At, Goto, Loading, Alive
<1>24. CASE SuspendLoading
  BY <1>24 DEF SuspendLoading, At, Goto, Loading, Alive
<1>25. CASE MakePipe
  BY <1>25 DEF MakePipe, At, Goto, Loading, Alive
<1>26. CASE CreateServer
  BY <1>26 DEF CreateServer, Create, At, Loading, Alive
<1>27. CASE StartupFails
  BY <1>27 DEF StartupFails, At, Goto, Loading, Alive
<1>28. CASE RegisterServer
  BY <1>28 DEF RegisterServer, Register, Goto, At, Loading, Alive
<1>29. CASE ReleaseServer
  BY <1>29 DEF ReleaseServer, Release, Goto, At, Loading, Alive
<1>30. CASE AllocCheckSlot
  BY <1>30 DEF AllocCheckSlot, At, Goto, Loading, Alive
<1>31. CASE AllocRASSlot
  BY <1>31 DEF AllocRASSlot, At, Goto, Loading, Alive
<1>32. CASE Enable
  BY <1>32 DEF Enable, At, Goto, Loading, Alive
<1>33. CASE Detach(Worker)
  BY <1>33 DEF Detach, At, Goto, Loading, Alive
<1>34. CASE Exit(Worker)
  BY <1>34 DEF Exit, At, Goto, Loading, Alive
<1>35. CASE Attach(Server)
  BY <1>35 DEF Attach, At, Goto, Loading, Alive
<1>36. CASE Disable(Server)
  BY <1>36 DEF Disable, At, Goto, Loading, Alive
<1>37. CASE Accept
  BY <1>37 DEF Accept, At, Goto, Loading, Alive
<1>38. CASE Serve
  BY <1>38 DEF Serve, At, Loading, Alive
<1>39. CASE TakeLoader
  BY <1>39 DEF TakeLoader, At, Loading, Alive
<1>40. CASE TakeHeap
  BY <1>40 DEF TakeHeap, At, Loading, Alive
<1>41. CASE GiveBack
  BY <1>41 DEF GiveBack, At, Holds, Loading, Alive
<1>42. CASE UNCHANGED vars
  BY <1>42 DEF vars, walking, locks, slots, channel, Loading, Alive
<1>43. QED
  BY <1>1, <1>2, <1>3, <1>4, <1>5, <1>6, <1>7, <1>8, <1>9, <1>10, <1>11,
     <1>12, <1>13, <1>14, <1>15, <1>16, <1>17, <1>18, <1>19, <1>20, <1>21,
     <1>22, <1>23, <1>24, <1>25, <1>26, <1>27, <1>28, <1>29, <1>30, <1>31,
     <1>32, <1>33, <1>34, <1>35, <1>36, <1>37, <1>38, <1>39, <1>40, <1>41,
     <1>42 DEF Next,
     ClientStep, LoadingStep, WorkerStep, ServerStep

(* In every behaviour the AUT created suspended is held from the client's      *)
(* connect until runApp.                                                       *)
THEOREM Held == Spec => []HeldUntilRun
<1>1. TypeOK /\ Holding => HeldUntilRun
  BY DEF TypeOK, Holding, WorkerFirst, BeforeSuspend, HeldUntilRun
<1>2. QED
  BY <1>1, InitTypeOK, NextTypeOK, InitHolding, NextHolding, PTL DEF Spec

-----------------------------------------------------------------------------
(* When HeatNG's threads are registered.  Each is suspended until its creator  *)
(* has registered it, and only its creator resumes it.                         *)

WorkerIds ==
  /\ pc[Main] \in {"load", "attach", "register", "release", "leave", "user", "exited"}
  /\ pc[Worker] = "absent" <=> pc[Main] \in {"load", "attach", "exited"}
  /\ pc[Main] \in {"register", "release"} =>
       pc[Worker] = "created" /\ suspends[Worker] > 0
  /\ Worker \in heatThreadIds <=>
       /\ pc[Worker] \notin {"absent", "detaching", "exited"}
       /\ pc[Main] # "register"

ServerIds ==
  /\ pc[Server] \in {"absent", "created", "stub", "body", "serve"}
  /\ pc[Worker] \in {"absent", "created", "stub", "body", "pipe", "thread"} =>
       pc[Server] = "absent"
  /\ pc[Worker] \in {"register", "release"} =>
       pc[Server] = "created" /\ suspends[Server] > 0
  /\ Server \in heatThreadIds <=> pc[Server] # "absent" /\ pc[Worker] # "register"

Registering == ~running => WorkerIds /\ ServerIds

(* Initially no thread of HeatNG's exists and none is registered.              *)
LEMMA InitRegistering == Init => Registering
BY ThreadAssumption DEF Init, Registering, WorkerIds, ServerIds, Threads

(* Every step keeps the register.                                              *)
LEMMA NextRegistering == TypeOK /\ Holding /\ Registering /\ [Next]_vars => Registering'
<1> SUFFICES ASSUME TypeOK, Holding, Registering, [Next]_vars, ~running'
             PROVE  (WorkerIds /\ ServerIds)'
  BY DEF Registering
<1> USE ThreadAssumption DEF TypeOK, Holding, FirstThread, Registering, WorkerIds,
        ServerIds, Threads, HeatThreads, Labels, walking, locks, slots,
        channel
<1>1. CASE InjectSuspended
  BY <1>1 DEF InjectSuspended, ClientGoes, Loading, Alive
<1>2. CASE BeginInjectRunning
  BY <1>2 DEF BeginInjectRunning, ClientGoes, Loading, Alive
<1>3. ASSUME NEW t \in Threads, ClientVisits(t) PROVE (WorkerIds /\ ServerIds)'
  BY <1>3 DEF ClientVisits, Loading, Alive
<1>4. CASE WalkGivesUp
  BY <1>4 DEF WalkGivesUp, Loading, Alive
<1>5. CASE StartRemote
  BY <1>5 DEF StartRemote, ClientGoes, Goto, Loading, Alive
<1>6. CASE InjectRunningFails
  BY <1>6 DEF InjectRunningFails, ClientGoes, Loading, Alive
<1>7. CASE RemoteAwaited
  BY <1>7 DEF RemoteAwaited, ClientGoes, Loading, Alive
<1>8. CASE Injected
  BY <1>8 DEF Injected, ClientGoes, Loading, Alive
<1>9. CASE Connect
  BY <1>9 DEF Connect, ClientGoes, Loading, Alive
<1>10. CASE ConnectTimesOut
  BY <1>10 DEF ConnectTimesOut, ClientGoes, Loading, Alive
<1>11. CASE Send
  BY <1>11 DEF Send, ClientGoes, Loading, Alive
<1>12. CASE Receive
  BY <1>12 DEF Receive, ClientGoes, Loading, Alive
<1>13. CASE RunApp
  BY <1>13 DEF RunApp, ClientGoes, Loading, Alive
<1>14. CASE BeginLoad
  BY <1>14 DEF BeginLoad, At, Goto, Loading, Alive
<1>15. CASE LoadFails
  BY <1>15 DEF LoadFails, At, Goto, Loading, Alive
<1>16. CASE CreateWorker
  BY <1>16 DEF CreateWorker, Create, At, Loading, Alive
<1>17. CASE RegisterWorker
  BY <1>17 DEF RegisterWorker, Register, Goto, At, Loading, Alive
<1>18. CASE ReleaseWorker
  BY <1>18 DEF ReleaseWorker, Release, Goto, At, Loading, Alive
<1>19. CASE Leave
  BY <1>19 DEF Leave, At, Goto, Loading, Alive
<1>20. CASE Detach(Remote)
  BY <1>20 DEF Detach, At, Goto, Loading, Alive
<1>21. CASE Exit(Remote)
  BY <1>21 DEF Exit, At, Goto, Loading, Alive
<1>22. CASE Attach(Worker)
  BY <1>22 DEF Attach, At, Goto, Loading, Alive
<1>23. CASE Disable(Worker)
  BY <1>23 DEF Disable, At, Goto, Loading, Alive
<1>24. CASE SuspendLoading
  BY <1>24 DEF SuspendLoading, At, Goto, Loading, Alive
<1>25. CASE MakePipe
  BY <1>25 DEF MakePipe, At, Goto, Loading, Alive
<1>26. CASE CreateServer
  BY <1>26 DEF CreateServer, Create, At, Loading, Alive
<1>27. CASE StartupFails
  BY <1>27 DEF StartupFails, At, Goto, Loading, Alive
<1>28. CASE RegisterServer
  BY <1>28 DEF RegisterServer, Register, Goto, At, Loading, Alive
<1>29. CASE ReleaseServer
  BY <1>29 DEF ReleaseServer, Release, Goto, At, Loading, Alive
<1>30. CASE AllocCheckSlot
  BY <1>30 DEF AllocCheckSlot, At, Goto, Loading, Alive
<1>31. CASE AllocRASSlot
  BY <1>31 DEF AllocRASSlot, At, Goto, Loading, Alive
<1>32. CASE Enable
  BY <1>32 DEF Enable, At, Goto, Loading, Alive
<1>33. CASE Detach(Worker)
  BY <1>33 DEF Detach, At, Goto, Loading, Alive
<1>34. CASE Exit(Worker)
  BY <1>34 DEF Exit, At, Goto, Loading, Alive
<1>35. CASE Attach(Server)
  BY <1>35 DEF Attach, At, Goto, Loading, Alive
<1>36. CASE Disable(Server)
  BY <1>36 DEF Disable, At, Goto, Loading, Alive
<1>37. CASE Accept
  BY <1>37 DEF Accept, At, Goto, Loading, Alive
<1>38. CASE Serve
  BY <1>38 DEF Serve, At, Loading, Alive
<1>39. CASE TakeLoader
  BY <1>39 DEF TakeLoader, At, Loading, Alive
<1>40. CASE TakeHeap
  BY <1>40 DEF TakeHeap, At, Loading, Alive
<1>41. CASE GiveBack
  BY <1>41 DEF GiveBack, At, Holds, Loading, Alive
<1>42. CASE UNCHANGED vars
  BY <1>42 DEF vars, walking, locks, slots, channel, Loading, Alive
<1>43. QED
  BY <1>1, <1>2, <1>3, <1>4, <1>5, <1>6, <1>7, <1>8, <1>9, <1>10, <1>11,
     <1>12, <1>13, <1>14, <1>15, <1>16, <1>17, <1>18, <1>19, <1>20, <1>21,
     <1>22, <1>23, <1>24, <1>25, <1>26, <1>27, <1>28, <1>29, <1>30, <1>31,
     <1>32, <1>33, <1>34, <1>35, <1>36, <1>37, <1>38, <1>39, <1>40, <1>41,
     <1>42 DEF Next,
     ClientStep, LoadingStep, WorkerStep, ServerStep

(* In every behaviour of an AUT created suspended, HeatNG's threads are         *)
(* registered from before their first instruction until they detach.           *)
THEOREM AlwaysRegistered == Spec => []Registered
<1>1. TypeOK /\ Registering => Registered
  BY DEF TypeOK, Registering, WorkerIds, ServerIds, Registered, HeatThreads, Alive
<1>2. QED
  BY <1>1, InitTypeOK, NextTypeOK, InitHolding, NextHolding, InitRegistering,
     NextRegistering, PTL DEF Spec
-----------------------------------------------------------------------------
(* Who has suspended the first thread.  Nobody does so twice: of a running AUT *)
(* only the client's walks count, and only a resume walk that gives up leaves  *)
(* the thread suspended behind it; of one created suspended only CreateProcess,*)
(* until the injection, and the worker, until runApp.                          *)

Walked ==
  /\ pc[Main] = "user"
  /\ suspends[Main] \in {0, 1}
  /\ suspends[Main] = 1 =>
       \/ client = "waiting"
       \/ client = "suspending" /\ Main \notin walk
       \/ client = "resuming" /\ Main \in walk
       \/ missed
  /\ missed => client \notin {"inject", "suspending", "waiting"}

HeldOnce ==
  /\ suspends[Main] \in {0, 1}
  /\ suspends[Main] = 1 =>
       \/ client = "inject"
       \/ pc[Main] = "load"
       \/ pc[Worker] \notin BeforeSuspend /\ client # "done"

Releasing == IF running THEN Walked ELSE HeldOnce

(* Initially a running AUT's first thread runs and a new one's is suspended.   *)
LEMMA InitReleasing == Init => Releasing
BY ThreadAssumption DEF Init, Releasing, Walked, HeldOnce, Threads

(* Every step keeps the count.                                                 *)
LEMMA NextReleasing == TypeOK /\ Holding /\ Releasing /\ [Next]_vars => Releasing'
<1> SUFFICES ASSUME TypeOK, Holding, Releasing, [Next]_vars PROVE Releasing'
  OBVIOUS
<1> USE ThreadAssumption DEF TypeOK, Holding, FirstThread, WorkerFirst, BeforeSuspend,
        Releasing, Walked, HeldOnce, Threads, Labels, walking, locks, slots,
        channel
<1>1. CASE InjectSuspended
  BY <1>1 DEF InjectSuspended, ClientGoes, Loading, Alive
<1>2. CASE BeginInjectRunning
  BY <1>2 DEF BeginInjectRunning, ClientGoes, Loading, Alive
<1>3. ASSUME NEW t \in Threads, ClientVisits(t) PROVE Releasing'
  BY <1>3 DEF ClientVisits, Loading, Alive
<1>4. CASE WalkGivesUp
  BY <1>4 DEF WalkGivesUp, Loading, Alive
<1>5. CASE StartRemote
  BY <1>5 DEF StartRemote, ClientGoes, Goto, Loading, Alive
<1>6. CASE InjectRunningFails
  BY <1>6 DEF InjectRunningFails, ClientGoes, Loading, Alive
<1>7. CASE RemoteAwaited
  BY <1>7 DEF RemoteAwaited, ClientGoes, Loading, Alive
<1>8. CASE Injected
  BY <1>8 DEF Injected, ClientGoes, Loading, Alive
<1>9. CASE Connect
  BY <1>9 DEF Connect, ClientGoes, Loading, Alive
<1>10. CASE ConnectTimesOut
  BY <1>10 DEF ConnectTimesOut, ClientGoes, Loading, Alive
<1>11. CASE Send
  BY <1>11 DEF Send, ClientGoes, Loading, Alive
<1>12. CASE Receive
  BY <1>12 DEF Receive, ClientGoes, Loading, Alive
<1>13. CASE RunApp
  BY <1>13 DEF RunApp, ClientGoes, Loading, Alive
<1>14. CASE BeginLoad
  BY <1>14 DEF BeginLoad, At, Goto, Loading, Alive
<1>15. CASE LoadFails
  BY <1>15 DEF LoadFails, At, Goto, Loading, Alive
<1>16. CASE CreateWorker
  BY <1>16 DEF CreateWorker, Create, At, Loading, Alive
<1>17. CASE RegisterWorker
  BY <1>17 DEF RegisterWorker, Register, Goto, At, Loading, Alive
<1>18. CASE ReleaseWorker
  BY <1>18 DEF ReleaseWorker, Release, Goto, At, Loading, Alive
<1>19. CASE Leave
  BY <1>19 DEF Leave, At, Goto, Loading, Alive
<1>20. CASE Detach(Remote)
  BY <1>20 DEF Detach, At, Goto, Loading, Alive
<1>21. CASE Exit(Remote)
  BY <1>21 DEF Exit, At, Goto, Loading, Alive
<1>22. CASE Attach(Worker)
  BY <1>22 DEF Attach, At, Goto, Loading, Alive
<1>23. CASE Disable(Worker)
  BY <1>23 DEF Disable, At, Goto, Loading, Alive
<1>24. CASE SuspendLoading
  BY <1>24 DEF SuspendLoading, At, Goto, Loading, Alive
<1>25. CASE MakePipe
  BY <1>25 DEF MakePipe, At, Goto, Loading, Alive
<1>26. CASE CreateServer
  BY <1>26 DEF CreateServer, Create, At, Loading, Alive
<1>27. CASE StartupFails
  BY <1>27 DEF StartupFails, At, Goto, Loading, Alive
<1>28. CASE RegisterServer
  BY <1>28 DEF RegisterServer, Register, Goto, At, Loading, Alive
<1>29. CASE ReleaseServer
  BY <1>29 DEF ReleaseServer, Release, Goto, At, Loading, Alive
<1>30. CASE AllocCheckSlot
  BY <1>30 DEF AllocCheckSlot, At, Goto, Loading, Alive
<1>31. CASE AllocRASSlot
  BY <1>31 DEF AllocRASSlot, At, Goto, Loading, Alive
<1>32. CASE Enable
  BY <1>32 DEF Enable, At, Goto, Loading, Alive
<1>33. CASE Detach(Worker)
  BY <1>33 DEF Detach, At, Goto, Loading, Alive
<1>34. CASE Exit(Worker)
  BY <1>34 DEF Exit, At, Goto, Loading, Alive
<1>35. CASE Attach(Server)
  BY <1>35 DEF Attach, At, Goto, Loading, Alive
<1>36. CASE Disable(Server)
  BY <1>36 DEF Disable, At, Goto, Loading, Alive
<1>37. CASE Accept
  BY <1>37 DEF Accept, At, Goto, Loading, Alive
<1>38. CASE Serve
  BY <1>38 DEF Serve, At, Loading, Alive
<1>39. CASE TakeLoader
  BY <1>39 DEF TakeLoader, At, Loading, Alive
<1>40. CASE TakeHeap
  BY <1>40 DEF TakeHeap, At, Loading, Alive
<1>41. CASE GiveBack
  BY <1>41 DEF GiveBack, At, Holds, Loading, Alive
<1>42. CASE UNCHANGED vars
  BY <1>42 DEF vars, walking, locks, slots, channel, Loading, Alive
<1>43. QED
  BY <1>1, <1>2, <1>3, <1>4, <1>5, <1>6, <1>7, <1>8, <1>9, <1>10, <1>11,
     <1>12, <1>13, <1>14, <1>15, <1>16, <1>17, <1>18, <1>19, <1>20, <1>21,
     <1>22, <1>23, <1>24, <1>25, <1>26, <1>27, <1>28, <1>29, <1>30, <1>31,
     <1>32, <1>33, <1>34, <1>35, <1>36, <1>37, <1>38, <1>39, <1>40, <1>41,
     <1>42 DEF Next,
     ClientStep, LoadingStep, WorkerStep, ServerStep

(* In every behaviour the program's first thread runs when the client is       *)
(* through, whichever way the DLL got in and whichever of the steps failed,    *)
(* unless a resume walk gave up before it reached that thread.                 *)
THEOREM Released == Spec => []AutReleased
<1>1. TypeOK /\ Holding /\ Releasing => AutReleased
  BY DEF TypeOK, Holding, FirstThread, WorkerFirst, BeforeSuspend, Releasing, Walked,
     HeldOnce, AutReleased
<1>2. QED
  BY <1>1, InitTypeOK, NextTypeOK, InitHolding, NextHolding, InitReleasing,
     NextReleasing, PTL DEF Spec
=============================================================================
