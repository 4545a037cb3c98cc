------------------------------- MODULE HeatApp -------------------------------
(***************************************************************************)
(* CHeatApp, the backward compatible API of HeatNG: one object attaches to  *)
(* a process, injects the server into it, sends it the intercepts the user  *)
(* asked for, and pauses, resumes, detaches from or terminates it.          *)
(*                                                                         *)
(* One user thread calls the API.  Next to it run the processes, and the    *)
(* monitor threads that every attach leaves behind to clear the object's    *)
(* flags when the process they wait for has exited.  An API call is a       *)
(* sequence of routines, todo; each routine takes its steps interleaved     *)
(* with the others.                                                         *)
(***************************************************************************)
EXTENDS Naturals, Sequences, FiniteSets

CONSTANTS
  Processes,  \* processes the object may be used with
  NoProcess,  \* no process, no HeatNGApp
  Functions,  \* functions the user may intercept
  Reuse,      \* may the user attach one object to several processes in turn?
  MaxOpens,   \* bound: attaches
  MaxCalls    \* bound: API calls

ASSUME ConstAssumption ==
  /\ NoProcess \notin Processes
  /\ Reuse \in BOOLEAN
  /\ MaxOpens \in Nat
  /\ MaxCalls \in Nat

\* The threads of a process: its first one, one it starts itself, and HeatNG's
\* server thread once the server has been injected.
ThreadIds == {"main", "worker", "server"}

VARIABLES
  (* the object *)
  m_bReady, m_bRunning, m_bInjected, m_bUseRemoteThread,
  m_piProcInfo,   \* the process attached to
  m_hProcess,     \* the process whose handle is kept
  m_heatNGapp,    \* the process the HeatNGApp is connected to
  m_ciIntercepts, \* intercepts, newest first
  destroyed,      \* the destructor has run
  (* the user thread *)
  todo,           \* routines left of the current API call
  call,           \* the API call
  walk,           \* thread ids of the snapshot modifyProcessState has left
  calls, opens,
  (* monitor threads *)
  monitors,       \* [pc, handle], in the order they were started
  (* the processes *)
  state,          \* "absent", "alive" or "exited"
  threads,        \* live threads
  suspends,       \* suspend count of each thread
  fresh,          \* processes that have not executed their entry point yet
  installed,      \* installed[p][f]: redirections of f written in p
  taken,          \* processes whose server has a client
  blocked,        \* the server waits for a lock that a suspended thread holds
  (* history *)
  gaveUp,         \* "pause", "detach": one of these calls gave up half-way;
                  \* "inject": an injection left threads suspended
  exitSeen        \* the process exited after its attach had returned

flags == <<m_bReady, m_bRunning, m_bInjected>>
object == <<m_bUseRemoteThread, m_piProcInfo, m_hProcess, m_heatNGapp,
            m_ciIntercepts, destroyed>>
user == <<todo, call, walk, calls, opens>>
processes == <<state, threads, suspends, fresh, installed, taken,
               blocked>>
history == <<gaveUp, exitSeen>>
vars == <<m_bReady, m_bRunning, m_bInjected, m_bUseRemoteThread, m_piProcInfo,
          m_hProcess, m_heatNGapp, m_ciIntercepts, destroyed, todo, call, walk,
          calls, opens, monitors, state, threads, suspends, fresh, installed,
          taken, blocked, gaveUp, exitSeen>>

Node == [fn : Functions, sent : BOOLEAN]

Routines == {"adopt", "unsent", "pause", "pausing", "resume", "resuming",
             "unready", "construct", "send", "sending", "injected", "kill",
             "removeAll", "destroy"}

\* A process the user finds: started suspended and not resumed yet, or running.
Init ==
  /\ m_bReady = FALSE /\ m_bRunning = FALSE /\ m_bInjected = FALSE
  /\ m_bUseRemoteThread = FALSE
  /\ m_piProcInfo = NoProcess
  /\ m_hProcess = NoProcess
  /\ m_heatNGapp = NoProcess
  /\ m_ciIntercepts = <<>>
  /\ destroyed = FALSE
  /\ todo = <<>>
  /\ call = "none"
  /\ walk = {}
  /\ calls = 0
  /\ opens = 0
  /\ monitors = <<>>
  /\ state \in [Processes -> {"absent", "alive"}]
  /\ fresh \in SUBSET {p \in Processes : state[p] = "alive"}
  /\ threads = [p \in Processes |->
       IF state[p] = "absent" THEN {} ELSE {"main"}]
  /\ suspends = [p \in Processes |-> [t \in ThreadIds |->
       IF p \in fresh /\ t = "main" THEN 1 ELSE 0]]
  /\ installed = [p \in Processes |-> [f \in Functions |-> 0]]
  /\ taken = {}
  /\ blocked = FALSE
  /\ gaveUp = {}
  /\ exitSeen = FALSE

-----------------------------------------------------------------------------
(* Entering and leaving API calls. *)

Idle == todo = <<>> /\ ~destroyed

Enter(name, routines) ==
  /\ Idle
  /\ calls < MaxCalls
  /\ calls' = calls + 1
  /\ call' = name
  /\ todo' = routines

\* A routine returns HEAT_SUCCESS, or another code: every caller but the
\* destructor then returns as well.
Succeed == todo' = Tail(todo)
Fail == todo' = IF call = "destroy" THEN Tail(todo) ELSE <<>>

At(routine) == todo # <<>> /\ Head(todo) = routine

\* initializeApp: no monitor is started, and m_bRunning is left as it is.
InitializeApp(p) ==
  /\ ~m_bReady
  /\ state[p] = "absent"
  /\ opens < MaxOpens /\ (Reuse \/ opens = 0)
  /\ Enter("initialize", <<>>)
  /\ opens' = opens + 1
  /\ state' = [state EXCEPT ![p] = "alive"]
  /\ threads' = [threads EXCEPT ![p] = {"main"}]
  /\ suspends' = [suspends EXCEPT ![p]["main"] = 1]
  /\ fresh' = fresh \cup {p}
  /\ m_piProcInfo' = p
  /\ m_hProcess' = p
  /\ m_bUseRemoteThread' = FALSE
  /\ m_bReady' = TRUE
  /\ exitSeen' = FALSE
  /\ UNCHANGED <<m_bRunning, m_bInjected, m_heatNGapp, m_ciIntercepts,
                 destroyed, walk, monitors, installed, taken,
                 blocked, gaveUp>>

\* attachToApp and attachToRunningApp, up to startMonitorThread.  The user
\* tells the truth about whether the process runs.
Attach(p, running) ==
  /\ ~m_bReady
  /\ state[p] = "alive"
  /\ opens < MaxOpens /\ (Reuse \/ opens = 0)
  /\ running <=> \A t \in threads[p] : suspends[p][t] = 0
  /\ Enter(IF running THEN "attachToRunningApp" ELSE "attachToApp", <<"adopt">>)
  /\ opens' = opens + 1
  /\ m_hProcess' = p
  /\ monitors' = Append(monitors, [pc |-> "start", handle |-> NoProcess])
  /\ UNCHANGED <<flags, m_bUseRemoteThread, m_piProcInfo, m_heatNGapp,
                 m_ciIntercepts, destroyed, walk, processes, history>>

\* The rest of the attach.  The variants that take a process id look for one
\* of its threads and fail if there is none.
Adopt ==
  /\ At("adopt")
  /\ m_piProcInfo' = m_hProcess
  /\ exitSeen' = FALSE
  /\ \/ /\ Succeed
        /\ m_bUseRemoteThread' = (call = "attachToRunningApp")
        /\ m_bReady' = TRUE
        /\ m_bRunning' = (m_bRunning \/ call = "attachToRunningApp")
     \/ /\ threads[m_hProcess] = {}
        /\ Fail
        /\ UNCHANGED <<m_bUseRemoteThread, m_bReady, m_bRunning>>
  /\ UNCHANGED <<m_bInjected, m_hProcess, m_heatNGapp, m_ciIntercepts,
                 destroyed, call, walk, calls, opens, monitors, processes,
                 gaveUp>>

\* The calls that only check m_bReady before their first routine.
Simple(name, routines) ==
  /\ m_bReady
  /\ Enter(name, routines)
  /\ UNCHANGED <<flags, object, walk, opens, monitors, processes, history>>

PauseApp == Simple("pauseApp", <<"pause">>)
ResumeApp == Simple("resumeApp", <<"resume">>)
RunApp == ~m_bRunning /\ Simple("runApp", <<"resume">>)
ForceInjectNoSend == ~m_bInjected /\ Simple("forceInject", <<"construct", "injected">>)

ForceInject ==
  ~m_bInjected /\ Simple("forceInject", <<"construct", "send", "injected">>)
TerminateApp == Simple("terminateApp", <<"kill">>)
DeinitializeApp == Simple("deinitializeApp", <<"kill", "removeAll">>)
\* Unintercepting is a no-op on every path: sendUnintercept does nothing.
DetachFromApp ==
  Simple("detachFromApp",
         IF ~m_bInjected THEN <<"unready">>
         ELSE <<"unsent">> \o
              (IF m_bRunning /\ ~m_bUseRemoteThread
               THEN <<"pause", "resume">> ELSE <<>>)
              \o <<"unready">>)

InterceptFuncAgain(f) ==
  /\ Enter("interceptFunc",
           IF m_bReady /\ m_bInjected THEN <<"send">> ELSE <<>>)
  /\ m_ciIntercepts' = <<[fn |-> f, sent |-> FALSE]>> \o m_ciIntercepts
  /\ UNCHANGED <<flags, m_bUseRemoteThread, m_piProcInfo, m_hProcess,
                 m_heatNGapp, destroyed, walk, opens, monitors, processes,
                 history>>

\* interceptFunc.
InterceptFunc(f) ==
  /\ \A i \in 1..Len(m_ciIntercepts) : m_ciIntercepts[i].fn # f
  /\ Enter("interceptFunc",
           IF m_bReady /\ m_bInjected THEN <<"send">> ELSE <<>>)
  /\ m_ciIntercepts' = <<[fn |-> f, sent |-> FALSE]>> \o m_ciIntercepts
  /\ UNCHANGED <<flags, m_bUseRemoteThread, m_piProcInfo, m_hProcess,
                 m_heatNGapp, destroyed, walk, opens, monitors, processes,
                 history>>

\* setPauseState: the user has paused or resumed the process by other means.
SetPauseState ==
  /\ m_bReady
  /\ state[m_piProcInfo] = "alive"
  /\ Enter("setPauseState", <<>>)
  /\ m_bRunning' = ~m_bRunning
  /\ suspends' = [suspends EXCEPT ![m_piProcInfo] = [t \in ThreadIds |->
       IF t \in threads[m_piProcInfo]
       THEN IF m_bRunning THEN @[t] + 1 ELSE IF @[t] > 0 THEN @[t] - 1 ELSE 0
       ELSE @[t]]]
  /\ fresh' = IF m_bRunning THEN fresh ELSE fresh \ {m_piProcInfo}
  /\ UNCHANGED <<m_bReady, m_bInjected, object, walk, opens, monitors, state,
                 threads, installed, taken, blocked, history>>

\* ~CHeatApp: closes the handle and resumes.
Destroy ==
  /\ Enter("destroy", <<"resume", "destroy">>)
  /\ m_hProcess' = NoProcess
  /\ UNCHANGED <<flags, m_bUseRemoteThread, m_piProcInfo, m_heatNGapp,
                 m_ciIntercepts, destroyed, walk, opens, monitors, processes,
                 history>>

-----------------------------------------------------------------------------
(* Routines that change the object only. *)

Unready ==
  /\ At("unready")
  /\ m_bReady' = FALSE
  /\ Succeed
  /\ UNCHANGED <<m_bRunning, m_bInjected, object, call, walk, calls, opens,
                 monitors, processes, history>>

Injected ==
  /\ At("injected")
  /\ m_bInjected' = TRUE
  /\ Succeed
  /\ UNCHANGED <<m_bReady, m_bRunning, object, call, walk, calls, opens,
                 monitors, processes, history>>

AllUnsent == [i \in 1..Len(m_ciIntercepts) |->
                [m_ciIntercepts[i] EXCEPT !.sent = FALSE]]

\* markAllUnsent.
Unsent ==
  /\ At("unsent")
  /\ m_ciIntercepts' = AllUnsent
  /\ Succeed
  /\ UNCHANGED <<flags, m_bUseRemoteThread, m_piProcInfo, m_hProcess,
                 m_heatNGapp, destroyed, call, walk, calls, opens, monitors,
                 processes, history>>

\* removeAllIntercepts, and the end of the destructor, which runs it too.
Remove ==
  /\ At("removeAll") \/ At("destroy")
  /\ m_ciIntercepts' = <<>>
  /\ destroyed' = At("destroy")
  /\ Succeed
  /\ UNCHANGED <<flags, m_bUseRemoteThread, m_piProcInfo, m_hProcess,
                 m_heatNGapp, call, walk, calls, opens, monitors, processes,
                 history>>

-----------------------------------------------------------------------------
(* pauseApp and resumeApp around modifyProcessState. *)

Pausing == At("pausing")
Walking == At("pausing") \/ At("resuming")

BeginWalkAnyway ==
  /\ At("pause") \/ At("resume")
  /\ IF m_bReady
     THEN /\ todo' = <<IF At("pause") THEN "pausing" ELSE "resuming">> \o Tail(todo)
          /\ walk' = threads[m_piProcInfo]
     ELSE Fail /\ UNCHANGED walk
  /\ UNCHANGED <<flags, object, call, calls, opens, monitors, processes, history>>

\* The checks, and the snapshot of the threads.
BeginWalk ==
  /\ At("pause") \/ At("resume")
  /\ IF m_bReady /\ m_bRunning = At("pause")
     THEN /\ todo' = <<IF At("pause") THEN "pausing" ELSE "resuming">> \o Tail(todo)
          /\ walk' = threads[m_piProcInfo]
     ELSE Fail /\ UNCHANGED walk
  /\ UNCHANGED <<flags, object, call, calls, opens, monitors, processes, history>>

\* One thread: suspended or resumed, or only opened if it has exited since.
WalkThread(t) ==
  /\ Walking
  /\ t \in walk
  /\ walk' = walk \ {t}
  /\ suspends' = [suspends EXCEPT ![m_piProcInfo][t] =
       IF t \notin threads[m_piProcInfo] THEN @
       ELSE IF Pausing THEN @ + 1 ELSE IF @ > 0 THEN @ - 1 ELSE 0]
  /\ fresh' = IF suspends'[m_piProcInfo]["main"] = 0
              THEN fresh \ {m_piProcInfo} ELSE fresh
  /\ UNCHANGED <<flags, object, todo, call, calls, opens, monitors, state,
                 threads, installed, taken, blocked, history>>

\* A thread that has exited since cannot be opened: FALSE, half-way.
WalkStops ==
  /\ Walking
  /\ \E t \in walk : t \notin threads[m_piProcInfo]
  /\ walk' = {}
  /\ gaveUp' = gaveUp \cup (IF Pausing THEN {"pause"} ELSE {})
                       \cup (IF call = "detachFromApp" THEN {"detach"} ELSE {})
  /\ Fail
  /\ UNCHANGED <<flags, object, call, calls, opens, monitors, processes, exitSeen>>

EndWalk ==
  /\ Walking
  /\ walk = {}
  /\ m_bRunning' = ~Pausing
  /\ Succeed
  /\ UNCHANGED <<m_bReady, m_bInjected, object, call, walk, calls, opens,
                 monitors, processes, history>>

-----------------------------------------------------------------------------
(* forceInject. *)

\* HeatNGApp's constructor injects the server, and connects to it.  A process
\* that m_bRunning calls suspended is injected by letting its first thread run
\* until the loader reaches the server, whose worker suspends it again; that
\* takes a process that has not been initialized yet and is suspended just
\* once.  A server takes one client, ever.
CanInject ==
  \/ m_bRunning
  \/ m_piProcInfo \in fresh /\ suspends[m_piProcInfo]["main"] = 1

FirstThreadResumed ==
  /\ ~m_bRunning
  /\ suspends' = [suspends EXCEPT ![m_piProcInfo]["main"] =
                    IF @ > 0 THEN @ - 1 ELSE 0]
  /\ fresh' = IF suspends'[m_piProcInfo]["main"] = 0
              THEN fresh \ {m_piProcInfo} ELSE fresh
  /\ UNCHANGED gaveUp

\* A process that m_bRunning calls running is suspended and resumed around the
\* injection.  Each walk gives up when it has no snapshot or meets a thread that
\* has exited, and nobody looks at its answer.
SuspendedAndResumed ==
  /\ m_bRunning
  /\ \E paused, resumed \in SUBSET threads[m_piProcInfo] :
       /\ suspends' = [suspends EXCEPT ![m_piProcInfo] = [t \in ThreadIds |->
            CASE t \in paused \ resumed -> @[t] + 1
              [] t \in resumed \ paused /\ @[t] > 0 -> @[t] - 1
              [] OTHER -> @[t]]]
       /\ gaveUp' = IF paused \subseteq resumed THEN gaveUp ELSE gaveUp \cup {"inject"}
  /\ fresh' = IF suspends'[m_piProcInfo]["main"] = 0
              THEN fresh \ {m_piProcInfo} ELSE fresh

HeldAgain == ~m_bRunning /\ UNCHANGED <<suspends, fresh, gaveUp>>

Loaded == m_piProcInfo \in taken \/ "server" \in threads[m_piProcInfo]

\* The server's worker makes the pipe and starts the server thread, if it can.
\* A second injection finds the server loaded: nothing suspends the first
\* thread again.
ServerLoads ==
  /\ state[m_piProcInfo] = "alive"
  /\ \/ /\ Loaded
        /\ FirstThreadResumed \/ SuspendedAndResumed
        /\ UNCHANGED threads
     \/ /\ ~Loaded /\ CanInject
        /\ HeldAgain \/ SuspendedAndResumed
        /\ \/ threads' = [threads EXCEPT ![m_piProcInfo] = @ \cup {"server"}]
           \/ UNCHANGED threads

Construct ==
  /\ At("construct")
  /\ m_piProcInfo \notin taken
  /\ ServerLoads
  /\ taken' = taken \cup {m_piProcInfo}
  /\ m_heatNGapp' = m_piProcInfo
  /\ Succeed
  /\ UNCHANGED <<flags, m_bUseRemoteThread, m_piProcInfo, m_hProcess,
                 m_ciIntercepts, destroyed, call, walk, calls, opens, monitors,
                 state, installed, blocked, exitSeen>>

\* The constructor throws: nothing was injected, though threads may have been
\* resumed, or left suspended, on the way, or the server came up too late for
\* the client.
ConstructThrows ==
  /\ At("construct")
  /\ Fail
  /\ \/ UNCHANGED <<threads, suspends, fresh, gaveUp>>
     \/ ServerLoads
     \/ (FirstThreadResumed \/ SuspendedAndResumed) /\ UNCHANGED threads
  /\ UNCHANGED <<flags, object, call, walk, calls, opens, monitors, state,
                 installed, taken, blocked, exitSeen>>

Pending == {i \in 1..Len(m_ciIntercepts) : ~m_ciIntercepts[i].sent}
First(S) == CHOOSE i \in S : \A j \in S : i <= j

ServerAnswers ==
  /\ "server" \in threads[m_heatNGapp]
  /\ suspends[m_heatNGapp]["server"] = 0
  /\ ~blocked

\* sendIntercepts.  forceInject does not look at its result.
BeginSend ==
  /\ At("send")
  /\ todo' = IF m_bReady THEN <<"sending">> \o Tail(todo) ELSE Tail(todo)
  /\ UNCHANGED <<flags, object, call, walk, calls, opens, monitors, processes,
                 history>>

\* A thread that the worker, a pause or a walk that gave up has suspended may
\* hold the loader lock or the heap lock, ...
SuspendedOthers(p) == {t \in threads[p] \ {"server"} : suspends[p][t] > 0}

\* ... and the server, at work on the intercept, may need it.
ServerBlocks ==
  /\ At("sending") /\ Pending # {}
  /\ ServerAnswers
  /\ SuspendedOthers(m_heatNGapp) # {}
  /\ blocked' = TRUE
  /\ UNCHANGED <<flags, object, user, monitors, state, threads, suspends, fresh,
                 installed, taken, history>>

SendInterceptUnmarked ==
  /\ At("sending")
  /\ Pending # {}
  /\ LET i == First(Pending)
         f == m_ciIntercepts[i].fn
     IN /\ UNCHANGED m_ciIntercepts
        /\ \/ /\ state[m_heatNGapp] = "alive"
              /\ ServerAnswers
              /\ \/ installed' = [installed EXCEPT ![m_heatNGapp][f] = @ + 1]
                 \/ UNCHANGED installed
           \/ state[m_heatNGapp] # "alive" /\ UNCHANGED installed
  /\ blocked' = FALSE
  /\ UNCHANGED <<flags, m_bUseRemoteThread, m_piProcInfo, m_hProcess,
                 m_heatNGapp, destroyed, user, monitors, state, threads,
                 suspends, fresh, taken, history>>

SendInterceptWaits ==
  /\ At("sending")
  /\ Pending # {}
  /\ LET i == First(Pending)
         f == m_ciIntercepts[i].fn
     IN /\ m_ciIntercepts' = [m_ciIntercepts EXCEPT ![i].sent = TRUE]
        /\ state[m_heatNGapp] = "alive"
        /\ ServerAnswers
        /\ \/ installed' = [installed EXCEPT ![m_heatNGapp][f] = @ + 1]
           \/ UNCHANGED installed
  /\ blocked' = FALSE
  /\ UNCHANGED <<flags, m_bUseRemoteThread, m_piProcInfo, m_hProcess,
                 m_heatNGapp, destroyed, user, monitors, state, threads,
                 suspends, fresh, taken, history>>

\* One node.  addIntercept returns when the server thread has answered, or when
\* the process is gone; its result is not looked at.
SendIntercept ==
  /\ At("sending")
  /\ Pending # {}
  /\ LET i == First(Pending)
         f == m_ciIntercepts[i].fn
     IN /\ m_ciIntercepts' = [m_ciIntercepts EXCEPT ![i].sent = TRUE]
        /\ \/ /\ state[m_heatNGapp] = "alive"
              /\ ServerAnswers
              /\ \/ installed' = [installed EXCEPT ![m_heatNGapp][f] = @ + 1]
                 \/ UNCHANGED installed
           \/ state[m_heatNGapp] # "alive" /\ UNCHANGED installed
  /\ blocked' = FALSE
  /\ UNCHANGED <<flags, m_bUseRemoteThread, m_piProcInfo, m_hProcess,
                 m_heatNGapp, destroyed, user, monitors, state, threads,
                 suspends, fresh, taken, history>>

SendDone ==
  /\ At("sending")
  /\ Pending = {}
  /\ Succeed
  /\ UNCHANGED <<flags, object, call, walk, calls, opens, monitors, processes,
                 history>>

-----------------------------------------------------------------------------
(* terminateApp. *)

Kill ==
  /\ At("kill")
  /\ state[m_piProcInfo] = "alive"
  /\ state' = [state EXCEPT ![m_piProcInfo] = "exited"]
  /\ threads' = [threads EXCEPT ![m_piProcInfo] = {}]
  /\ m_ciIntercepts' = AllUnsent
  /\ m_bReady' = FALSE /\ m_bRunning' = FALSE /\ m_bInjected' = FALSE
  /\ Succeed
  /\ UNCHANGED <<m_bUseRemoteThread, m_piProcInfo, m_hProcess, m_heatNGapp,
                 destroyed, call, walk, calls, opens, monitors, suspends, fresh,
                 installed, taken, blocked, history>>

KillFails ==
  /\ At("kill")
  /\ state[m_piProcInfo] # "alive"
  /\ Fail
  /\ UNCHANGED <<flags, object, call, walk, calls, opens, monitors, processes,
                 history>>

-----------------------------------------------------------------------------
(* MonitorThreadProc.  A monitor that outlives the object is not followed. *)

MonitorGoes(i, from, to) ==
  /\ ~destroyed
  /\ monitors[i].pc = from
  /\ monitors' = [monitors EXCEPT ![i].pc = to]

\* It reads m_hProcess when it gets to run.
MonitorReads(i) ==
  /\ ~destroyed
  /\ monitors[i].pc = "start"
  /\ monitors' = [monitors EXCEPT ![i] = [pc |-> "wait", handle |-> m_hProcess]]
  /\ UNCHANGED <<flags, object, user, processes, history>>

\* The process has exited, or its handle was closed.
MonitorWakes(i) ==
  /\ monitors[i].handle # NoProcess => state[monitors[i].handle] = "exited"
  /\ MonitorGoes(i, "wait", "ready")
  /\ m_bRunning' = FALSE
  /\ UNCHANGED <<m_bReady, m_bInjected, object, user, processes, history>>

MonitorForgets(i) ==
  /\ MonitorGoes(i, "ready", "injected")
  /\ UNCHANGED <<flags, object, user, processes, history>>

MonitorUnready(i) ==
  /\ MonitorGoes(i, "ready", "injected")
  /\ m_bReady' = FALSE
  /\ UNCHANGED <<m_bRunning, m_bInjected, object, user, processes, history>>

MonitorUninjected(i) ==
  /\ MonitorGoes(i, "injected", "done")
  /\ m_bInjected' = FALSE
  /\ UNCHANGED <<m_bReady, m_bRunning, object, user, processes, history>>

-----------------------------------------------------------------------------
(* The processes. *)

Runs(p) == state[p] = "alive" /\ suspends[p]["main"] = 0

Exits(p) ==
  /\ state[p] = "alive"
  /\ state' = [state EXCEPT ![p] = "exited"]
  /\ threads' = [threads EXCEPT ![p] = {}]
  /\ exitSeen' = (exitSeen \/ (p = m_piProcInfo /\ m_bReady))
  /\ UNCHANGED <<flags, object, user, monitors, suspends, fresh, installed,
                 taken, blocked, gaveUp>>

WorkerStarts(p) ==
  /\ Runs(p)
  /\ "worker" \notin threads[p]
  /\ threads' = [threads EXCEPT ![p] = @ \cup {"worker"}]
  /\ UNCHANGED <<flags, object, user, monitors, state, suspends, fresh,
                 installed, taken, blocked, history>>

WorkerExits(p) ==
  /\ state[p] = "alive"
  /\ "worker" \in threads[p]
  /\ suspends[p]["worker"] = 0
  /\ threads' = [threads EXCEPT ![p] = @ \ {"worker"}]
  /\ UNCHANGED <<flags, object, user, monitors, state, suspends, fresh,
                 installed, taken, blocked, history>>

-----------------------------------------------------------------------------
UserCalls ==
  \/ \E p \in Processes : \/ InitializeApp(p)
                          \/ \E running \in BOOLEAN : Attach(p, running)
  \/ PauseApp
  \/ ResumeApp
  \/ RunApp
  \/ ForceInject
  \/ TerminateApp
  \/ DeinitializeApp
  \/ DetachFromApp
  \/ \E f \in Functions : InterceptFunc(f)
  \/ SetPauseState
  \/ Destroy

Routine ==
  \/ Adopt
  \/ Unready
  \/ Injected
  \/ Unsent
  \/ Remove
  \/ BeginWalk
  \/ \E t \in ThreadIds : WalkThread(t)
  \/ WalkStops
  \/ EndWalk
  \/ Construct
  \/ ConstructThrows
  \/ BeginSend
  \/ SendIntercept
  \/ SendDone
  \/ Kill
  \/ KillFails

Monitor(i) == \/ MonitorReads(i)
              \/ MonitorWakes(i)
              \/ MonitorUnready(i)
              \/ MonitorUninjected(i)

ProcessStep ==
  \/ \E p \in Processes : Exits(p) \/ WorkerStarts(p) \/ WorkerExits(p)
  \/ ServerBlocks

Next == \/ UserCalls
        \/ Routine
        \/ \E i \in 1..Len(monitors) : Monitor(i)
        \/ ProcessStep

Spec == Init /\ [][Next]_vars

\* A thread that runs goes on: API calls proceed, and so do monitors.  Nothing
\* makes the user call again or a process exit.
Fairness == /\ WF_vars(Routine)
            /\ \A i \in 1..MaxOpens :
                 WF_vars(i \in 1..Len(monitors) /\ Monitor(i))

FairSpec == Spec /\ Fairness

-----------------------------------------------------------------------------
(* Properties. *)

(* Types, and that the list has one node per function: addIntercept refuses a *)
(* second one.                                                                *)
TypeOK ==
  /\ {m_bReady, m_bRunning, m_bInjected, m_bUseRemoteThread, destroyed} \subseteq BOOLEAN
  /\ {m_piProcInfo, m_hProcess, m_heatNGapp} \subseteq Processes \cup {NoProcess}
  /\ m_ciIntercepts \in Seq(Node)
  /\ \A i, j \in 1..Len(m_ciIntercepts) :
       m_ciIntercepts[i].fn = m_ciIntercepts[j].fn => i = j
  /\ todo \in Seq(Routines)
  /\ walk \subseteq ThreadIds
  /\ calls \in 0..MaxCalls /\ opens \in 0..MaxOpens
  /\ monitors \in Seq([pc : {"start", "wait", "ready", "injected", "done"},
                       handle : Processes \cup {NoProcess}])
  /\ state \in [Processes -> {"absent", "alive", "exited"}]
  /\ threads \in [Processes -> SUBSET ThreadIds]
  /\ suspends \in [Processes -> [ThreadIds -> Nat]]
  /\ fresh \subseteq Processes /\ taken \subseteq Processes
  /\ installed \in [Processes -> [Functions -> Nat]]
  /\ gaveUp \subseteq {"pause", "detach", "inject"} /\ exitSeen \in BOOLEAN
  /\ blocked \in BOOLEAN

InUse(p) == p # NoProcess /\ state[p] = "alive"

(* Between calls, while the object is attached to a process and injected, no   *)
(* intercept the user asked for is waiting to be sent, unless a detach has     *)
(* given up after marking the list unsent.                                     *)
NothingPending ==
  (/\ todo = <<>>
   /\ m_bReady /\ m_bInjected
   /\ InUse(m_piProcInfo)
   /\ "detach" \notin gaveUp)
  => Pending = {}

(* No function of a process is redirected twice, which would take the first    *)
(* redirection's jump for the original code: interceptFunc's duplicate check   *)
(* and the sent marks see to it, unless a detach has given up after marking    *)
(* the list unsent; then the next interceptFunc sends the whole list again.    *)
PatchedOnce ==
  "detach" \notin gaveUp =>
    \A p \in Processes, f \in Functions : installed[p][f] <= 1

(* Between calls, if m_bRunning is set then every thread of the process runs:  *)
(* the flag and the suspend counts the kernel keeps stay in step through       *)
(* pauses, injections, new and exited threads.  Not when a pause has given up  *)
(* half-way, nor when an injection into a running process has suspended a      *)
(* thread and its resume walk has given up before it: forceInject succeeds.    *)
RunningMeansResumed ==
  (/\ todo = <<>>
   /\ m_bReady /\ m_bRunning
   /\ InUse(m_piProcInfo)
   /\ {"pause", "inject"} \cap gaveUp = {})
  => \A t \in threads[m_piProcInfo] : suspends[m_piProcInfo][t] = 0

(* A process that exits after the attach has returned is noticed: its monitor  *)
(* clears m_bReady.  (One that exits inside the attach, after                  *)
(* startMonitorThread, is not: the attach sets m_bReady behind the monitor.)   *)
ExitNoticed == (exitSeen /\ monitors # <<>>) ~> (~m_bReady \/ destroyed)

\* The server thread is suspended, or waits for what a suspended thread holds,
\* or could never be created.
ServerSilent ==
  /\ At("sending")
  /\ state[m_heatNGapp] = "alive"
  /\ \/ "server" \notin threads[m_heatNGapp]
     \/ suspends[m_heatNGapp]["server"] > 0
     \/ blocked /\ SuspendedOthers(m_heatNGapp) # {}

(* Every API call returns, except one that sends intercepts to an application  *)
(* whose server thread cannot answer: the client has no timeout.  It cannot if *)
(* this object has paused it, if it waits for the loader lock or the heap lock *)
(* and their holder is suspended, by the server's own worker among others, or  *)
(* if CreateThread failed and there is only the pipe.                          *)
CallsReturn == []<>(todo = <<>>) \/ <>[]ServerSilent

(* "Returns true if the application is currently running, false otherwise"     *)
(* (isRunning): if it says so, some thread of the process is not suspended.    *)
(* Not when the object was attached to another process before, of which        *)
(* detachFromApp leaves the flag, nor when an injection has left all threads   *)
(* suspended (no run checks this).                                             *)
IsRunningTruthful ==
  (Idle /\ m_bReady /\ m_bRunning /\ InUse(m_piProcInfo))
  => \E t \in threads[m_piProcInfo] : suspends[m_piProcInfo][t] = 0

(* "make sure we don't leave the app in a paused state" (~CHeatApp).  Not when *)
(* the object has detached: resumeApp refuses (no run checks this).            *)
ResumedByDestructor ==
  (destroyed /\ InUse(m_piProcInfo) /\ "pause" \notin gaveUp)
  => \E t \in threads[m_piProcInfo] : suspends[m_piProcInfo][t] = 0

(* "Begins intercepting the function given by pszFuncToIntercept"              *)
(* (interceptFunc): once it has returned HEAT_SUCCESS for an injected process, *)
(* the functions on the list are redirected there.  Not when the server has    *)
(* refused one: sendIntercepts ignores it (no run checks this).                *)
InterceptTakesEffect ==
  [][(/\ call = "interceptFunc"
      /\ At("sending")
      /\ todo' = <<>>
      /\ InUse(m_piProcInfo))
     => \A i \in 1..Len(m_ciIntercepts) :
          installed[m_piProcInfo][m_ciIntercepts[i].fn] > 0]_vars
=============================================================================
