------------------------------ MODULE AutServer ------------------------------
(***************************************************************************)
(* An injected application under test (AUT) serving its client.             *)
(*                                                                         *)
(* The client (HeatNGApp over CommClient) writes a command byte and the     *)
(* command's data into a pipe and waits for a status byte.  In the AUT the  *)
(* server thread (CommServer's serverFunction over heatServerHandler)       *)
(* executes one command after the other: it installs an intercept, or       *)
(* suspends or resumes the threads of the AUT, which meanwhile run, create  *)
(* threads, exit, and use the process locks (heap and loader lock) that the *)
(* server needs as well.                                                    *)
(***************************************************************************)
EXTENDS Naturals, Sequences, FiniteSets

CONSTANTS
  Threads,    \* the AUT's own threads, the ones it may create included
  Main,       \* its first thread
  Created,    \* its other threads when the server starts
  Server,     \* the server thread
  Functions,  \* functions to intercept
  NoFunction, \* the data of a command that has none
  NoCommand,  \* no command is being executed
  Nobody,     \* owns the process locks when they are free
  MaxCalls    \* bound: calls the client makes

ASSUME ConstAssumption ==
  /\ Main \in Threads
  /\ Created \subseteq Threads \ {Main}
  /\ Server \notin Threads
  /\ Nobody \notin Threads \cup {Server}
  /\ NoFunction \notin Functions
  /\ MaxCalls \in Nat

VARIABLES
  mState,    \* HeatNGApp::m_state, set by its constructor and never again
  cPc,       \* where the client thread is
  batch,     \* commands its current call still has to send, current one first
  answer,    \* what its last sendCommand returned
  calls,     \* calls made so far
  toServer,  \* pipe: command bytes and data
  toClient,  \* pipe: status bytes
  sPc,       \* where the server thread is
  sCmd,      \* the command it executes
  sStatus,   \* what the handler returned
  snap,      \* the thread snapshot of the walk in progress or the last one
  left,      \* threads of that snapshot not visited yet
  alive,     \* threads of the AUT
  spent,     \* threads that have existed
  suspends,  \* suspend count of each thread
  lock,      \* owner of the process locks
  patched,   \* functions that are redirected
  recorded,  \* functions in m_intercepts
  dead,      \* the AUT is gone
  before     \* history: suspend counts when the current call began

clientVars == <<mState, cPc, batch, answer, calls, before>>
pipeVars == <<toServer, toClient>>
serverVars == <<sPc, sCmd, sStatus>>
walkVars == <<snap, left>>
threadVars == <<alive, spent, lock>>
interceptVars == <<patched, recorded>>
vars == <<mState, cPc, batch, answer, calls, before, toServer, toClient,
          sPc, sCmd, sStatus, snap, left, alive, spent, lock, suspends,
          patched, recorded, dead>>

Ops == {"intercept", "pause", "resume"}
Command == [op : {"intercept"}, fn : Functions]
             \cup [op : {"pause", "resume"}, fn : {NoFunction}]

ASSUME CommandAssumption == NoCommand \notin Command

Intercept(f) == [op |-> "intercept", fn |-> f]
Pause == [op |-> "pause", fn |-> NoFunction]
Resume == [op |-> "resume", fn |-> NoFunction]

Runs(t) == t \in alive /\ suspends[t] = 0 /\ ~dead

\* A created application has loaded the server in its first thread, which the
\* server's own worker suspended; a running one has been resumed as a whole.
Init ==
  /\ mState \in {"CREATED_SUSPENDED", "RUNNING"}
  /\ cPc = "idle"
  /\ batch = <<>>
  /\ answer = "none"
  /\ calls = 0
  /\ toServer = <<>>
  /\ toClient = <<>>
  /\ sPc = "command"
  /\ sCmd = NoCommand
  /\ sStatus = "none"
  /\ snap = {}
  /\ left = {}
  /\ alive = {Main, Server} \cup Created
  /\ spent = alive
  /\ suspends = [t \in Threads \cup {Server} |->
                   IF t = Main /\ mState = "CREATED_SUSPENDED" THEN 1 ELSE 0]
  /\ lock = Nobody
  /\ patched = {}
  /\ recorded = {}
  /\ dead = FALSE
  /\ before = suspends

-----------------------------------------------------------------------------
(* The calls of the client. *)

StartCall(cmds) ==
  /\ cPc = "idle"
  /\ calls < MaxCalls
  /\ calls' = calls + 1
  /\ batch' = cmds
  /\ cPc' = "next"
  /\ before' = suspends
  /\ UNCHANGED <<mState, answer, pipeVars, serverVars, walkVars, threadVars,
                 suspends, interceptVars, dead>>

\* HeatNGApp::addIntercepts: the intercepts between a pause and a resume.
AddIntercepts(f, g) ==
  /\ {f, g} \cap patched = {}
  /\ f # g
  /\ StartCall(<<Pause, Intercept(f), Intercept(g), Resume>>)

\* HeatNGApp::addIntercept, as CHeatApp::sendIntercepts calls it.
AddIntercept(f) == f \notin patched /\ StartCall(<<Intercept(f)>>)

\* HeatNGApp::runApp resumes the first thread, every time it is called; for a
\* RUNNING application it does nothing.
RunApp ==
  /\ cPc = "idle"
  /\ mState = "CREATED_SUSPENDED"
  /\ calls < MaxCalls
  /\ calls' = calls + 1
  /\ Main \in alive /\ ~dead
  /\ suspends' = [suspends EXCEPT ![Main] = IF @ > 0 THEN @ - 1 ELSE 0]
  /\ UNCHANGED <<mState, cPc, batch, answer, before, pipeVars, serverVars,
                 walkVars, threadVars, interceptVars, dead>>

\* HeatNGApp::pauseApp walks over the threads of the AUT from outside: the
\* server thread is one of them.
PauseApp ==
  /\ cPc = "idle"
  /\ mState = "RUNNING"
  /\ calls < MaxCalls
  /\ ~dead
  /\ calls' = calls + 1
  /\ cPc' = "pausing"
  /\ snap' = alive
  /\ left' = alive
  /\ UNCHANGED <<mState, batch, answer, before, pipeVars, serverVars,
                 threadVars, suspends, interceptVars, dead>>

\* The client process dies, or drops its HeatNGApp.
ClientCrash ==
  /\ cPc # "crashed"
  /\ cPc' = "crashed"
  /\ UNCHANGED <<mState, batch, answer, calls, before, pipeVars, serverVars,
                 walkVars, threadVars, suspends, interceptVars, dead>>

-----------------------------------------------------------------------------
(* CommClient::sendCommand. *)

\* sendCommand returns s: any call gives up at the first FALSE.
Answered(s) ==
  /\ answer' = s
  /\ batch' = IF s = "ok" THEN Tail(batch) ELSE <<>>
  /\ cPc' = IF s = "ok" /\ Len(batch) > 1 THEN "next" ELSE "idle"

SendCommand ==
  /\ cPc = "next"
  /\ cPc' = "cmd"
  /\ UNCHANGED <<mState, batch, answer, calls, before, pipeVars, serverVars,
                 walkVars, threadVars, suspends, interceptVars, dead>>

WriteCommand ==
  /\ cPc = "cmd"
  /\ ~dead
  /\ toServer' = Append(toServer, Head(batch).op)
  /\ cPc' = "data"
  /\ UNCHANGED <<mState, batch, answer, calls, before, toClient, serverVars,
                 walkVars, threadVars, suspends, interceptVars, dead>>

WriteData ==
  /\ cPc = "data"
  /\ ~dead
  /\ toServer' = Append(toServer, Head(batch).fn)
  /\ cPc' = "status"
  /\ UNCHANGED <<mState, batch, answer, calls, before, toClient, serverVars,
                 walkVars, threadVars, suspends, interceptVars, dead>>

WriteFails ==
  /\ cPc \in {"cmd", "data"}
  /\ dead
  /\ Answered("failed")
  /\ UNCHANGED <<mState, calls, before, pipeVars, serverVars, walkVars,
                 threadVars, suspends, interceptVars, dead>>

\* Mutant: the status stays in the pipe.
ReadStatusPeek ==
  /\ cPc = "status"
  /\ toClient # <<>>
  /\ Answered(Head(toClient))
  /\ UNCHANGED <<mState, calls, before, pipeVars, serverVars, walkVars,
                 threadVars, suspends, interceptVars, dead>>

\* Mutant: the status is read but not looked at.
ReadStatusIgnored ==
  /\ cPc = "status"
  /\ toClient # <<>>
  /\ toClient' = Tail(toClient)
  /\ Answered("ok")
  /\ UNCHANGED <<mState, calls, before, toServer, serverVars, walkVars,
                 threadVars, suspends, interceptVars, dead>>

ReadStatus ==
  /\ cPc = "status"
  /\ toClient # <<>>
  /\ toClient' = Tail(toClient)
  /\ Answered(Head(toClient))
  /\ UNCHANGED <<mState, calls, before, toServer, serverVars, walkVars,
                 threadVars, suspends, interceptVars, dead>>

\* The result of readByte is ignored: bErr, never written, decides.
ReadStatusFails ==
  /\ cPc = "status"
  /\ dead
  /\ toClient = <<>>
  /\ \E s \in {"ok", "failed"} : Answered(s)
  /\ UNCHANGED <<mState, calls, before, pipeVars, serverVars, walkVars,
                 threadVars, suspends, interceptVars, dead>>

-----------------------------------------------------------------------------
(* processAllThreadsState, one thread of the snapshot at a time.  A thread    *)
(* that has exited since may still be opened, to no effect, if somebody holds *)
(* a handle to it; otherwise the walk stops where it is.                      *)

\* Mutant: a resumed thread is resumed for good.
VisitToZero(t, suspend) ==
  /\ t \in left
  /\ left' = left \ {t}
  /\ suspends' = [suspends EXCEPT ![t] =
       IF t \notin alive THEN @ ELSE IF suspend THEN @ + 1 ELSE 0]

Visit(t, suspend) ==
  /\ t \in left
  /\ left' = left \ {t}
  /\ suspends' = [suspends EXCEPT ![t] =
       IF t \notin alive THEN @
       ELSE IF suspend THEN @ + 1 ELSE IF @ > 0 THEN @ - 1 ELSE 0]

\* Mutant: the loop ends before the last thread.
WalkedEarly == Cardinality(left) <= 1

Walked == left = {}
WalkFails(t) == t \in left \ alive /\ left' = {}

ClientVisit(t) ==
  /\ cPc = "pausing"
  /\ ~dead
  /\ Visit(t, TRUE)
  /\ UNCHANGED <<clientVars, pipeVars, serverVars, snap, threadVars,
                 interceptVars, dead>>

ClientWalked ==
  /\ cPc = "pausing"
  /\ dead \/ Walked \/ \E t \in left : t \notin alive
  /\ left' = {}
  /\ cPc' = "idle"
  /\ UNCHANGED <<mState, batch, answer, calls, before, pipeVars, serverVars,
                 snap, threadVars, suspends, interceptVars, dead>>

-----------------------------------------------------------------------------
(* CommServer's serverFunction and heatServerHandler, on the server thread.   *)

ServerAt(pc) == sPc = pc /\ suspends[Server] = 0 /\ ~dead

ReadCommand ==
  /\ ServerAt("command")
  /\ toServer # <<>>
  /\ sCmd' = [op |-> Head(toServer), fn |-> NoFunction]
  /\ toServer' = Tail(toServer)
  /\ sPc' = "data"
  /\ UNCHANGED <<clientVars, toClient, sStatus, walkVars, threadVars, suspends,
                 interceptVars, dead>>

\* The client is gone: serverFunction returns, and nobody reconnects the pipe.
ServerExits ==
  /\ ServerAt("command")
  /\ toServer = <<>>
  /\ cPc = "crashed"
  /\ sPc' = "exited"
  /\ alive' = alive \ {Server}
  /\ UNCHANGED <<clientVars, pipeVars, sCmd, sStatus, walkVars, spent, lock,
                 suspends, interceptVars, dead>>

\* The handler begins.  A pause or resume takes its snapshot, less itself.
Dispatch(cmd) ==
  /\ sCmd' = cmd
  /\ IF cmd.op = "intercept"
     THEN sPc' = "resolve" /\ UNCHANGED walkVars
     ELSE /\ sPc' = "walk"
          /\ snap' = alive \ {Server}
          /\ left' = alive \ {Server}

ReadData ==
  /\ ServerAt("data")
  /\ toServer # <<>>
  /\ toServer' = Tail(toServer)
  /\ Dispatch([sCmd EXCEPT !.fn = Head(toServer)])
  /\ UNCHANGED <<clientVars, toClient, sStatus, threadVars, suspends,
                 interceptVars, dead>>

\* The client died between its two writes: readBytes returns -1, which is
\* passed to the handler as a length.  A pause or a resume does not look at it.
ReadDataFails ==
  /\ ServerAt("data")
  /\ toServer = <<>>
  /\ cPc = "crashed"
  /\ sCmd.op # "intercept"
  /\ Dispatch(sCmd)
  /\ UNCHANGED <<clientVars, pipeVars, sStatus, threadVars, suspends,
                 interceptVars, dead>>

\* An intercept whose length is -1 trips readAndIntercept's assertion.
LengthAssertion ==
  /\ ServerAt("data")
  /\ toServer = <<>>
  /\ cPc = "crashed"
  /\ sCmd.op = "intercept"
  /\ dead' = TRUE
  /\ UNCHANGED <<clientVars, pipeVars, serverVars, walkVars, threadVars,
                 suspends, interceptVars>>

Finish(s) == sStatus' = s /\ sPc' = "status"

ServerVisit(t) ==
  /\ ServerAt("walk")
  /\ Visit(t, sCmd.op = "pause")
  /\ UNCHANGED <<clientVars, pipeVars, serverVars, snap, threadVars,
                 interceptVars, dead>>

ServerWalked ==
  /\ ServerAt("walk")
  /\ Walked
  /\ Finish("ok")
  /\ UNCHANGED <<clientVars, pipeVars, sCmd, walkVars, threadVars, suspends,
                 interceptVars, dead>>

\* Mutant: a failed walk writes no status.
ServerWalkFailsSilently(t) ==
  /\ ServerAt("walk")
  /\ WalkFails(t)
  /\ sPc' = "command"
  /\ sCmd' = NoCommand
  /\ UNCHANGED <<clientVars, pipeVars, sStatus, snap, threadVars, suspends,
                 interceptVars, dead>>

ServerWalkFails(t) ==
  /\ ServerAt("walk")
  /\ WalkFails(t)
  /\ Finish("failed")
  /\ UNCHANGED <<clientVars, pipeVars, sCmd, snap, threadVars, suspends,
                 interceptVars, dead>>

\* There is no snapshot to walk over.
SnapshotFails ==
  /\ ServerAt("walk")
  /\ left = snap
  /\ left' = {}
  /\ Finish("failed")
  /\ UNCHANGED <<clientVars, pipeVars, sCmd, snap, threadVars, suspends,
                 interceptVars, dead>>

\* readAndIntercept up to the stubs: modules are loaded, memory is allocated.
\* Either may fail.
Resolve ==
  /\ ServerAt("resolve")
  /\ lock = Nobody
  /\ \/ sPc' = "patch" /\ UNCHANGED sStatus
     \/ Finish("failed")
  /\ UNCHANGED <<clientVars, pipeVars, sCmd, walkVars, threadVars, suspends,
                 interceptVars, dead>>

\* writeRedirection.
Patch ==
  /\ ServerAt("patch")
  /\ patched' = patched \cup {sCmd.fn}
  /\ sPc' = "record"
  /\ UNCHANGED <<clientVars, pipeVars, sCmd, sStatus, walkVars, threadVars,
                 suspends, recorded, dead>>

\* m_intercepts.push_back allocates from the heap.
Record ==
  /\ ServerAt("record")
  /\ lock = Nobody
  /\ recorded' = recorded \cup {sCmd.fn}
  /\ Finish("ok")
  /\ UNCHANGED <<clientVars, pipeVars, sCmd, walkVars, threadVars, suspends,
                 patched, dead>>

\* Mutant: the success byte is written whatever the handler returned.
WriteStatusOk ==
  /\ ServerAt("status")
  /\ toClient' = IF cPc = "crashed" THEN toClient ELSE Append(toClient, "ok")
  /\ sStatus' = "none"
  /\ sCmd' = NoCommand
  /\ sPc' = "command"
  /\ UNCHANGED <<clientVars, toServer, walkVars, threadVars, suspends,
                 interceptVars, dead>>

\* The result of writeByte is ignored: if the client is gone the byte is lost.
WriteStatus ==
  /\ ServerAt("status")
  /\ toClient' = IF cPc = "crashed" THEN toClient ELSE Append(toClient, sStatus)
  /\ sStatus' = "none"
  /\ sCmd' = NoCommand
  /\ sPc' = "command"
  /\ UNCHANGED <<clientVars, toServer, walkVars, threadVars, suspends,
                 interceptVars, dead>>

-----------------------------------------------------------------------------
(* The other threads of the AUT. *)

Acquire(t) ==
  /\ Runs(t)
  /\ lock = Nobody
  /\ lock' = t
  /\ UNCHANGED <<clientVars, pipeVars, serverVars, walkVars, alive, spent,
                 suspends, interceptVars, dead>>

Release(t) ==
  /\ Runs(t)
  /\ lock = t
  /\ lock' = Nobody
  /\ UNCHANGED <<clientVars, pipeVars, serverVars, walkVars, alive, spent,
                 suspends, interceptVars, dead>>

Create(t, u) ==
  /\ Runs(t)
  /\ u \notin spent
  /\ alive' = alive \cup {u}
  /\ spent' = spent \cup {u}
  /\ UNCHANGED <<clientVars, pipeVars, serverVars, walkVars, lock, suspends,
                 interceptVars, dead>>

Exit(t) ==
  /\ Runs(t)
  /\ lock # t
  /\ alive' = alive \ {t}
  /\ UNCHANGED <<clientVars, pipeVars, serverVars, walkVars, spent, lock,
                 suspends, interceptVars, dead>>

\* The AUT is terminated or exits as a whole.
Dies ==
  /\ ~dead
  /\ dead' = TRUE
  /\ UNCHANGED <<clientVars, pipeVars, serverVars, walkVars, threadVars,
                 suspends, interceptVars>>

-----------------------------------------------------------------------------
ClientStep ==
  \/ \E f, g \in Functions : AddIntercepts(f, g)
  \/ \E f \in Functions : AddIntercept(f)
  \/ RunApp
  \/ PauseApp
  \/ ClientCrash
  \/ SendCommand
  \/ WriteCommand
  \/ WriteData
  \/ WriteFails
  \/ ReadStatus
  \/ ReadStatusFails
  \/ \E t \in Threads \cup {Server} : ClientVisit(t)
  \/ ClientWalked

\* What the server thread does without waiting for the process locks.
ServerProceeds ==
  \/ ReadCommand
  \/ ServerExits
  \/ ReadData
  \/ ReadDataFails
  \/ LengthAssertion
  \/ \E t \in Threads : ServerVisit(t) \/ ServerWalkFails(t)
  \/ ServerWalked
  \/ SnapshotFails
  \/ Patch
  \/ WriteStatus

ServerStep == ServerProceeds \/ Resolve \/ Record

AutStep ==
  \/ \E t \in Threads :
       \/ Acquire(t)
       \/ Release(t)
       \/ \E u \in Threads : Create(t, u)
       \/ Exit(t)
  \/ Dies

Next == ClientStep \/ ServerStep \/ AutStep

Spec == Init /\ [][Next]_vars

(***************************************************************************)
(* The client is inside a synchronous call and goes on; a thread that is not *)
(* suspended runs on, so it leaves its critical sections; the kernel hands   *)
(* the process locks to the server thread sooner or later when they are      *)
(* free again and again.  Nobody has to start a call, to crash, to create a  *)
(* thread or to exit.                                                        *)
(***************************************************************************)
Fairness ==
  /\ WF_vars(SendCommand \/ WriteCommand \/ WriteData \/ WriteFails
               \/ ReadStatus \/ ReadStatusFails)
  /\ WF_vars(ServerProceeds)
  /\ SF_vars(Resolve)
  /\ SF_vars(Record)
  /\ \A t \in Threads : WF_vars(Release(t))

FairSpec == Spec /\ Fairness

-----------------------------------------------------------------------------
(* Properties. *)

(* Every variable keeps the type its declaration gives it, and the pipe never *)
(* holds more than one command or one status: client and server take turns.   *)
TypeOK ==
  /\ mState \in {"CREATED_SUSPENDED", "RUNNING"}
  /\ cPc \in {"idle", "next", "cmd", "data", "status", "pausing", "crashed"}
  /\ batch \in Seq(Command)
  /\ answer \in {"none", "ok", "failed"}
  /\ calls \in 0..MaxCalls
  /\ toServer \in Seq(Ops \cup Functions \cup {NoFunction}) /\ Len(toServer) <= 2
  /\ toClient \in Seq({"ok", "failed"}) /\ Len(toClient) <= 1
  /\ sPc \in {"command", "data", "walk", "resolve", "patch", "record",
              "status", "exited"}
  /\ sCmd \in [op : Ops, fn : Functions \cup {NoFunction}] \cup {NoCommand}
  /\ sStatus \in {"none", "ok", "failed"}
  /\ snap \subseteq Threads \cup {Server}
  /\ left \subseteq snap
  /\ alive \subseteq spent /\ spent \subseteq Threads \cup {Server}
  /\ suspends \in [Threads \cup {Server} -> Nat]
  /\ lock \in Threads \cup {Nobody}
  /\ patched \subseteq Functions
  /\ recorded \subseteq patched
  /\ dead \in BOOLEAN
  /\ before \in [Threads \cup {Server} -> Nat]

\* The current call is an addIntercepts whose pause has been answered TRUE.
Bracketed == batch # <<>> /\ Head(batch).op = "intercept" /\ batch[Len(batch)] = Resume

(* addIntercepts: while the server installs one of its intercepts, every      *)
(* thread the pause found in its snapshot is suspended or gone.  Threads      *)
(* created behind the snapshot do run (processAllThreadsState takes one       *)
(* snapshot and does not look again).                                         *)
PausedWhileInstalling ==
  (sPc \in {"resolve", "patch", "record"} /\ Bracketed)
  => \A t \in snap \cap alive : suspends[t] > 0

(* An addIntercepts that returns TRUE leaves every thread that still exists    *)
(* with the suspend count it had before the call: threads that exit or appear  *)
(* between the two snapshots do not unbalance pause and resume.                *)
BatchRestores ==
  [][(/\ cPc = "status"
      /\ cPc' = "idle"
      /\ answer' = "ok"
      /\ Head(batch) = Resume
      /\ ~dead)
     => \A t \in alive \cap Threads : suspends[t] = before[t]]_vars

(* As long as the AUT lives, the answer to an intercept command tells what     *)
(* happened: TRUE if the function is redirected and recorded, FALSE if neither. *)
AnswerMatchesEffect ==
  [][(/\ cPc = "status"
      /\ cPc' \in {"idle", "next"}
      /\ Head(batch).op = "intercept"
      /\ ~dead)
     => /\ (answer' = "ok") <=> (Head(batch).fn \in recorded)
        /\ (answer' = "ok") <=> (Head(batch).fn \in patched)]_vars

(* sendCommand returns TRUE only for a command whose status byte said so       *)
(* (CommClient.h, "read back command execution status").  Not when the AUT     *)
(* dies before: readByte's result is ignored (no run checks this).             *)
AnswerIsStatus ==
  [][(cPc = "status" /\ cPc' \in {"idle", "next"} /\ answer' = "ok")
     => (toClient # <<>> /\ Head(toClient) = "ok")]_vars

\* The server thread cannot go on by itself: it was suspended with the others,
\* or it needs the process locks and a suspended thread owns them.
Wedged ==
  \/ suspends[Server] > 0
  \/ /\ sPc \in {"resolve", "record"}
     /\ lock \in Threads
     /\ suspends[lock] > 0

(* A client never waits for ever, unless the server thread is stuck for ever   *)
(* behind a suspended thread or suspended itself.                              *)
AnswersOrWedged == []<>(cPc # "status") \/ <>[]Wedged

Connected == ~dead /\ cPc # "crashed"

(* Pipe, server loop and handler together are a remote call: one command at a  *)
(* time, executed at most once, answered with its own status.                  *)
RC == INSTANCE RemoteCall WITH
        Commands <- Command,
        pending <- IF cPc \in {"cmd", "data", "status"} THEN Head(batch)
                   ELSE NoCommand,
        outcome <- IF ~Connected THEN "none"
                   ELSE IF sPc = "status" THEN sStatus
                   ELSE IF toClient # <<>> THEN Head(toClient)
                   ELSE "none",
        connected <- Connected

IsRemoteCall == RC!Spec
=============================================================================
