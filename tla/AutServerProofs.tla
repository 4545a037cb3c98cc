-------------------------- MODULE AutServerProofs --------------------------
(***************************************************************************)
(* Proofs about AutServer, for any threads, functions and number of calls.   *)
(***************************************************************************)
EXTENDS AutServer, SequenceTheorems, TLAPS

(***************************************************************************)
(* The pipe.  As long as the AUT lives, client and server take turns over    *)
(* one command, the first of the batch.                                      *)
(***************************************************************************)

\* Nothing is in the pipe and the server waits.
Quiet == toServer = <<>> /\ toClient = <<>> /\ sPc = "command" /\ sCmd = NoCommand

OnlyOp(c) == [op |-> c.op, fn |-> NoFunction]

\* The command byte of c has been written.
Begun(c) ==
  /\ toClient = <<>>
  /\ \/ toServer = <<c.op>> /\ sPc = "command" /\ sCmd = NoCommand
     \/ toServer = <<>> /\ sPc = "data" /\ sCmd = OnlyOp(c)

\* So have its data.
Asked(c) ==
  /\ toClient = <<>>
  /\ \/ toServer = <<c.op, c.fn>> /\ sPc = "command" /\ sCmd = NoCommand
     \/ toServer = <<c.fn>> /\ sPc = "data" /\ sCmd = OnlyOp(c)

Installing == {"resolve", "patch", "record"}

\* The handler is at work on c, or has just returned.
Executing(c) ==
  /\ toServer = <<>> /\ toClient = <<>> /\ sCmd = c
  /\ sPc \in (IF c.op = "intercept" THEN Installing ELSE {"walk"}) \cup {"status"}

Replied ==
  /\ toServer = <<>> /\ sPc = "command" /\ sCmd = NoCommand
  /\ toClient \in {<<"ok">>, <<"failed">>}

Current == Head(batch)

Turns ==
  ~dead =>
    /\ cPc \in {"idle", "next", "cmd", "pausing"} => Quiet
    /\ cPc = "data" => Begun(Current)
    /\ cPc = "status" => Asked(Current) \/ Executing(Current) \/ Replied
    /\ cPc = "crashed" =>
         \/ Quiet
         \/ Replied
         \/ sPc = "exited" /\ toServer = <<>>
         \/ batch # <<>> /\ (Begun(Current) \/ Asked(Current) \/ Executing(Current))

\* The commands a call has still to send: a pause comes first, a resume last,
\* and no function comes twice.
Ordered(b) ==
  /\ b \in Seq(Command)
  /\ \A i \in 1..Len(b) :
       /\ b[i].op = "resume" => i = Len(b)
       /\ b[i].op = "pause" => i = 1 /\ Len(b) > 1
  /\ Len(b) > 1 => b[Len(b)] = Resume
  /\ \A i, j \in 1..Len(b) :
       (b[i].op = "intercept" /\ b[i] = b[j]) => i = j

Batches ==
  /\ Ordered(batch)
  /\ cPc \in {"next", "cmd", "data", "status"} => batch # <<>>
  /\ cPc \in {"idle", "pausing"} => batch = <<>>

PipeInv ==
  /\ TypeOK
  /\ Turns
  /\ Batches
  /\ (sPc = "status") <=> (sStatus # "none")
  /\ sPc = "record" => sCmd.fn \in patched

-----------------------------------------------------------------------------
(* What has been installed, while client and AUT live. *)

\* The first command's function, until the server gets to it and afterwards.
Told(s, f) == (s = "ok" <=> f \in patched) /\ (s = "ok" <=> f \in recorded)

Working == cPc = "status" /\ sCmd = Current

Effect(f) ==
  /\ cPc \in {"next", "cmd", "data"} => f \notin patched
  /\ (cPc = "status" /\ Asked(Current)) => f \notin patched
  /\ (Working /\ sPc \in {"resolve", "patch"}) => f \notin patched
  /\ (Working /\ sPc = "record") => f \in patched \ recorded
  /\ (Working /\ sPc = "status") => Told(sStatus, f)
  /\ (cPc = "status" /\ Replied) => Told(Head(toClient), f)

EffectInv ==
  Connected =>
    /\ (batch # <<>> /\ Current.op = "intercept") => Effect(Current.fn)
    /\ \A i \in 2..Len(batch) : batch[i].op = "intercept" => batch[i].fn \notin patched

-----------------------------------------------------------------------------
(* Suspend counts. *)

PausedAmong(S) == \A t \in S \cap alive : suspends[t] > 0

\* The client's pause has been executed.
PauseDone ==
  \/ sPc = "status" /\ sCmd = Pause /\ sStatus = "ok"
  \/ cPc = "status" /\ Current = Pause /\ toClient = <<"ok">>

PausedInv ==
  /\ snap \subseteq spent
  /\ (Bracketed /\ (~dead \/ sPc \in Installing)) => PausedAmong(snap)
  /\ (~dead /\ sPc = "walk" /\ sCmd = Pause) => PausedAmong(snap \ left)
  /\ (~dead /\ PauseDone) => PausedAmong(snap)
  /\ (cPc = "status" /\ Current.op = "pause") => sPc \notin Installing

Own == alive \cap Threads

\* A thread has its count from before the call, and one more if it is paused;
\* one that was created since has none.
Before(t) == suspends[t] = before[t]
Over(t) == suspends[t] = before[t] + 1
New(t) == suspends[t] = 0 /\ before[t] = 0

\* Before the pause and after the resume; from the pause's walk to the resume's;
\* in the resume's walk.
Even == \A t \in Own : Before(t)
Half(visited) ==
  \A t \in Own :
    /\ t \in visited => Over(t)
    /\ t \in snap \ visited => Before(t)
    /\ t \notin snap => New(t)
Back == \A t \in Own : IF t \in left THEN Over(t) \/ New(t) ELSE Before(t)

InBatch == batch # <<>> /\ batch[Len(batch)] = Resume

\* How far the first command is.
Waiting == cPc \in {"next", "cmd", "data"} \/ (cPc = "status" /\ Asked(Current))
Walking == Working /\ sPc = "walk"
Succeeded ==
  \/ Working /\ sPc = "status" /\ sStatus = "ok"
  \/ cPc = "status" /\ toClient = <<"ok">>

Balance ==
  /\ Current = Pause =>
       (Waiting => Even) /\ (Walking => Half(snap \ left)) /\ (Succeeded => Half(snap))
  /\ Current.op = "intercept" => Half(snap)
  /\ Current = Resume =>
       (Waiting => Half(snap)) /\ (Walking => Back) /\ (Succeeded => Even)

\* Threads that do not exist yet have no count.
Fresh == \A t \in Threads \ spent : suspends[t] = 0

BalanceInv ==
  /\ Fresh
  /\ (Connected /\ InBatch) => (\A t \in Threads \ spent : before[t] = 0) /\ Balance

-----------------------------------------------------------------------------
(* Sequences and records as the pipe and the batches use them. *)

\* One or two items in a pipe, and none.
LEMMA PipeItems ==
  ASSUME NEW x, NEW y
  PROVE  /\ <<x>> # <<>> /\ <<x, y>> # <<>> /\ <<x>> # <<x, y>>
         /\ Len(<<>>) = 0 /\ Len(<<x>>) = 1 /\ Len(<<x, y>>) = 2
         /\ Head(<<x>>) = x /\ Head(<<x, y>>) = x
         /\ Tail(<<x>>) = <<>> /\ Tail(<<x, y>>) = <<y>>
         /\ Append(<<>>, x) = <<x>> /\ Append(<<x>>, y) = <<x, y>>
<1>1. <<x>> # <<>> /\ <<x, y>> # <<>> /\ <<x>> # <<x, y>>
  OBVIOUS
<1>2. /\ Len(<<>>) = 0 /\ Len(<<x>>) = 1 /\ Len(<<x, y>>) = 2
      /\ Head(<<x>>) = x /\ Head(<<x, y>>) = x
  OBVIOUS
<1>3. Tail(<<x>>) = <<>>
  OBVIOUS
<1>4. Tail(<<x, y>>) = <<y>>
  OBVIOUS
<1>5. Append(<<>>, x) = <<x>>
  OBVIOUS
<1>6. Append(<<x>>, y) = <<x, y>>
  <2> DEFINE a == Append(<<x>>, y)
             b == <<x, y>>
  <2>1. a \in Seq({x, y}) /\ Len(a) = 2 /\ a[1] = x /\ a[2] = y
    OBVIOUS
  <2>2. b \in Seq({x, y}) /\ Len(b) = 2 /\ b[1] = x /\ b[2] = y
    OBVIOUS
  <2>. HIDE DEF a, b
  <2>3. \A i \in 1..2 : i = 1 \/ i = 2
    OBVIOUS
  <2>4. \A i \in 1..Len(a) : a[i] = b[i]
    BY <2>1, <2>2, <2>3
  <2>5. a = b
    BY <2>1, <2>2, <2>4, SeqEqual
  <2>. QED BY <2>5 DEF a, b
<1>. QED BY <1>1, <1>2, <1>3, <1>4, <1>5, <1>6

\* The commands, and how the server puts one together again.
LEMMA Commands ==
  ASSUME NEW c \in Command
  PROVE  /\ c.op \in Ops /\ c.fn \in Functions \cup {NoFunction}
         /\ c = [op |-> c.op, fn |-> c.fn]
         /\ c \in [op : Ops, fn : Functions \cup {NoFunction}]
         /\ c.op = "intercept" => c.fn \in Functions
         /\ c.op # "intercept" => OnlyOp(c) = c
         /\ OnlyOp(c) \in [op : Ops, fn : Functions \cup {NoFunction}]
         /\ OnlyOp(c).op = c.op
         /\ [OnlyOp(c) EXCEPT !.fn = c.fn] = c
         /\ c # NoCommand
<1>1. c \in [op : {"intercept"}, fn : Functions] \/ c \in [op : {"pause", "resume"}, fn : {NoFunction}]
  BY DEF Command
<1>2. /\ c.op \in Ops /\ c.fn \in Functions \cup {NoFunction}
      /\ c = [op |-> c.op, fn |-> c.fn]
      /\ c.op = "intercept" => c.fn \in Functions
      /\ c.op # "intercept" => c.fn = NoFunction
  BY <1>1 DEF Ops
<1>3. OnlyOp(c) = [op |-> c.op, fn |-> NoFunction]
  BY DEF OnlyOp
<1>4. c.op # "intercept" => OnlyOp(c) = c
  BY <1>2, <1>3
<1>5. /\ OnlyOp(c) \in [op : Ops, fn : Functions \cup {NoFunction}]
      /\ OnlyOp(c).op = c.op
  BY <1>2, <1>3
<1>6. [[op |-> c.op, fn |-> NoFunction] EXCEPT !.fn = c.fn] = [op |-> c.op, fn |-> c.fn]
  OBVIOUS
<1>7. [OnlyOp(c) EXCEPT !.fn = c.fn] = c
  BY <1>2, <1>6 DEF OnlyOp
<1>8. c # NoCommand
  BY CommandAssumption
<1>. QED BY <1>2, <1>4, <1>5, <1>7, <1>8

\* Without its first command a batch has the rest, in order.
LEMMA TailOrdered ==
  ASSUME NEW b, Ordered(b), b # <<>>
  PROVE  /\ Head(b) = b[1] /\ Head(b) \in Command
         /\ Tail(b) \in Seq(Command) /\ Len(b) \in Nat \ {0} /\ Len(Tail(b)) = Len(b) - 1
         /\ \A i \in 1..Len(Tail(b)) : Tail(b)[i] = b[i + 1]
         /\ Tail(b) # <<>> <=> Len(b) > 1
         /\ Ordered(Tail(b))
<1>1. b \in Seq(Command)
  BY DEF Ordered
<1>2. /\ Head(b) = b[1] /\ Head(b) \in Command
      /\ Tail(b) \in Seq(Command) /\ Len(b) \in Nat \ {0} /\ Len(Tail(b)) = Len(b) - 1
      /\ \A i \in 1..Len(Tail(b)) : Tail(b)[i] = b[i + 1]
  BY <1>1
<1>3. Tail(b) # <<>> <=> Len(b) > 1
  BY <1>2
<1> DEFINE n == Len(b)
<1>4. n \in Nat \ {0} /\ Len(Tail(b)) = n - 1
  BY <1>2
<1>5. \A i \in 1..(n - 1) : i + 1 \in 1..n /\ Tail(b)[i] = b[i + 1]
  BY <1>2
<1>6. /\ \A i \in 1..n : /\ b[i].op = "resume" => i = n
                         /\ b[i].op = "pause" => i = 1 /\ n > 1
      /\ n > 1 => b[n] = Resume
      /\ \A i, j \in 1..n : (b[i].op = "intercept" /\ b[i] = b[j]) => i = j
  BY DEF Ordered
<1> HIDE DEF n
<1>7. \A i \in 1..(n - 1) :
        /\ Tail(b)[i].op = "resume" => i = n - 1
        /\ Tail(b)[i].op = "pause" => i = 1 /\ n - 1 > 1
  <2>1. TAKE i \in 1..(n - 1)
  <2>2. Tail(b)[i] = b[i + 1] /\ i + 1 \in 1..n
    BY <1>5
  <2>. QED BY <1>4, <1>6, <2>2
<1>8. n - 1 > 1 => Tail(b)[n - 1] = Resume
  BY <1>4, <1>5, <1>6
<1>9. \A i, j \in 1..(n - 1) : (Tail(b)[i].op = "intercept" /\ Tail(b)[i] = Tail(b)[j]) => i = j
  BY <1>4, <1>5, <1>6
<1>. QED BY <1>2, <1>3, <1>4, <1>7, <1>8, <1>9 DEF Ordered, n

\* The batches that calls begin with.
LEMMA CallOrdered ==
  ASSUME NEW f \in Functions, NEW g \in Functions
  PROVE  /\ Ordered(<<>>)
         /\ Ordered(<<Intercept(f)>>)
         /\ f # g => Ordered(<<Pause, Intercept(f), Intercept(g), Resume>>)
<1> DEFINE c == Intercept(f)
           d == Intercept(g)
<1>1. /\ c \in Command /\ c.op = "intercept" /\ d \in Command /\ d.op = "intercept"
      /\ Pause \in Command /\ Pause.op = "pause"
      /\ Resume \in Command /\ Resume.op = "resume"
      /\ f # g => c # d
  BY DEF Command, Intercept, Pause, Resume
<1>. HIDE DEF c, d
<1>2. Ordered(<<>>)
  BY DEF Ordered
<1>3. Ordered(<<c>>)
  BY <1>1 DEF Ordered
<1>4. ASSUME c # d
      PROVE  Ordered(<<Pause, c, d, Resume>>)
  <2> DEFINE b == <<Pause, c, d, Resume>>
  <2>1. b \in Seq(Command) /\ Len(b) = 4
    BY <1>1
  <2>2. b[1] = Pause /\ b[2] = c /\ b[3] = d /\ b[4] = Resume
    OBVIOUS
  <2>. HIDE DEF b
  <2>3. \A i \in 1..4 : i = 1 \/ i = 2 \/ i = 3 \/ i = 4
    OBVIOUS
  <2>4. \A i \in 1..4 : /\ b[i].op = "resume" => i = 4
                        /\ b[i].op = "pause" => i = 1
    BY <1>1, <2>2, <2>3
  <2>5. \A i, j \in 1..4 : (b[i].op = "intercept" /\ b[i] = b[j]) => i = j
    BY <1>1, <1>4, <2>2, <2>3
  <2>6. Ordered(b)
    BY <2>1, <2>2, <2>4, <2>5 DEF Ordered
  <2>. QED BY <2>6 DEF b
<1>. QED BY <1>1, <1>2, <1>3, <1>4 DEF c, d

-----------------------------------------------------------------------------
(* Client and server take turns. *)

\* Any command in a batch that is not empty is a command, so its first one is.
LEMMA CurrentIsCommand ==
  ASSUME PipeInv, batch # <<>>
  PROVE  Current \in Command
BY TailOrdered DEF PipeInv, Batches, Current

\* What a server thread that waits for a command finds in the pipe.
LEMMA AtCommand ==
  ASSUME PipeInv, ServerAt("command"), toServer # <<>>
  PROVE  /\ batch # <<>> /\ Current \in Command
         /\ toClient = <<>> /\ sCmd = NoCommand
         /\ \/ cPc \in {"data", "crashed"} /\ toServer = <<Current.op>>
            \/ cPc \in {"status", "crashed"} /\ toServer = <<Current.op, Current.fn>>
<1>1. Turns /\ Batches /\ ~dead /\ sPc = "command" /\ TypeOK
  BY DEF PipeInv, ServerAt
<1>2. cPc \in {"data", "status", "crashed"}
  BY <1>1 DEF Turns, Quiet, TypeOK
<1>3. batch # <<>>
  BY <1>1, <1>2 DEF Turns, Batches, Quiet, Replied
<1>4. Current \in Command
  BY <1>3, CurrentIsCommand
<1>5. CASE cPc = "data"
  BY <1>1, <1>3, <1>4, <1>5 DEF Turns, Begun
<1>6. CASE cPc = "status"
  <2>1. Asked(Current)
    BY <1>1, <1>6 DEF Turns, Executing, Replied
  <2>. QED BY <1>1, <1>3, <1>4, <1>6, <2>1 DEF Asked
<1>7. CASE cPc = "crashed"
  <2>1. Begun(Current) \/ Asked(Current)
    BY <1>1, <1>7 DEF Turns, Quiet, Executing, Replied, Installing
  <2>. QED BY <1>1, <1>3, <1>4, <1>7, <2>1 DEF Asked, Begun
<1>. QED BY <1>2, <1>5, <1>6, <1>7

\* What it finds once it has the command byte.
LEMMA AtData ==
  ASSUME PipeInv, ServerAt("data")
  PROVE  /\ batch # <<>> /\ Current \in Command
         /\ toClient = <<>> /\ sCmd = OnlyOp(Current)
         /\ \/ cPc \in {"data", "crashed"} /\ toServer = <<>>
            \/ cPc \in {"status", "crashed"} /\ toServer = <<Current.fn>>
<1>1. Turns /\ Batches /\ ~dead /\ sPc = "data" /\ TypeOK
  BY DEF PipeInv, ServerAt
<1>2. cPc \in {"data", "status", "crashed"}
  BY <1>1 DEF Turns, Quiet, TypeOK
<1>3. batch # <<>>
  BY <1>1, <1>2 DEF Turns, Batches, Quiet, Replied
<1>4. Current \in Command
  BY <1>3, CurrentIsCommand
<1>5. CASE cPc = "data"
  BY <1>1, <1>3, <1>4, <1>5 DEF Turns, Begun
<1>6. CASE cPc = "status"
  <2>1. Asked(Current)
    BY <1>1, <1>6 DEF Turns, Executing, Replied, Installing
  <2>. QED BY <1>1, <1>3, <1>4, <1>6, <2>1 DEF Asked
<1>7. CASE cPc = "crashed"
  <2>1. Begun(Current) \/ Asked(Current)
    BY <1>1, <1>7 DEF Turns, Quiet, Executing, Replied, Installing
  <2>. QED BY <1>1, <1>3, <1>4, <1>7, <2>1 DEF Asked, Begun
<1>. QED BY <1>2, <1>5, <1>6, <1>7

AtWork == {"walk", "resolve", "patch", "record", "status"}

\* The handler works on the current command, and the client waits or is gone.
LEMMA InHandler ==
  ASSUME PipeInv, ~dead, sPc \in AtWork
  PROVE  /\ batch # <<>> /\ Current \in Command
         /\ Executing(Current)
         /\ cPc \in {"status", "crashed"}
<1>1. Turns /\ Batches /\ TypeOK
  BY DEF PipeInv
<1>2. cPc \in {"status", "crashed"}
  BY <1>1 DEF Turns, Quiet, TypeOK, AtWork, Begun
<1>3. Executing(Current) /\ batch # <<>>
  BY <1>1, <1>2 DEF Turns, Batches, Quiet, Replied, Begun, Asked, AtWork
<1>. QED BY <1>2, <1>3, CurrentIsCommand

\* Initially client and server wait for each other.
LEMMA PipeInit == Init => PipeInv
<1> SUFFICES ASSUME Init PROVE PipeInv
  OBVIOUS
<1> USE DEF Init
<1>1. TypeOK
  <2>1. suspends \in [Threads \cup {Server} -> Nat] /\ before \in [Threads \cup {Server} -> Nat]
    OBVIOUS
  <2>2. /\ toServer \in Seq(Ops \cup Functions \cup {NoFunction}) /\ Len(toServer) <= 2
        /\ toClient \in Seq({"ok", "failed"}) /\ Len(toClient) <= 1
        /\ batch \in Seq(Command)
    OBVIOUS
  <2>3. alive \subseteq spent /\ spent \subseteq Threads \cup {Server}
    BY ConstAssumption
  <2>4. /\ snap \subseteq Threads \cup {Server} /\ left \subseteq snap
        /\ patched \subseteq Functions /\ recorded \subseteq patched
        /\ lock \in Threads \cup {Nobody} /\ calls \in 0..MaxCalls
    BY ConstAssumption
  <2>5. /\ mState \in {"CREATED_SUSPENDED", "RUNNING"}
        /\ cPc \in {"idle", "next", "cmd", "data", "status", "pausing", "crashed"}
        /\ answer \in {"none", "ok", "failed"}
        /\ sPc \in {"command", "data", "walk", "resolve", "patch", "record", "status", "exited"}
        /\ sCmd \in [op : Ops, fn : Functions \cup {NoFunction}] \cup {NoCommand}
        /\ sStatus \in {"none", "ok", "failed"} /\ dead \in BOOLEAN
    OBVIOUS
  <2>. HIDE DEF Init
  <2>. QED BY <2>1, <2>2, <2>3, <2>4, <2>5 DEF TypeOK
<1>2. Turns
  BY DEF Turns, Quiet
<1>3. Batches
  BY CallOrdered, TailOrdered DEF Batches, Ordered
<1>. QED BY <1>1, <1>2, <1>3 DEF PipeInv

\* The start of a call.
LEMMA PipeStartCall ==
  ASSUME PipeInv, NEW cmds, Ordered(cmds), cmds # <<>>, StartCall(cmds)
  PROVE  PipeInv'
<1> USE DEF StartCall, clientVars, pipeVars, serverVars, walkVars, threadVars, interceptVars
<1>1. /\ TypeOK /\ Turns /\ Batches /\ ((sPc = "status") <=> (sStatus # "none"))
      /\ sPc = "record" => sCmd.fn \in patched
  BY DEF PipeInv
<1>2. TypeOK'
  BY <1>1, ConstAssumption, SMTT(30) DEF TypeOK, Ordered
<1>3. Turns'
  BY <1>1 DEF Turns, Quiet
<1>4. Batches'
  BY <1>1 DEF Batches
<1>. QED BY <1>1, <1>2, <1>3, <1>4 DEF PipeInv

\* Steps that touch neither the pipe nor the server's handler.
Aside == UNCHANGED <<batch, pipeVars, serverVars>> /\ dead' \in {dead, TRUE}

\* Client and server still take turns after such a step.
LEMMA TurnsAside ==
  ASSUME TypeOK, Turns, Aside,
         \/ cPc' = cPc
         \/ {cPc, cPc'} \subseteq {"idle", "next", "cmd", "pausing"}
         \/ cPc' = "crashed" /\ (cPc \notin {"data", "status"} \/ batch # <<>>)
  PROVE  Turns'
<1> USE DEF Aside, pipeVars, serverVars
<1>1. /\ Quiet' = Quiet /\ Replied' = Replied /\ Current' = Current
      /\ Begun(Current)' = Begun(Current) /\ Asked(Current)' = Asked(Current)
      /\ Executing(Current)' = Executing(Current)
  BY DEF Quiet, Replied, Current, Begun, Asked, Executing
<1>2. CASE cPc' = cPc
  BY <1>1, <1>2 DEF Turns
<1>3. CASE {cPc, cPc'} \subseteq {"idle", "next", "cmd", "pausing"}
  BY <1>1, <1>3 DEF Turns
<1>4. CASE cPc' = "crashed" /\ (cPc \notin {"data", "status"} \/ batch # <<>>)
  BY <1>1, <1>4 DEF Turns, TypeOK
<1>. QED BY <1>2, <1>3, <1>4

\* The steps of the client, and PipeInv.
LEMMA PipeClient ==
  ASSUME PipeInv, ClientStep
  PROVE  PipeInv'
<1> USE DEF clientVars, pipeVars, serverVars, walkVars, threadVars, interceptVars
<1>1. /\ TypeOK /\ Turns /\ Batches /\ ((sPc = "status") <=> (sStatus # "none"))
      /\ sPc = "record" => sCmd.fn \in patched
  BY DEF PipeInv
<1>2. ASSUME NEW f \in Functions, NEW g \in Functions, AddIntercepts(f, g)
      PROVE  PipeInv'
  BY <1>2, CallOrdered, PipeStartCall DEF AddIntercepts
<1>3. ASSUME NEW f \in Functions, AddIntercept(f)
      PROVE  PipeInv'
  BY <1>3, CallOrdered, PipeStartCall DEF AddIntercept
<1>4. CASE RunApp
  <2>1. TypeOK'
    BY <1>1, <1>4, ConstAssumption DEF RunApp, TypeOK
  <2>2. Turns' /\ Batches'
    BY <1>1, <1>4, TurnsAside DEF RunApp, Aside, Batches
  <2>. QED BY <1>1, <1>4, <2>1, <2>2 DEF RunApp, PipeInv
<1>5. CASE PauseApp
  <2>1. TypeOK'
    BY <1>1, <1>5, ConstAssumption DEF PauseApp, TypeOK
  <2>2. Turns'
    BY <1>1, <1>5, TurnsAside DEF PauseApp, Aside
  <2>. QED BY <1>1, <1>5, <2>1, <2>2 DEF PauseApp, PipeInv, Batches
<1>6. CASE ClientCrash
  <2>1. TypeOK'
    BY <1>1, <1>6 DEF ClientCrash, TypeOK
  <2>2. Turns'
    BY <1>1, <1>6, TurnsAside DEF ClientCrash, Aside, Batches
  <2>. QED BY <1>1, <1>6, <2>1, <2>2 DEF ClientCrash, PipeInv, Batches
<1>7. CASE SendCommand
  <2>1. TypeOK'
    BY <1>1, <1>7 DEF SendCommand, TypeOK
  <2>2. Turns'
    BY <1>1, <1>7, TurnsAside DEF SendCommand, Aside
  <2>. QED BY <1>1, <1>7, <2>1, <2>2 DEF SendCommand, PipeInv, Batches
<1>8. CASE WriteCommand
  <2>1. batch # <<>> /\ Current \in Command /\ Quiet /\ toServer' = <<Current.op>>
    BY <1>1, <1>8, CurrentIsCommand, PipeItems DEF WriteCommand, Batches, Turns, Quiet, Current
  <2>2. TypeOK'
    <3>1. <<Current.op>> \in Seq(Ops \cup Functions \cup {NoFunction})
      BY <2>1, Commands
    <3>. QED BY <1>1, <1>8, <2>1, <3>1, PipeItems DEF WriteCommand, TypeOK
  <2>3. Turns'
    BY <1>8, <2>1 DEF WriteCommand, Turns, Quiet, Begun, Current
  <2>. QED BY <1>1, <1>8, <2>2, <2>3 DEF WriteCommand, PipeInv, Batches
<1>9. CASE WriteData
  <2>1. batch # <<>> /\ Current \in Command /\ Begun(Current)
    BY <1>1, <1>9, CurrentIsCommand DEF WriteData, Batches, Turns
  <2>2. toServer' = <<Current.op, Current.fn>> \/ toServer' = <<Current.fn>>
    BY <1>9, <2>1, PipeItems, ZenonT(30) DEF WriteData, Begun, Current
  <2>3. TypeOK'
    <3>1. /\ <<Current.op, Current.fn>> \in Seq(Ops \cup Functions \cup {NoFunction})
          /\ <<Current.fn>> \in Seq(Ops \cup Functions \cup {NoFunction})
          /\ Len(<<Current.op, Current.fn>>) = 2 /\ Len(<<Current.fn>>) = 1
      BY <2>1, Commands
    <3>2. toServer' \in Seq(Ops \cup Functions \cup {NoFunction}) /\ Len(toServer') <= 2
      <4>1. CASE toServer' = <<Current.op, Current.fn>>
        BY <3>1, <4>1
      <4>2. CASE toServer' = <<Current.fn>>
        BY <3>1, <4>2
      <4>. QED BY <2>2, <4>1, <4>2
    <3>. QED BY <1>1, <1>9, <3>2 DEF WriteData, TypeOK
  <2>4. Asked(Current)'
    <3>1. CASE toServer = <<Current.op>> /\ sPc = "command" /\ sCmd = NoCommand
      BY <1>9, <2>1, <3>1, PipeItems DEF WriteData, Begun, Asked, Current
    <3>2. CASE toServer = <<>> /\ sPc = "data" /\ sCmd = OnlyOp(Current)
      BY <1>9, <2>1, <3>2, PipeItems DEF WriteData, Begun, Asked, Current
    <3>. QED BY <2>1, <3>1, <3>2 DEF Begun
  <2>5. Turns'
    BY <1>9, <2>4 DEF WriteData, Turns
  <2>. QED BY <1>1, <1>9, <2>3, <2>5 DEF WriteData, PipeInv, Batches
<1>10. ASSUME NEW r \in {"ok", "failed"}, Answered(r), batch # <<>>
       PROVE  /\ batch' \in Seq(Command) /\ Batches'
              /\ cPc' \in {"next", "idle"} /\ answer' \in {"ok", "failed"}
  BY <1>1, <1>10, CallOrdered, TailOrdered DEF Answered, Batches, Ordered
<1>11. CASE WriteFails
  <2>1. Answered("failed") /\ dead' /\ batch # <<>>
    BY <1>1, <1>11 DEF WriteFails, Batches
  <2>2. TypeOK'
    BY <1>1, <1>10, <1>11, <2>1 DEF WriteFails, TypeOK
  <2>. QED BY <1>1, <1>10, <1>11, <2>1, <2>2 DEF WriteFails, PipeInv, Turns
<1>12. CASE ReadStatusFails
  <2>1. PICK r \in {"ok", "failed"} : Answered(r)
    BY <1>12 DEF ReadStatusFails
  <2>2. dead' /\ batch # <<>>
    BY <1>1, <1>12 DEF ReadStatusFails, Batches
  <2>3. TypeOK'
    BY <1>1, <1>10, <1>12, <2>1, <2>2 DEF ReadStatusFails, TypeOK
  <2>. QED BY <1>1, <1>10, <1>12, <2>1, <2>2, <2>3 DEF ReadStatusFails, PipeInv, Turns
<1>13. CASE ReadStatus
  <2>1. /\ toClient \in Seq({"ok", "failed"}) /\ toClient # <<>> /\ Len(toClient) <= 1
        /\ batch # <<>>
    BY <1>1, <1>13 DEF ReadStatus, TypeOK, Batches
  <2>2. /\ Head(toClient) \in {"ok", "failed"}
        /\ toClient' = <<>>
    BY <1>13, <2>1 DEF ReadStatus
  <2>3. Answered(Head(toClient))
    BY <1>13 DEF ReadStatus
  <2>4. TypeOK'
    BY <1>1, <1>10, <1>13, <2>1, <2>2, <2>3 DEF ReadStatus, TypeOK
  <2>5. Turns'
    <3>1. CASE dead
      BY <1>13, <3>1 DEF ReadStatus, Turns
    <3>2. CASE ~dead
      <4>1. Replied
        BY <1>1, <1>13, <3>2 DEF ReadStatus, Turns, Asked, Executing
      <4>2. Quiet'
        BY <1>13, <2>2, <4>1 DEF ReadStatus, Replied, Quiet
      <4>. QED BY <1>10, <2>1, <2>2, <2>3, <4>2 DEF Turns
    <3>. QED BY <3>1, <3>2
  <2>. QED BY <1>1, <1>10, <1>13, <2>1, <2>2, <2>3, <2>4, <2>5 DEF ReadStatus, PipeInv
<1>14. ASSUME NEW t \in Threads \cup {Server}, ClientVisit(t)
       PROVE  PipeInv'
  <2>1. TypeOK'
    BY <1>1, <1>14 DEF ClientVisit, Visit, TypeOK
  <2>2. Turns'
    BY <1>1, <1>14, TurnsAside DEF ClientVisit, Aside
  <2>. QED BY <1>1, <1>14, <2>1, <2>2 DEF ClientVisit, PipeInv, Batches
<1>15. CASE ClientWalked
  <2>1. TypeOK'
    BY <1>1, <1>15 DEF ClientWalked, TypeOK
  <2>2. Turns'
    BY <1>1, <1>15, TurnsAside DEF ClientWalked, Aside
  <2>. QED BY <1>1, <1>15, <2>1, <2>2 DEF ClientWalked, PipeInv, Batches
<1>. QED BY <1>2, <1>3, <1>4, <1>5, <1>6, <1>7, <1>8, <1>9, <1>11, <1>12, <1>13,
            <1>14, <1>15 DEF ClientStep

\* Where the handler can be when it executes c.
Stages(c) == (IF c.op = "intercept" THEN Installing ELSE {"walk"}) \cup {"status"}

\* Steps of the handler leave the pipe alone.
LEMMA TurnsAtWork ==
  ASSUME PipeInv, ~dead, sPc \in AtWork, dead' = dead,
         UNCHANGED <<cPc, batch, toServer, toClient, sCmd>>, sPc' \in Stages(Current)
  PROVE  Turns'
<1>1. /\ batch # <<>> /\ Current \in Command /\ Executing(Current)
      /\ cPc \in {"status", "crashed"}
  BY InHandler
<1>2. Executing(Current)'
  BY <1>1 DEF Executing, Stages, Current
<1>. QED BY <1>1, <1>2 DEF Turns

\* The steps of the server, and PipeInv.
LEMMA PipeServer ==
  ASSUME PipeInv, ServerStep
  PROVE  PipeInv'
<1> USE DEF clientVars, pipeVars, serverVars, walkVars, threadVars, interceptVars
<1>1. /\ TypeOK /\ Turns /\ Batches /\ ((sPc = "status") <=> (sStatus # "none"))
      /\ sPc = "record" => sCmd.fn \in patched
  BY DEF PipeInv
<1>2. (sPc \in AtWork /\ ~dead) => (sPc \in Stages(Current) /\ sCmd = Current)
  BY InHandler DEF Executing, Stages
<1>3. CASE ReadCommand
  <2>1. ServerAt("command") /\ toServer # <<>> /\ ~dead
    BY <1>3 DEF ReadCommand, ServerAt
  <2>2. /\ batch # <<>> /\ Current \in Command /\ toClient = <<>>
        /\ \/ cPc \in {"data", "crashed"} /\ toServer = <<Current.op>>
           \/ cPc \in {"status", "crashed"} /\ toServer = <<Current.op, Current.fn>>
    BY <2>1, AtCommand
  <2>3. /\ sCmd' = OnlyOp(Current) /\ sPc' = "data"
        /\ \/ cPc \in {"data", "crashed"} /\ toServer' = <<>>
           \/ cPc \in {"status", "crashed"} /\ toServer' = <<Current.fn>>
    <3>1. CASE cPc \in {"data", "crashed"} /\ toServer = <<Current.op>>
      BY <1>3, <3>1, PipeItems DEF ReadCommand, OnlyOp
    <3>2. CASE cPc \in {"status", "crashed"} /\ toServer = <<Current.op, Current.fn>>
      BY <1>3, <3>2, PipeItems DEF ReadCommand, OnlyOp
    <3>. QED BY <2>2, <3>1, <3>2
  <2>4. TypeOK'
    <3>1. OnlyOp(Current) \in [op : Ops, fn : Functions \cup {NoFunction}]
      BY <2>2, Commands
    <3>2. toServer' \in Seq(Ops \cup Functions \cup {NoFunction}) /\ Len(toServer') <= 2
      <4>1. CASE toServer' = <<>>
        BY <4>1
      <4>2. CASE toServer' = <<Current.fn>>
        BY <2>2, <4>2, Commands
      <4>. QED BY <2>3, <4>1, <4>2
    <3>. QED BY <1>1, <1>3, <2>3, <3>1, <3>2 DEF ReadCommand, TypeOK
  <2>5. Turns'
    <3>1. toClient' = <<>> /\ Current' = Current /\ batch' # <<>> /\ cPc' = cPc
      BY <1>3, <2>2 DEF ReadCommand, Current
    <3>2. CASE cPc \in {"data", "crashed"} /\ toServer' = <<>>
      <4>1. Begun(Current)'
        BY <2>3, <3>1, <3>2 DEF Begun, OnlyOp, Current
      <4>. QED BY <3>1, <3>2, <4>1 DEF Turns
    <3>3. CASE cPc \in {"status", "crashed"} /\ toServer' = <<Current.fn>>
      <4>1. Asked(Current)'
        BY <2>3, <3>1, <3>3 DEF Asked, OnlyOp, Current
      <4>. QED BY <3>1, <3>3, <4>1 DEF Turns
    <3>. QED BY <2>3, <3>2, <3>3
  <2>. QED BY <1>1, <1>3, <2>1, <2>3, <2>4, <2>5 DEF ReadCommand, ServerAt, PipeInv, Batches
<1>4. CASE ServerExits
  <2>1. TypeOK'
    BY <1>1, <1>4 DEF ServerExits, ServerAt, TypeOK
  <2>. QED BY <1>1, <1>4, <2>1 DEF ServerExits, ServerAt, PipeInv, Turns, Batches
<1>5. ASSUME Dispatch(Current), ServerAt("data"), toServer' = <<>>,
             UNCHANGED <<clientVars, toClient, sStatus, threadVars, suspends, interceptVars, dead>>,
             cPc \in {"status", "crashed"}
      PROVE  PipeInv'
  <2>1. batch # <<>> /\ Current \in Command /\ toClient = <<>>
    BY <1>5, AtData
  <2>2. sCmd' = Current /\ sPc' \in Stages(Current) \ {"status"}
    BY <1>5 DEF Dispatch, Stages, Installing
  <2>3. sPc' \in {"walk", "resolve"} /\ snap' \subseteq Threads \cup {Server} /\ left' \subseteq snap'
    BY <1>1, <1>5 DEF Dispatch, TypeOK
  <2>4. TypeOK'
    <3>1. toServer' \in Seq(Ops \cup Functions \cup {NoFunction}) /\ Len(toServer') <= 2
      BY <1>5
    <3>2. sCmd' \in [op : Ops, fn : Functions \cup {NoFunction}]
      BY <2>1, <2>2, Commands
    <3>. QED BY <1>1, <1>5, <2>3, <3>1, <3>2 DEF TypeOK
  <2>5. Turns'
    <3>1. Executing(Current)'
      BY <1>5, <2>1, <2>2 DEF Executing, Stages, Current
    <3>. QED BY <1>5, <2>1, <3>1 DEF Turns
  <2>. QED BY <1>1, <1>5, <2>3, <2>4, <2>5 DEF ServerAt, PipeInv, Batches
<1>6. CASE ReadData
  <2>1. ServerAt("data") /\ toServer # <<>>
    BY <1>6 DEF ReadData
  <2>2. /\ Current \in Command /\ sCmd = OnlyOp(Current)
        /\ cPc \in {"status", "crashed"} /\ toServer = <<Current.fn>>
    BY <2>1, AtData
  <2>3. Head(toServer) = Current.fn /\ toServer' = <<>>
    BY <1>6, <2>2, PipeItems DEF ReadData
  <2>4. [sCmd EXCEPT !.fn = Head(toServer)] = Current
    BY <2>2, <2>3, Commands
  <2>. QED BY <1>5, <1>6, <2>1, <2>2, <2>3, <2>4 DEF ReadData
<1>7. CASE ReadDataFails
  <2>1. ServerAt("data") /\ sCmd.op # "intercept"
    BY <1>7 DEF ReadDataFails
  <2>2. sCmd = Current
    BY <2>1, AtData, Commands
  <2>. QED BY <1>5, <1>7, <2>1, <2>2 DEF ReadDataFails
<1>8. CASE LengthAssertion
  <2>1. TypeOK'
    BY <1>1, <1>8 DEF LengthAssertion, TypeOK
  <2>. QED BY <1>1, <1>8, <2>1 DEF LengthAssertion, PipeInv, Turns, Batches
<1>9. ASSUME NEW t \in Threads, ServerVisit(t)
      PROVE  PipeInv'
  <2>1. sPc \in AtWork /\ ~dead /\ sPc # "status"
    BY <1>9 DEF ServerVisit, ServerAt, AtWork
  <2>2. TypeOK'
    BY <1>1, <1>9 DEF ServerVisit, Visit, TypeOK
  <2>3. Turns'
    BY <1>1, <1>2, <1>9, <2>1, TurnsAtWork DEF ServerVisit, PipeInv
  <2>. QED BY <1>1, <1>9, <2>1, <2>2, <2>3 DEF ServerVisit, PipeInv, Batches
<1>10. CASE ServerWalked
  <2>1. sPc \in AtWork /\ ~dead
    BY <1>10 DEF ServerWalked, ServerAt, AtWork
  <2>2. TypeOK'
    BY <1>1, <1>10 DEF ServerWalked, Finish, TypeOK
  <2>3. Turns'
    BY <1>1, <1>10, <2>1, TurnsAtWork DEF ServerWalked, Finish, Stages, PipeInv
  <2>. QED BY <1>1, <1>10, <2>2, <2>3 DEF ServerWalked, Finish, PipeInv, Batches
<1>11. ASSUME NEW t \in Threads, ServerWalkFails(t)
       PROVE  PipeInv'
  <2>1. sPc \in AtWork /\ ~dead
    BY <1>11 DEF ServerWalkFails, ServerAt, AtWork
  <2>2. TypeOK'
    BY <1>1, <1>11 DEF ServerWalkFails, WalkFails, Finish, TypeOK
  <2>3. Turns'
    BY <1>1, <1>11, <2>1, TurnsAtWork DEF ServerWalkFails, Finish, Stages, PipeInv
  <2>. QED BY <1>1, <1>11, <2>2, <2>3 DEF ServerWalkFails, Finish, PipeInv, Batches
<1>12. CASE SnapshotFails
  <2>1. sPc \in AtWork /\ ~dead
    BY <1>12 DEF SnapshotFails, ServerAt, AtWork
  <2>2. TypeOK'
    BY <1>1, <1>12 DEF SnapshotFails, Finish, TypeOK
  <2>3. Turns'
    BY <1>1, <1>12, <2>1, TurnsAtWork DEF SnapshotFails, Finish, Stages, PipeInv
  <2>. QED BY <1>1, <1>12, <2>2, <2>3 DEF SnapshotFails, Finish, PipeInv, Batches
<1>13. CASE Resolve
  <2>1. sPc = "resolve" /\ sPc \in AtWork /\ ~dead
    BY <1>13 DEF Resolve, ServerAt, AtWork
  <2>2. TypeOK'
    BY <1>1, <1>13 DEF Resolve, Finish, TypeOK
  <2>3. sPc' \in Stages(Current)
    BY <1>2, <1>13, <2>1 DEF Resolve, Finish, Stages, Installing
  <2>4. Turns'
    BY <1>1, <1>13, <2>1, <2>3, TurnsAtWork DEF Resolve, PipeInv
  <2>. QED BY <1>1, <1>13, <2>1, <2>2, <2>4 DEF Resolve, Finish, PipeInv, Batches
<1>14. CASE Patch
  <2>1. sPc = "patch" /\ sPc \in AtWork /\ ~dead
    BY <1>14 DEF Patch, ServerAt, AtWork
  <2>2. sPc' \in Stages(Current) /\ sCmd = Current /\ Current.op = "intercept"
    BY <1>2, <1>14, <2>1 DEF Patch, Stages, Installing
  <2>3. sCmd.fn \in Functions
    BY <2>1, <2>2, InHandler, Commands
  <2>4. TypeOK'
    BY <1>1, <1>14, <2>3 DEF Patch, TypeOK
  <2>5. Turns'
    BY <1>1, <1>14, <2>1, <2>2, TurnsAtWork DEF Patch, PipeInv
  <2>. QED BY <1>1, <1>14, <2>1, <2>4, <2>5 DEF Patch, PipeInv, Batches
<1>15. CASE Record
  <2>1. sPc \in AtWork /\ ~dead
    BY <1>15 DEF Record, ServerAt, AtWork
  <2>2. TypeOK'
    <3>1. sCmd.fn \in patched
      BY <1>1, <1>15 DEF Record, ServerAt
    <3>. QED BY <1>1, <1>15, <3>1 DEF Record, Finish, TypeOK
  <2>3. Turns'
    BY <1>1, <1>15, <2>1, TurnsAtWork DEF Record, Finish, Stages, PipeInv
  <2>. QED BY <1>1, <1>15, <2>2, <2>3 DEF Record, Finish, PipeInv, Batches
<1>16. CASE WriteStatus
  <2>1. sPc = "status" /\ sPc \in AtWork /\ ~dead
    BY <1>16 DEF WriteStatus, ServerAt, AtWork
  <2>2. /\ toServer = <<>> /\ toClient = <<>> /\ cPc \in {"status", "crashed"}
        /\ sStatus \in {"ok", "failed"}
    BY <1>1, <2>1, InHandler DEF Executing, TypeOK
  <2>3. toClient' = IF cPc = "crashed" THEN <<>> ELSE <<sStatus>>
    BY <1>16, <2>2, PipeItems DEF WriteStatus
  <2>4. TypeOK'
    <3>1. toClient' \in Seq({"ok", "failed"}) /\ Len(toClient') <= 1
      <4>1. CASE toClient' = <<>>
        BY <4>1
      <4>2. CASE toClient' = <<sStatus>>
        BY <2>2, <4>2
      <4>. QED BY <2>3, <4>1, <4>2
    <3>. QED BY <1>1, <1>16, <3>1 DEF WriteStatus, TypeOK
  <2>5. Turns'
    <3>1. /\ toServer' = <<>> /\ sPc' = "command" /\ sCmd' = NoCommand
          /\ cPc' = cPc
      BY <1>16, <2>2 DEF WriteStatus
    <3>2. CASE cPc = "crashed"
      BY <2>3, <3>1, <3>2 DEF Turns, Quiet
    <3>3. CASE cPc = "status"
      BY <2>2, <2>3, <3>1, <3>3 DEF Turns, Replied
    <3>. QED BY <2>2, <3>2, <3>3
  <2>. QED BY <1>1, <1>16, <2>4, <2>5 DEF WriteStatus, PipeInv, Batches
<1>. QED BY <1>3, <1>4, <1>6, <1>7, <1>8, <1>9, <1>10, <1>11, <1>12, <1>13, <1>14,
            <1>15, <1>16 DEF ServerStep, ServerProceeds

\* The steps of the other threads, and PipeInv.
LEMMA PipeAut ==
  ASSUME PipeInv, AutStep
  PROVE  PipeInv'
<1> USE DEF clientVars, pipeVars, serverVars, walkVars, threadVars, interceptVars
<1>1. /\ TypeOK /\ Turns /\ Batches /\ ((sPc = "status") <=> (sStatus # "none"))
      /\ sPc = "record" => sCmd.fn \in patched
  BY DEF PipeInv
<1> DEFINE Beside ==
       /\ UNCHANGED <<clientVars, pipeVars, serverVars, walkVars, suspends, interceptVars>>
       /\ dead' \in {dead, TRUE}
       /\ lock' \in Threads \cup {Nobody}
       /\ alive' \subseteq spent' /\ spent' \subseteq Threads \cup {Server}
<1>2. Beside
  <2>1. ASSUME NEW t \in Threads, Acquire(t) \/ Release(t)
        PROVE  Beside
    BY <1>1, <2>1 DEF Acquire, Release, TypeOK
  <2>2. ASSUME NEW t \in Threads, NEW u \in Threads, Create(t, u)
        PROVE  Beside
    BY <1>1, <2>2 DEF Create, TypeOK
  <2>3. ASSUME NEW t \in Threads, Exit(t)
        PROVE  Beside
    BY <1>1, <2>3 DEF Exit, TypeOK
  <2>4. CASE Dies
    BY <1>1, <2>4 DEF Dies, TypeOK
  <2>. QED BY <2>1, <2>2, <2>3, <2>4 DEF AutStep
<1>3. TypeOK'
  <2>1. dead' \in BOOLEAN
    BY <1>1, <1>2 DEF TypeOK
  <2>. QED BY <1>1, <1>2, <2>1 DEF TypeOK
<1>4. Turns'
  BY <1>1, <1>2, TurnsAside DEF Aside
<1>. QED BY <1>1, <1>2, <1>3, <1>4 DEF PipeInv, Batches

\* Client and server take turns for ever.
LEMMA PipeStep == PipeInv /\ [Next]_vars => PipeInv'
<1> SUFFICES ASSUME PipeInv, [Next]_vars PROVE PipeInv'
  OBVIOUS
<1>1. CASE UNCHANGED vars
  <2>1. TypeOK'
    BY <1>1 DEF PipeInv, TypeOK, vars
  <2>2. Turns'
    BY <1>1, TurnsAside DEF PipeInv, Aside, vars, pipeVars, serverVars
  <2>. QED BY <1>1, <2>1, <2>2 DEF PipeInv, Batches, vars
<1>. QED BY <1>1, PipeClient, PipeServer, PipeAut DEF Next

\* PipeInv is an invariant of the specification.
LEMMA PipeCorrect == Spec => []PipeInv
BY PipeInit, PipeStep, PTL DEF Spec

(* Every variable keeps its type, and the pipe holds one command or one status. *)
THEOREM TypeCorrect == Spec => []TypeOK
<1>1. PipeInv => TypeOK
  BY DEF PipeInv
<1>. QED BY <1>1, PipeCorrect, PTL

-----------------------------------------------------------------------------
(* The server is a remote call. *)

\* What pending and outcome stand for.
Pending == IF cPc \in {"cmd", "data", "status"} THEN Head(batch) ELSE NoCommand
Outcome == IF ~Connected THEN "none"
           ELSE IF sPc = "status" THEN sStatus
           ELSE IF toClient # <<>> THEN Head(toClient)
           ELSE "none"

\* A step that changes neither is a stutter.
LEMMA CallStutters ==
  ASSUME UNCHANGED <<Pending, Outcome, answer, Connected>>
  PROVE  [RC!Next]_RC!vars
BY DEF RC!vars, Pending, Outcome

\* The end of the handler is the execution of the command.
LEMMA CallExecutes ==
  ASSUME PipeInv, ~dead, sPc \in AtWork \ {"status"}, sPc' = "status",
         sStatus' \in {"ok", "failed"},
         UNCHANGED <<cPc, batch, answer, toClient, dead>>
  PROVE  [RC!Next]_RC!vars
<1>1. batch # <<>> /\ Current \in Command /\ toClient = <<>> /\ cPc \in {"status", "crashed"}
  BY InHandler DEF Executing
<1>2. CASE cPc = "crashed"
  BY <1>2, CallStutters DEF Connected, Pending, Outcome
<1>3. CASE cPc = "status"
  <2>1. Pending = Current /\ Pending' = Pending /\ Pending # NoCommand
    BY <1>1, <1>3, Commands DEF Pending, Current
  <2>2. Connected /\ Connected' /\ Outcome = "none" /\ Outcome' = sStatus'
    BY <1>1, <1>3 DEF Connected, Outcome, AtWork
  <2>3. RC!Execute(sStatus')
    BY <2>1, <2>2 DEF RC!Execute, Pending, Outcome
  <2>. QED BY <2>3 DEF RC!Next, RC!Status
<1>. QED BY <1>1, <1>2, <1>3

\* An answer after the AUT's death says nothing.
LEMMA CallAbandoned ==
  ASSUME PipeInv, dead, dead', cPc \in {"cmd", "data", "status"},
         NEW r \in {"ok", "failed"}, Answered(r)
  PROVE  [RC!Next]_RC!vars
<1>1. batch # <<>> /\ Current \in Command
  BY CurrentIsCommand DEF PipeInv, Batches
<1>2. Pending # NoCommand /\ Pending' = NoCommand
  BY <1>1, Commands DEF Pending, Current, Answered
<1>3. ~Connected /\ ~Connected' /\ Outcome = "none" /\ Outcome' = "none" /\ answer' = r
  BY DEF Connected, Outcome, Answered
<1>4. Connected' = Connected
  BY <1>3 DEF Connected
<1>5. RC!Abandon(r)
  BY <1>2, <1>3, <1>4 DEF RC!Abandon, Pending, Outcome
<1>. QED BY <1>5 DEF RC!Next, RC!Status

\* The client's steps as steps of the remote call.
LEMMA CallClient ==
  ASSUME PipeInv, ClientStep
  PROVE  [RC!Next]_RC!vars
<1> USE DEF clientVars, pipeVars, serverVars, walkVars, threadVars, interceptVars
<1>1. ASSUME UNCHANGED <<batch, answer, toClient, sPc, sStatus, dead>>,
             cPc' = cPc \/ {cPc, cPc'} \subseteq {"cmd", "data", "status"}
      PROVE  [RC!Next]_RC!vars
  BY <1>1, CallStutters DEF Pending, Outcome, Connected
<1>2. ASSUME UNCHANGED <<answer, toClient, sPc, sStatus, dead>>,
             {cPc, cPc'} \subseteq {"idle", "next", "pausing"}
      PROVE  [RC!Next]_RC!vars
  BY <1>2, CallStutters DEF Pending, Outcome, Connected
<1>3. ASSUME NEW f \in Functions, NEW g \in Functions, AddIntercepts(f, g) \/ AddIntercept(f)
      PROVE  [RC!Next]_RC!vars
  <2>1. PICK cmds : StartCall(cmds)
    BY <1>3 DEF AddIntercepts, AddIntercept
  <2>. QED BY <1>2, <2>1 DEF StartCall
<1>4. CASE RunApp
  BY <1>1, <1>4 DEF RunApp
<1>5. CASE PauseApp \/ ClientWalked
  BY <1>2, <1>5 DEF PauseApp, ClientWalked
<1>6. CASE ClientCrash
  <2>1. Pending' = NoCommand /\ ~Connected' /\ Outcome' = "none" /\ answer' = answer
    BY <1>6 DEF ClientCrash, Pending, Outcome, Connected
  <2>2. RC!Disconnect
    BY <2>1 DEF RC!Disconnect, Pending, Outcome, Connected
  <2>. QED BY <2>2 DEF RC!Next
<1>7. CASE SendCommand
  <2>1. batch # <<>> /\ Current \in Command
    BY <1>7, CurrentIsCommand DEF SendCommand, PipeInv, Batches
  <2>2. /\ Pending = NoCommand /\ Pending' = Current
        /\ UNCHANGED <<Outcome, answer, Connected>>
    BY <1>7 DEF SendCommand, Pending, Outcome, Connected, Current
  <2>3. RC!Invoke(Current)
    BY <2>2 DEF RC!Invoke, Pending, Outcome
  <2>. QED BY <2>1, <2>3 DEF RC!Next
<1>8. CASE WriteCommand \/ WriteData
  BY <1>1, <1>8 DEF WriteCommand, WriteData
<1>9. CASE WriteFails
  BY <1>9, CallAbandoned DEF WriteFails
<1>10. CASE ReadStatusFails
  BY <1>10, CallAbandoned DEF ReadStatusFails
<1>11. CASE ReadStatus
  <2>1. Answered(Head(toClient)) /\ Head(toClient) \in {"ok", "failed"} /\ cPc = "status"
    BY <1>11 DEF ReadStatus, PipeInv, TypeOK
  <2>2. CASE dead
    BY <1>11, <2>1, <2>2, CallAbandoned DEF ReadStatus
  <2>3. CASE ~dead
    <3>1. Replied
      BY <1>11, <2>3 DEF ReadStatus, PipeInv, Turns, Asked, Executing
    <3>2. toClient' = <<>> /\ sPc' = "command" /\ dead' = dead
      BY <1>11, <3>1 DEF ReadStatus, Replied
    <3>3. Outcome = Head(toClient) /\ Outcome' = "none" /\ Outcome # "none"
      BY <1>11, <2>1, <2>3, <3>1, <3>2 DEF ReadStatus, Outcome, Connected, Replied, Answered
    <3>4. answer' = Outcome /\ Pending' = NoCommand /\ Connected' = Connected
      BY <2>1, <2>3, <3>2, <3>3 DEF Answered, Pending, Connected
    <3>5. RC!Answer
      BY <3>3, <3>4 DEF RC!Answer, Pending, Outcome
    <3>. QED BY <3>5 DEF RC!Next
  <2>. QED BY <2>2, <2>3
<1>12. ASSUME NEW t \in Threads \cup {Server}, ClientVisit(t)
       PROVE  [RC!Next]_RC!vars
  BY <1>1, <1>12 DEF ClientVisit
<1>. QED BY <1>3, <1>4, <1>5, <1>6, <1>7, <1>8, <1>9, <1>10, <1>11, <1>12 DEF ClientStep

\* The server's steps as steps of the remote call.
LEMMA CallServer ==
  ASSUME PipeInv, ServerStep
  PROVE  [RC!Next]_RC!vars
<1> USE DEF clientVars, pipeVars, serverVars, walkVars, threadVars, interceptVars
<1>1. ASSUME UNCHANGED <<cPc, batch, answer, toClient, sStatus, dead>>,
             sPc # "status", sPc' # "status"
      PROVE  [RC!Next]_RC!vars
  BY <1>1, CallStutters DEF Pending, Outcome, Connected
<1>2. CASE ReadCommand \/ ServerExits
  BY <1>1, <1>2 DEF ReadCommand, ServerExits, ServerAt
<1>3. CASE ReadData \/ ReadDataFails
  <2>1. sPc = "data" /\ UNCHANGED <<cPc, batch, answer, toClient, sStatus, dead>>
    BY <1>3 DEF ReadData, ReadDataFails, ServerAt
  <2>2. sPc' # "status"
    BY <1>3 DEF ReadData, ReadDataFails, Dispatch
  <2>. QED BY <1>1, <2>1, <2>2
<1>4. CASE LengthAssertion
  BY <1>4, CallStutters DEF LengthAssertion, Pending, Outcome, Connected
<1>5. ASSUME NEW t \in Threads, ServerVisit(t)
      PROVE  [RC!Next]_RC!vars
  BY <1>1, <1>5 DEF ServerVisit, ServerAt
<1>6. CASE ServerWalked \/ SnapshotFails \/ Record
  BY <1>6, CallExecutes DEF ServerWalked, SnapshotFails, Record, Finish, ServerAt, AtWork
<1>7. ASSUME NEW t \in Threads, ServerWalkFails(t)
      PROVE  [RC!Next]_RC!vars
  BY <1>7, CallExecutes DEF ServerWalkFails, Finish, ServerAt, AtWork
<1>8. CASE Resolve
  <2>1. sPc = "resolve" /\ ~dead /\ UNCHANGED <<cPc, batch, answer, toClient, dead>>
    BY <1>8 DEF Resolve, ServerAt
  <2>2. CASE sPc' = "patch" /\ UNCHANGED sStatus
    BY <1>1, <2>1, <2>2
  <2>3. CASE Finish("failed")
    BY <2>1, <2>3, CallExecutes DEF Finish, AtWork
  <2>. QED BY <1>8, <2>2, <2>3 DEF Resolve
<1>9. CASE Patch
  BY <1>1, <1>9 DEF Patch, ServerAt
<1>10. CASE WriteStatus
  <2>1. sPc = "status" /\ ~dead /\ sPc' = "command" /\ UNCHANGED <<cPc, batch, answer, dead>>
    BY <1>10 DEF WriteStatus, ServerAt
  <2>2. toClient = <<>>
    BY <2>1, InHandler DEF Executing, AtWork
  <2>3. toClient' = IF cPc = "crashed" THEN <<>> ELSE <<sStatus>>
    BY <1>10, <2>2, PipeItems DEF WriteStatus
  <2>4. UNCHANGED <<Pending, Connected>>
    BY <2>1 DEF Pending, Connected
  <2>5. CASE cPc = "crashed"
    BY <2>1, <2>4, <2>5, CallStutters DEF Outcome, Connected
  <2>6. CASE cPc # "crashed"
    <3>1. Outcome = sStatus
      BY <2>1, <2>6 DEF Outcome, Connected
    <3>2. toClient' # <<>> /\ Head(toClient') = sStatus
      BY <2>3, <2>6, PipeItems
    <3>3. Outcome' = sStatus
      BY <2>1, <2>6, <3>2 DEF Outcome, Connected
    <3>. QED BY <2>1, <2>4, <3>1, <3>3, CallStutters
  <2>. QED BY <2>5, <2>6
<1>. QED BY <1>2, <1>3, <1>4, <1>5, <1>6, <1>7, <1>8, <1>9, <1>10
         DEF ServerStep, ServerProceeds

\* What the AUT's other threads do is no step of the remote call.
LEMMA CallAut ==
  ASSUME AutStep
  PROVE  [RC!Next]_RC!vars
<1> USE DEF clientVars, pipeVars, serverVars, walkVars, threadVars, interceptVars
<1>1. CASE Dies
  <2>1. Pending' = Pending /\ ~Connected' /\ Outcome' = "none" /\ answer' = answer
    BY <1>1 DEF Dies, Pending, Outcome, Connected
  <2>2. RC!Disconnect
    BY <2>1 DEF RC!Disconnect, Pending, Outcome, Connected
  <2>. QED BY <2>2 DEF RC!Next
<1>2. ASSUME UNCHANGED <<clientVars, pipeVars, serverVars, dead>>
      PROVE  [RC!Next]_RC!vars
  BY <1>2, CallStutters DEF Pending, Outcome, Connected
<1>3. ASSUME NEW t \in Threads, Acquire(t) \/ Release(t) \/ Exit(t)
      PROVE  [RC!Next]_RC!vars
  BY <1>2, <1>3 DEF Acquire, Release, Exit
<1>4. ASSUME NEW t \in Threads, NEW u \in Threads, Create(t, u)
      PROVE  [RC!Next]_RC!vars
  BY <1>2, <1>4 DEF Create
<1>. QED BY <1>1, <1>3, <1>4 DEF AutStep

(* Pipe, server loop and handler implement a remote call: the client has one   *)
(* command outstanding, the server executes it at most once, and the answer is *)
(* the status of that execution, unless an end of the pipe has gone.           *)
THEOREM RemoteCallImplemented == Spec => IsRemoteCall
<1>1. Init => RC!Init
  BY DEF Init, RC!Init, Connected
<1>2. PipeInv /\ [Next]_vars => [RC!Next]_RC!vars
  <2>1. CASE UNCHANGED vars
    BY <2>1, CallStutters DEF vars, Pending, Outcome, Connected
  <2>. QED BY <2>1, CallClient, CallServer, CallAut DEF Next
<1>. QED BY <1>1, <1>2, PipeCorrect, PTL DEF Spec, IsRemoteCall, RC!Spec

-----------------------------------------------------------------------------
(* What an answer tells. *)

\* Initially nothing is asked.
LEMMA EffectInit == Init => EffectInv
BY DEF Init, EffectInv

\* Nothing happens to functions, pipe or handler.
LEMMA EffectAside ==
  ASSUME EffectInv, UNCHANGED <<cPc, batch, pipeVars, serverVars, interceptVars>>,
         dead' \in {dead, TRUE}
  PROVE  EffectInv'
<1> USE DEF pipeVars, serverVars, interceptVars
<1>1. CASE ~Connected
  BY <1>1 DEF EffectInv, Connected
<1>2. CASE Connected
  <2>1. ASSUME batch' # <<>>, Current'.op = "intercept"
        PROVE  Effect(Current.fn)'
    BY <1>2, <2>1 DEF EffectInv, Effect, Told, Working, Asked, Replied, Current, OnlyOp
  <2>2. \A i \in 2..Len(batch') : batch'[i].op = "intercept" => batch'[i].fn \notin patched'
    BY <1>2 DEF EffectInv
  <2>. QED BY <2>1, <2>2 DEF EffectInv
<1>. QED BY <1>1, <1>2

\* The commands still to come are about functions that are not redirected.
LEMMA EffectNext ==
  ASSUME batch' \in Seq(Command), cPc' \in {"next", "cmd", "data"},
         \A i \in 1..Len(batch') : batch'[i].op = "intercept" => batch'[i].fn \notin patched'
  PROVE  EffectInv'
<1>1. \A i \in 2..Len(batch') : batch'[i].op = "intercept" => batch'[i].fn \notin patched'
  OBVIOUS
<1>2. ASSUME batch' # <<>>, Current'.op = "intercept"
      PROVE  Effect(Current.fn)'
  <2>1. Current' = batch'[1] /\ 1 \in 1..Len(batch')
    BY <1>2 DEF Current
  <2>2. Current'.fn \notin patched'
    BY <1>2, <2>1
  <2>. QED BY <2>2 DEF Effect, Working
<1>. QED BY <1>1, <1>2 DEF EffectInv

\* EffectInv and the steps of the client.
LEMMA EffectClient ==
  ASSUME PipeInv, EffectInv, ClientStep
  PROVE  EffectInv'
<1> USE DEF clientVars, pipeVars, serverVars, walkVars, threadVars, interceptVars
<1>1. TypeOK /\ Turns /\ Batches
  BY DEF PipeInv
<1>2. ASSUME batch' = <<>>
      PROVE  EffectInv'
  BY <1>2 DEF EffectInv
<1>3. ASSUME cPc \in {"next", "cmd", "data"}, ~dead
      PROVE  \A i \in 1..Len(batch) : batch[i].op = "intercept" => batch[i].fn \notin patched
  <2>1. Connected /\ batch # <<>> /\ Ordered(batch)
    BY <1>1, <1>3 DEF Connected, Batches
  <2>2. Current = batch[1] /\ (Current.op = "intercept" => Current.fn \notin patched)
    BY <1>3, <2>1, TailOrdered DEF EffectInv, Effect, Current
  <2>3. \A i \in 2..Len(batch) : batch[i].op = "intercept" => batch[i].fn \notin patched
    BY <2>1 DEF EffectInv
  <2>4. \A i \in 1..Len(batch) : i = 1 \/ i \in 2..Len(batch)
    BY <2>1, TailOrdered
  <2>. QED BY <2>2, <2>3, <2>4
<1>4. ASSUME NEW f \in Functions, NEW g \in Functions, AddIntercepts(f, g)
      PROVE  EffectInv'
  <2> DEFINE b == <<Pause, Intercept(f), Intercept(g), Resume>>
  <2>1. batch' = b /\ cPc' = "next" /\ patched' = patched /\ f \notin patched /\ g \notin patched
    BY <1>4 DEF AddIntercepts, StartCall
  <2>2. b \in Seq(Command)
    BY <1>4, CallOrdered DEF AddIntercepts, Ordered
  <2>3. Len(b) = 4 /\ b[1] = Pause /\ b[2] = Intercept(f) /\ b[3] = Intercept(g) /\ b[4] = Resume
    OBVIOUS
  <2>. HIDE DEF b
  <2>4. \A i \in 1..4 : i = 1 \/ i = 2 \/ i = 3 \/ i = 4
    OBVIOUS
  <2>5. \A i \in 1..Len(b) : b[i].op = "intercept" => b[i].fn \notin patched
    BY <2>1, <2>3, <2>4 DEF Pause, Resume, Intercept
  <2>. QED BY <2>1, <2>2, <2>5, EffectNext
<1>5. ASSUME NEW f \in Functions, AddIntercept(f)
      PROVE  EffectInv'
  <2> DEFINE b == <<Intercept(f)>>
  <2>1. batch' = b /\ cPc' = "next" /\ patched' = patched /\ f \notin patched
    BY <1>5 DEF AddIntercept, StartCall
  <2>2. b \in Seq(Command) /\ Len(b) = 1 /\ b[1] = Intercept(f)
    BY CallOrdered DEF Ordered
  <2>. HIDE DEF b
  <2>3. \A i \in 1..Len(b) : b[i].op = "intercept" => b[i].fn \notin patched
    BY <2>1, <2>2 DEF Intercept
  <2>. QED BY <2>1, <2>2, <2>3, EffectNext
<1>6. CASE RunApp \/ PauseApp
  BY <1>1, <1>2, <1>6 DEF RunApp, PauseApp, Batches
<1>7. CASE ClientCrash
  BY <1>7 DEF ClientCrash, EffectInv, Connected
<1>8. CASE SendCommand
  <2>1. CASE dead
    BY <1>8, <2>1 DEF SendCommand, EffectInv, Connected
  <2>2. CASE ~dead
    BY <1>1, <1>3, <1>8, <2>2, EffectNext DEF SendCommand, TypeOK
  <2>. QED BY <2>1, <2>2
<1>9. CASE WriteCommand
  BY <1>1, <1>3, <1>9, EffectNext DEF WriteCommand, TypeOK
<1>10. CASE WriteData
  <2>1. Begun(Current) /\ batch # <<>> /\ Connected
    BY <1>1, <1>10 DEF WriteData, Turns, Batches, Connected
  <2>2. sPc \in {"command", "data"} /\ toClient = <<>>
    BY <2>1 DEF Begun
  <2>3. ASSUME Current.op = "intercept"
        PROVE  Effect(Current.fn)'
    <3>1. Current.fn \notin patched
      BY <1>10, <2>1, <2>3 DEF WriteData, EffectInv, Effect
    <3>. QED BY <1>10, <2>2, <3>1 DEF WriteData, Effect, Current, Working, Replied
  <2>4. Current' = Current /\ batch' = batch /\ patched' = patched
    BY <1>10 DEF WriteData, Current
  <2>. QED BY <2>1, <2>3, <2>4 DEF EffectInv
<1>11. CASE WriteFails \/ ReadStatusFails
  BY <1>11 DEF WriteFails, ReadStatusFails, EffectInv, Connected
<1>12. CASE ReadStatus
  <2>1. batch # <<>> /\ Ordered(batch) /\ Answered(Head(toClient)) /\ dead' = dead /\ patched' = patched
    BY <1>1, <1>12 DEF ReadStatus, Batches
  <2>2. CASE dead
    BY <2>1, <2>2 DEF EffectInv, Connected
  <2>3. CASE ~dead /\ Head(toClient) = "ok" /\ Len(batch) > 1
    <3>1. batch' = Tail(batch) /\ cPc' = "next"
      BY <2>1, <2>3 DEF Answered
    <3>2. /\ Tail(batch) \in Seq(Command) /\ Len(batch) \in Nat
          /\ Len(Tail(batch)) = Len(batch) - 1
          /\ \A i \in 1..Len(Tail(batch)) : Tail(batch)[i] = batch[i + 1]
      BY <2>1, TailOrdered
    <3>3. Connected
      BY <1>12, <2>3 DEF ReadStatus, Connected
    <3>4. ASSUME NEW i \in 1..Len(Tail(batch)), Tail(batch)[i].op = "intercept"
          PROVE  Tail(batch)[i].fn \notin patched
      <4>1. Tail(batch)[i] = batch[i + 1] /\ i + 1 \in 2..Len(batch)
        BY <3>2
      <4>. QED BY <3>3, <3>4, <4>1 DEF EffectInv
    <3>. QED BY <2>1, <3>1, <3>2, <3>4, EffectNext
  <2>4. CASE ~(Head(toClient) = "ok" /\ Len(batch) > 1)
    <3>1. batch' = <<>>
      <4>1. CASE Head(toClient) = "ok"
        BY <2>1, <2>4, <4>1, TailOrdered DEF Answered
      <4>2. CASE Head(toClient) # "ok"
        BY <2>1, <4>2 DEF Answered
      <4>. QED BY <4>1, <4>2
    <3>. QED BY <1>2, <3>1
  <2>. QED BY <2>2, <2>3, <2>4
<1>13. ASSUME NEW t \in Threads \cup {Server}, ClientVisit(t)
       PROVE  EffectInv'
  BY <1>1, <1>2, <1>13 DEF ClientVisit, Batches
<1>14. CASE ClientWalked
  BY <1>1, <1>2, <1>14 DEF ClientWalked, Batches
<1>. QED BY <1>4, <1>5, <1>6, <1>7, <1>8, <1>9, <1>10, <1>11, <1>12, <1>13, <1>14 DEF ClientStep

\* EffectInv and the steps of the server.
LEMMA EffectServer ==
  ASSUME PipeInv, EffectInv, ServerStep
  PROVE  EffectInv'
<1> USE DEF clientVars, pipeVars, serverVars, walkVars, threadVars, interceptVars
<1>1. TypeOK /\ Turns /\ Batches /\ ~dead /\ UNCHANGED <<cPc, batch>>
  BY DEF PipeInv, ServerStep, ServerProceeds, ServerAt, ReadCommand, ServerExits, ReadData,
         ReadDataFails, LengthAssertion, ServerVisit, ServerWalkFails, ServerWalked,
         SnapshotFails, Patch, WriteStatus, Resolve, Record
<1>2. SUFFICES ASSUME Connected
               PROVE  EffectInv'
  BY <1>1 DEF EffectInv, Connected
<1>3. cPc # "crashed"
  BY <1>2 DEF Connected
\* Only the current command's function is in question.
<1>4. ASSUME patched' = patched,
             batch # <<>>, Current.op = "intercept" => Effect(Current.fn)'
      PROVE  EffectInv'
  <2>1. Current' = Current
    BY <1>1 DEF Current
  <2>2. \A i \in 2..Len(batch) : batch[i].op = "intercept" => batch[i].fn \notin patched
    BY <1>2 DEF EffectInv
  <2>3. (batch' # <<>> /\ Current'.op = "intercept") => Effect(Current.fn)'
    BY <1>4, <2>1
  <2>. QED BY <1>1, <1>4, <2>2, <2>3 DEF EffectInv
<1>5. ASSUME Current.fn \notin patched', sPc' \in {"data", "resolve", "patch"}
      PROVE  Effect(Current.fn)'
  BY <1>1, <1>5 DEF Effect, Current, Replied
<1>6. CASE ReadCommand
  <2>1. ServerAt("command") /\ toServer # <<>> /\ patched' = patched /\ sPc' = "data"
    BY <1>6 DEF ReadCommand
  <2>2. batch # <<>> /\ (cPc = "data" \/ (cPc = "status" /\ Asked(Current)))
    BY <1>3, <2>1, AtCommand DEF Asked, ServerAt
  <2>3. Current.op = "intercept" => Current.fn \notin patched
    BY <1>2, <2>2 DEF EffectInv, Effect
  <2>. QED BY <1>4, <1>5, <2>1, <2>2, <2>3
<1>7. CASE ReadData
  <2>1. ServerAt("data") /\ toServer # <<>> /\ patched' = patched
    BY <1>7 DEF ReadData
  <2>2. batch # <<>> /\ cPc = "status" /\ Asked(Current) /\ Current \in Command
    BY <1>3, <2>1, AtData DEF Asked, ServerAt
  <2>3. Current.op = "intercept" => Current.fn \notin patched
    BY <1>2, <2>2 DEF EffectInv, Effect
  <2>4. Current.op = "intercept" => sPc' = "resolve"
    <3>1. sCmd = OnlyOp(Current) /\ toServer = <<Current.fn>>
      BY <2>1, AtData
    <3>2. [sCmd EXCEPT !.fn = Head(toServer)] = Current
      BY <2>2, <3>1, Commands, PipeItems
    <3>3. Dispatch(Current)
      BY <1>7, <3>2 DEF ReadData
    <3>. QED BY <3>3 DEF Dispatch
  <2>. QED BY <1>4, <1>5, <2>1, <2>2, <2>3, <2>4
<1>8. CASE ServerExits \/ ReadDataFails \/ LengthAssertion
  BY <1>3, <1>8 DEF ServerExits, ReadDataFails, LengthAssertion
\* A walk is about no function.
<1>9. ASSUME sPc = "walk", patched' = patched
      PROVE  EffectInv'
  <2>1. batch # <<>> /\ Executing(Current)
    BY <1>1, <1>9, InHandler DEF AtWork
  <2>2. Current.op # "intercept"
    BY <1>9, <2>1 DEF Executing, Installing
  <2>. QED BY <1>4, <1>9, <2>1, <2>2
<1>10. ASSUME NEW t \in Threads, ServerVisit(t) \/ ServerWalkFails(t)
       PROVE  EffectInv'
  BY <1>9, <1>10 DEF ServerVisit, ServerWalkFails, ServerAt
<1>11. CASE ServerWalked \/ SnapshotFails
  BY <1>9, <1>11 DEF ServerWalked, SnapshotFails, ServerAt
\* An intercept in the works.
<1>12. ASSUME sPc \in Installing \cup {"status"}
       PROVE  /\ batch # <<>> /\ Working /\ Current \in Command /\ toClient = <<>>
              /\ Current.op = "intercept" => Effect(Current.fn)
              /\ sPc \in Installing => Current.op = "intercept"
  <2>1. sPc \in AtWork
    BY <1>12 DEF Installing, AtWork
  <2>2. batch # <<>> /\ Executing(Current) /\ cPc = "status" /\ Current \in Command
    BY <1>1, <1>3, <2>1, InHandler
  <2>. QED BY <1>2, <1>12, <2>2 DEF EffectInv, Executing, Working, Installing
<1>13. CASE Resolve
  <2>1. sPc = "resolve" /\ UNCHANGED <<patched, recorded, sCmd>>
    BY <1>13 DEF Resolve, ServerAt
  <2>2. batch # <<>> /\ Current.fn \notin patched /\ Current.fn \notin recorded
    BY <1>1, <1>12, <2>1 DEF Installing, Effect, TypeOK
  <2>3. CASE sPc' = "patch"
    BY <1>4, <1>5, <2>1, <2>2, <2>3
  <2>4. CASE Finish("failed")
    <3>1. sPc' = "status" /\ sStatus' = "failed"
      BY <2>4 DEF Finish
    <3>2. Effect(Current.fn)'
      BY <1>1, <2>1, <2>2, <3>1 DEF Effect, Told, Current, Asked, Replied
    <3>. QED BY <1>4, <2>1, <2>2, <3>2
  <2>. QED BY <1>13, <2>3, <2>4 DEF Resolve
<1>14. CASE Patch
  <2>1. /\ sPc = "patch" /\ sPc' = "record" /\ patched' = patched \cup {sCmd.fn}
        /\ UNCHANGED <<recorded, sCmd>>
    BY <1>14 DEF Patch, ServerAt
  <2>2. /\ batch # <<>> /\ Current \in Command /\ sCmd = Current /\ Current.op = "intercept"
        /\ Current.fn \notin recorded /\ cPc = "status"
    BY <1>1, <1>12, <2>1 DEF Installing, Effect, TypeOK, Working
  <2>3. Effect(Current.fn)'
    <3>1. Current' = Current /\ Current.fn \in patched' /\ Current.fn \notin recorded'
      BY <1>1, <2>1, <2>2 DEF Current
    <3>. QED BY <1>1, <2>1, <2>2, <3>1 DEF Effect, Asked, Replied
  <2>4. ASSUME NEW i \in 2..Len(batch), batch[i].op = "intercept"
        PROVE  batch[i].fn \notin patched'
    <3>1. /\ Ordered(batch) /\ Len(batch) \in Nat /\ Current = batch[1]
      BY <1>1, <2>2, TailOrdered DEF Batches, Current
    <3>2. 1 \in 1..Len(batch) /\ i \in 1..Len(batch) /\ i # 1
      BY <3>1
    <3>3. batch[i] # Current
      BY <2>2, <3>1, <3>2 DEF Ordered
    <3>4. batch[i] \in Command
      BY <3>1, <3>2 DEF Ordered
    <3>5. batch[i].fn # Current.fn
      BY <2>2, <2>4, <3>3, <3>4, Commands
    <3>. QED BY <1>2, <2>1, <2>2, <2>4, <3>5 DEF EffectInv
  <2>5. Current' = Current
    BY <1>1 DEF Current
  <2>. QED BY <1>1, <2>3, <2>4, <2>5 DEF EffectInv
<1>15. CASE Record
  <2>1. /\ sPc = "record" /\ sPc' = "status" /\ sStatus' = "ok"
        /\ recorded' = recorded \cup {sCmd.fn} /\ UNCHANGED <<patched, sCmd>>
    BY <1>15 DEF Record, ServerAt, Finish
  <2>2. batch # <<>> /\ sCmd = Current /\ Current.fn \in patched /\ cPc = "status"
    BY <1>12, <2>1 DEF Installing, Effect, Working
  <2>3. Effect(Current.fn)'
    <3>1. Current' = Current /\ Current.fn \in patched' /\ Current.fn \in recorded'
      BY <1>1, <2>1, <2>2 DEF Current
    <3>. QED BY <1>1, <2>1, <2>2, <3>1 DEF Effect, Told, Asked, Replied
  <2>. QED BY <1>4, <2>1, <2>2, <2>3
<1>16. CASE WriteStatus
  <2>1. sPc = "status" /\ sPc' = "command" /\ sCmd' = NoCommand /\ UNCHANGED <<patched, recorded, toServer>>
    BY <1>16 DEF WriteStatus, ServerAt
  <2>2. /\ batch # <<>> /\ toClient = <<>> /\ cPc = "status" /\ Current \in Command
        /\ Current.op = "intercept" => Told(sStatus, Current.fn)
    BY <1>12, <2>1 DEF Effect, Working
  <2>3. toServer = <<>> /\ toClient' = <<sStatus>>
    <3>1. toServer = <<>>
      BY <1>1, <2>1, InHandler DEF Executing, AtWork
    <3>2. toClient' = Append(<<>>, sStatus)
      BY <1>3, <1>16, <2>2 DEF WriteStatus
    <3>. QED BY <3>1, <3>2, PipeItems
  <2>4. Head(toClient') = sStatus
    BY <2>3, PipeItems
  <2>5. ASSUME Current.op = "intercept"
        PROVE  Effect(Current.fn)'
    <3>1. Current' = Current /\ Current.fn' = Current.fn
      BY <1>1 DEF Current
    <3>. QED BY <1>1, <2>1, <2>2, <2>3, <2>4, <2>5, <3>1 DEF Effect, Told, Working, Asked
  <2>. QED BY <1>4, <2>1, <2>2, <2>5
<1>. QED BY <1>6, <1>7, <1>8, <1>10, <1>11, <1>13, <1>14, <1>15, <1>16 DEF ServerStep, ServerProceeds

\* EffectInv holds throughout.
LEMMA EffectStep == PipeInv /\ EffectInv /\ [Next]_vars => EffectInv'
<1> SUFFICES ASSUME PipeInv, EffectInv, [Next]_vars PROVE EffectInv'
  OBVIOUS
<1>1. CASE UNCHANGED vars
  BY <1>1, EffectAside DEF vars, pipeVars, serverVars, interceptVars
<1>2. CASE AutStep
  <2>1. UNCHANGED <<cPc, batch, pipeVars, serverVars, interceptVars>> /\ dead' \in {dead, TRUE}
    BY <1>2 DEF AutStep, Acquire, Release, Create, Exit, Dies, clientVars, pipeVars,
                serverVars, interceptVars
  <2>. QED BY <2>1, EffectAside
<1>. QED BY <1>1, <1>2, EffectClient, EffectServer DEF Next

\* EffectInv is an invariant of the specification.
LEMMA EffectCorrect == Spec => []EffectInv
BY EffectInit, EffectStep, PipeCorrect, PTL DEF Spec

(* As long as the AUT lives, the answer to an intercept command tells whether  *)
(* the function is redirected, and recorded.                                   *)
THEOREM AnswersMatchEffects == Spec => AnswerMatchesEffect
<1> DEFINE Asks == cPc = "status" /\ cPc' \in {"idle", "next"} /\ Head(batch).op = "intercept" /\ ~dead
           Tells == /\ (answer' = "ok") <=> (Head(batch).fn \in recorded)
                    /\ (answer' = "ok") <=> (Head(batch).fn \in patched)
<1>1. PipeInv /\ EffectInv /\ [Next]_vars => [Asks => Tells]_vars
  <2> SUFFICES ASSUME PipeInv, EffectInv, Next, Asks PROVE Tells
    OBVIOUS
  <2>1. ReadStatus
    BY DEF Next, ClientStep, ServerStep, ServerProceeds, AutStep, AddIntercepts, AddIntercept, StartCall,
           RunApp, PauseApp, ClientCrash, SendCommand, WriteCommand, WriteData, WriteFails, ReadStatusFails,
           ClientVisit, ClientWalked, ReadCommand, ServerExits, ReadData,
           ReadDataFails, LengthAssertion, ServerVisit, ServerWalkFails, ServerWalked,
           SnapshotFails, Patch, WriteStatus, Resolve, Record, Acquire, Release, Create, Exit, Dies, clientVars
  <2>2. Replied /\ batch # <<>>
    BY <2>1 DEF ReadStatus, PipeInv, Turns, Batches, Asked, Executing
  <2>3. Told(Head(toClient), Current.fn)
    BY <2>2 DEF EffectInv, Effect, Connected, Current
  <2>4. answer' = Head(toClient)
    BY <2>1 DEF ReadStatus, Answered
  <2>. QED BY <2>3, <2>4 DEF Told, Current
<1>. QED BY <1>1, PipeCorrect, EffectCorrect, PTL DEF Spec, AnswerMatchesEffect

-----------------------------------------------------------------------------
(* Paused while an intercept is installed. *)

\* Threads that were suspended stay so as long as nobody resumes them.
LEMMA PausedStays ==
  ASSUME NEW S, S \subseteq spent, PausedAmong(S), suspends' = suspends,
         alive' \subseteq alive \cup (Threads \ spent)
  PROVE  \A t \in S \cap alive' : suspends'[t] > 0
BY DEF PausedAmong

\* Initially there has been no walk.
LEMMA PausedInit == Init => PausedInv
BY DEF Init, PausedInv, PausedAmong, Bracketed, PauseDone

\* Steps that leave the walk, the handler and the suspend counts alone.
LEMMA PausedAside ==
  ASSUME PausedInv, UNCHANGED <<snap, left, suspends, sPc, sCmd, sStatus, toClient>>,
         alive' \subseteq alive \cup (Threads \ spent), spent \subseteq spent',
         dead' \in {dead, TRUE}, Bracketed' => Bracketed,
         cPc' = "status" => (cPc = "status" /\ Current' = Current)
  PROVE  PausedInv'
<1>1. snap \subseteq spent /\ (snap \ left) \subseteq spent
  BY DEF PausedInv
<1>2. ASSUME PausedAmong(snap)
      PROVE  PausedAmong(snap)'
  BY <1>1, <1>2, PausedStays DEF PausedAmong
<1>3. ASSUME PausedAmong(snap \ left)
      PROVE  PausedAmong(snap \ left)'
  BY <1>1, <1>3, PausedStays DEF PausedAmong
<1>4. PauseDone' => PauseDone
  BY DEF PauseDone
<1>5. ~dead' => ~dead
  OBVIOUS
<1>. QED BY <1>1, <1>2, <1>3, <1>4, <1>5 DEF PausedInv

\* Steps of a client that has no command outstanding.
LEMMA PausedIdle ==
  ASSUME PipeInv, batch = <<>>, {cPc, cPc'} \subseteq {"idle", "pausing"},
         UNCHANGED <<batch, serverVars, dead, spent>>, snap' \subseteq spent
  PROVE  PausedInv'
<1>1. ~dead' => sPc' = "command"
  BY DEF PipeInv, Turns, Quiet, serverVars
<1>. QED BY <1>1 DEF PausedInv, Bracketed, PauseDone

\* A call gets to its intercepts through a pause that was answered TRUE.
LEMMA BracketedNext ==
  ASSUME PipeInv, batch # <<>>, NEW r, Answered(r), Bracketed'
  PROVE  r = "ok" /\ (Bracketed \/ Current = Pause)
<1>1. Ordered(batch)
  BY DEF PipeInv, Batches
<1>2. batch' = Tail(batch) /\ Tail(batch) # <<>> /\ r = "ok"
  BY DEF Answered, Bracketed
<1>3. /\ Len(batch) \in Nat /\ Len(batch) > 1 /\ batch[Len(batch)] = Resume
      /\ Current = batch[1] /\ Current \in Command
  BY <1>1, <1>2, TailOrdered DEF Ordered, Current
<1>4. 1 \in 1..Len(batch) /\ Current.op # "resume"
  BY <1>1, <1>3 DEF Ordered
<1>5. CASE Current.op = "intercept"
  BY <1>2, <1>3, <1>5 DEF Bracketed, Current
<1>6. CASE Current.op = "pause"
  BY <1>2, <1>3, <1>6 DEF Command, Pause
<1>. QED BY <1>3, <1>4, <1>5, <1>6, Commands DEF Ops

\* PausedInv and the steps of the client.
LEMMA PausedClient ==
  ASSUME PipeInv, PausedInv, ClientStep
  PROVE  PausedInv'
<1> USE DEF clientVars, pipeVars, serverVars, walkVars, threadVars, interceptVars
<1>1. TypeOK /\ Turns /\ Batches /\ alive \subseteq alive \cup (Threads \ spent)
  BY DEF PipeInv
<1>2. snap \subseteq spent /\ alive \subseteq spent /\ dead \in {dead, TRUE}
  BY <1>1 DEF PausedInv, TypeOK
<1>3. ASSUME NEW f \in Functions, NEW g \in Functions, AddIntercepts(f, g) \/ AddIntercept(f)
      PROVE  PausedInv'
  <2> DEFINE long == <<Pause, Intercept(f), Intercept(g), Resume>>
             short == <<Intercept(f)>>
  <2>1. PICK cmds \in {long, short} : StartCall(cmds)
    BY <1>3 DEF AddIntercepts, AddIntercept
  <2>2. Head(long) = Pause /\ short[Len(short)] = Intercept(f)
    OBVIOUS
  <2>. HIDE DEF long, short
  <2>3. ~Bracketed'
    BY <2>1, <2>2 DEF StartCall, Bracketed, Pause, Resume, Intercept
  <2>. QED BY <1>1, <1>2, <2>1, <2>3, PausedAside DEF StartCall
<1>4. CASE RunApp \/ PauseApp \/ ClientWalked
  BY <1>1, <1>2, <1>4, PausedIdle DEF RunApp, PauseApp, ClientWalked, Batches
<1>5. ASSUME NEW t \in Threads \cup {Server}, ClientVisit(t)
      PROVE  PausedInv'
  BY <1>1, <1>2, <1>5, PausedIdle DEF ClientVisit, Batches
<1>6. CASE ClientCrash \/ SendCommand \/ WriteCommand
  <2>1. Bracketed' = Bracketed
    BY <1>6 DEF ClientCrash, SendCommand, WriteCommand, Bracketed
  <2>2. cPc' # "status"
    BY <1>6 DEF ClientCrash, SendCommand, WriteCommand
  <2>3. UNCHANGED <<snap, left, suspends, sPc, sCmd, sStatus, toClient, alive, spent, dead>>
    BY <1>6 DEF ClientCrash, SendCommand, WriteCommand
  <2>. QED BY <1>1, <2>1, <2>2, <2>3, PausedAside
<1>7. CASE WriteData
  <2>1. Begun(Current) /\ ~dead
    BY <1>1, <1>7 DEF WriteData, Turns
  <2>2. UNCHANGED <<snap, left, suspends, sPc, sCmd, sStatus, toClient, alive, spent, dead, batch>>
    BY <1>7 DEF WriteData
  <2>3. toClient = <<>> /\ sPc \in {"command", "data"}
    BY <2>1 DEF Begun
  <2>4. ~PauseDone' /\ sPc' \notin Installing /\ sPc' # "walk"
    BY <2>2, <2>3, PipeItems DEF PauseDone, Installing
  <2>5. Bracketed' = Bracketed /\ PausedAmong(snap)' = PausedAmong(snap)
    BY <2>2 DEF Bracketed, PausedAmong
  <2>. QED BY <1>2, <2>1, <2>2, <2>4, <2>5 DEF PausedInv
<1>8. CASE WriteFails
  <2>1. ~Bracketed' /\ cPc' # "status"
    BY <1>8 DEF WriteFails, Answered, Bracketed
  <2>. QED BY <1>1, <1>8, <2>1, PausedAside DEF WriteFails
\* A status is read: after the pause's, all are paused, if the AUT lives.
<1>9. ASSUME NEW r, Answered(r), cPc = "status", ~dead => (Replied /\ r = Head(toClient)),
             UNCHANGED <<serverVars, walkVars, threadVars, suspends, dead>>
      PROVE  PausedInv'
  <2>1. batch # <<>> /\ cPc' # "status"
    BY <1>1, <1>9 DEF Batches, Answered
  <2>2. PausedAmong(snap)' = PausedAmong(snap)
    BY <1>9 DEF PausedAmong
  <2>3. ~dead => sPc = "command"
    BY <1>9 DEF Replied
  <2>4. ASSUME Bracketed', ~dead \/ sPc \in Installing
        PROVE  PausedAmong(snap)
    <3>1. r = "ok" /\ (Bracketed \/ Current = Pause)
      BY <1>9, <2>1, <2>4, BracketedNext
    <3>2. CASE Bracketed
      BY <2>4, <3>2 DEF PausedInv
    <3>3. CASE Current = Pause
      <4>1. ~dead
        BY <1>9, <2>4, <3>3 DEF PausedInv, Pause
      <4>2. toClient = <<"ok">>
        BY <1>9, <3>1, <4>1, PipeItems DEF Replied
      <4>. QED BY <1>9, <3>3, <4>1, <4>2 DEF PausedInv, PauseDone
    <3>. QED BY <3>1, <3>2, <3>3
  <2>. QED BY <1>2, <1>9, <2>1, <2>2, <2>3, <2>4 DEF PausedInv, PauseDone
<1>10. CASE ReadStatus
  <2>1. ~dead => Replied
    BY <1>1, <1>10 DEF ReadStatus, Turns, Asked, Executing
  <2>. QED BY <1>9, <1>10, <2>1 DEF ReadStatus
<1>11. CASE ReadStatusFails
  BY <1>9, <1>11 DEF ReadStatusFails
<1>. QED BY <1>3, <1>4, <1>5, <1>6, <1>7, <1>8, <1>10, <1>11 DEF ClientStep

\* PausedInv and the steps of the server.
LEMMA PausedServer ==
  ASSUME PipeInv, PausedInv, ServerStep
  PROVE  PausedInv'
<1> USE DEF clientVars, pipeVars, serverVars, walkVars, threadVars, interceptVars
<1>1. /\ TypeOK /\ Turns /\ Batches /\ ~dead
      /\ UNCHANGED <<cPc, batch, spent>> /\ alive' \subseteq alive
  BY DEF PipeInv, ServerStep, ServerProceeds, ServerAt, ReadCommand, ServerExits, ReadData,
         ReadDataFails, LengthAssertion, ServerVisit, ServerWalkFails, ServerWalked,
         SnapshotFails, Patch, WriteStatus, Resolve, Record
<1>2. Current' = Current /\ Bracketed' = Bracketed
  BY <1>1 DEF Current, Bracketed
<1>3. snap \subseteq spent
  BY DEF PausedInv
<1>4. ASSUME NEW S, S \subseteq spent, PausedAmong(S), suspends' = suspends
      PROVE  \A t \in S \cap alive' : suspends'[t] > 0
  BY <1>1, <1>4, PausedStays
\* The walk is about the current command, which is no intercept.
<1>5. ASSUME sPc = "walk"
      PROVE  batch # <<>> /\ sCmd = Current /\ Current.op # "intercept" /\ ~Bracketed /\ toClient = <<>>
  <2>1. batch # <<>> /\ Executing(Current)
    BY <1>1, <1>5, InHandler DEF AtWork
  <2>. QED BY <1>5, <2>1 DEF Executing, Installing, Bracketed, Current
\* Neither walk nor threads nor status.
<1>6. ASSUME UNCHANGED <<snap, suspends>>, sPc' # "walk", PauseDone' => PauseDone,
             cPc = "status" /\ Current.op = "pause" => sPc' \notin Installing
      PROVE  PausedInv'
  <2>1. PausedAmong(snap) => PausedAmong(snap)'
    BY <1>3, <1>4, <1>6 DEF PausedAmong
  <2>. QED BY <1>1, <1>2, <1>3, <1>6, <2>1 DEF PausedInv
<1>7. CASE ReadCommand
  <2>1. /\ UNCHANGED <<snap, suspends, toClient>> /\ sPc' = "data"
    BY <1>7 DEF ReadCommand
  <2>2. PauseDone' => PauseDone
    BY <1>1, <1>2, <2>1 DEF PauseDone
  <2>. QED BY <1>6, <2>1, <2>2 DEF Installing
<1>8. CASE ServerExits
  <2>1. /\ UNCHANGED <<snap, suspends, toClient>> /\ sPc' = "exited"
    BY <1>8 DEF ServerExits
  <2>2. PauseDone' => PauseDone
    BY <1>1, <1>2, <2>1 DEF PauseDone
  <2>. QED BY <1>6, <2>1, <2>2 DEF Installing
\* The handler begins.
<1>9. ASSUME Dispatch(Current), ServerAt("data"), UNCHANGED <<toClient, suspends>>,
             dead' = dead
      PROVE  PausedInv'
  <2>1. toClient = <<>> /\ batch # <<>> /\ Current \in Command
    BY <1>9, AtData
  <2>2. CASE Current.op = "intercept"
    <3>1. sPc' = "resolve" /\ snap' = snap
      BY <1>9, <2>2 DEF Dispatch
    <3>2. ~PauseDone'
      BY <1>9, <2>1, <3>1, PipeItems DEF PauseDone
    <3>. QED BY <1>6, <1>9, <2>2, <3>1, <3>2
  <2>3. CASE Current.op # "intercept"
    <3>1. sPc' = "walk" /\ snap' \subseteq alive /\ left' = snap'
      BY <1>9, <2>3 DEF Dispatch
    <3>2. ~Bracketed' /\ ~PauseDone' /\ sPc' \notin Installing
      BY <1>2, <1>9, <2>1, <2>3, <3>1, PipeItems DEF PauseDone, Bracketed, Current, Installing
    <3>3. snap' \subseteq spent' /\ snap' \ left' = {}
      BY <1>1, <3>1 DEF TypeOK
    <3>. QED BY <3>2, <3>3 DEF PausedInv, PausedAmong
  <2>. QED BY <2>2, <2>3
<1>10. CASE ReadData
  <2>1. ServerAt("data") /\ toServer # <<>>
    BY <1>10 DEF ReadData
  <2>2. Current \in Command /\ sCmd = OnlyOp(Current) /\ toServer = <<Current.fn>>
    BY <2>1, AtData
  <2>3. [sCmd EXCEPT !.fn = Head(toServer)] = Current
    BY <2>2, Commands, PipeItems
  <2>. QED BY <1>9, <1>10, <2>1, <2>3 DEF ReadData
<1>11. CASE ReadDataFails
  <2>1. ServerAt("data") /\ sCmd.op # "intercept"
    BY <1>11 DEF ReadDataFails
  <2>2. sCmd = Current
    BY <2>1, AtData, Commands
  <2>. QED BY <1>9, <1>11, <2>1, <2>2 DEF ReadDataFails
<1>12. CASE LengthAssertion
  <2>1. /\ UNCHANGED <<snap, left, suspends, sPc, sCmd, sStatus, toClient, alive, spent>> /\ dead'
    BY <1>12 DEF LengthAssertion
  <2>. QED BY <1>1, <1>2, <2>1, PausedAside
<1>13. ASSUME NEW t \in Threads, ServerVisit(t)
       PROVE  PausedInv'
  <2>1. /\ sPc = "walk" /\ Visit(t, sCmd.op = "pause")
        /\ UNCHANGED <<sPc, sCmd, snap, alive, toClient>>
    BY <1>13 DEF ServerVisit, ServerAt
  <2>2. ~Bracketed' /\ ~PauseDone' /\ sPc' \notin Installing
    BY <1>2, <1>5, <2>1, PipeItems DEF PauseDone, Installing
  <2>3. ASSUME sCmd = Pause
        PROVE  PausedAmong(snap \ left)'
    <3>1. PausedAmong(snap \ left)
      BY <1>1, <2>1, <2>3 DEF PausedInv
    <3>2. sCmd.op = "pause" /\ suspends \in [Threads \cup {Server} -> Nat]
      BY <1>1, <2>3 DEF Pause, TypeOK
    <3>3. /\ left' = left \ {t} /\ t \in left
          /\ suspends' = [suspends EXCEPT ![t] = IF t \notin alive THEN @ ELSE @ + 1]
      BY <2>1, <3>2 DEF Visit
    <3>4. ASSUME NEW u \in (snap \ (left \ {t})) \cap alive
          PROVE  suspends'[u] > 0
      <4>1. u \in Threads \cup {Server}
        BY <1>1 DEF TypeOK
      <4>2. CASE u = t
        BY <3>2, <3>3, <3>4, <4>1, <4>2
      <4>3. CASE u # t
        BY <3>1, <3>2, <3>3, <3>4, <4>1, <4>3 DEF PausedAmong
      <4>. QED BY <4>2, <4>3
    <3>. QED BY <2>1, <3>3, <3>4 DEF PausedAmong
  <2>. QED BY <1>1, <1>3, <2>1, <2>2, <2>3 DEF PausedInv
<1>14. CASE ServerWalked
  <2>1. /\ sPc = "walk" /\ left = {} /\ sPc' = "status"
        /\ UNCHANGED <<sCmd, snap, suspends, toClient>>
    BY <1>14 DEF ServerWalked, ServerAt, Walked, Finish
  <2>2. PauseDone' => PausedAmong(snap)
    <3>1. PauseDone' => sCmd = Pause
      BY <1>5, <2>1, PipeItems DEF PauseDone
    <3>2. snap \ left = snap
      BY <2>1
    <3>. QED BY <1>1, <2>1, <3>1, <3>2 DEF PausedInv
  <2>3. PausedAmong(snap) => PausedAmong(snap)'
    BY <1>3, <1>4, <2>1 DEF PausedAmong
  <2>. QED BY <1>1, <1>2, <1>3, <1>5, <2>1, <2>2, <2>3 DEF PausedInv, Installing
\* A handler that fails has not paused.
<1>15. ASSUME Finish("failed"), toClient = <<>>, UNCHANGED <<toClient, snap, suspends>>
       PROVE  PausedInv'
  <2>1. sPc' = "status" /\ sStatus' = "failed"
    BY <1>15 DEF Finish
  <2>2. ~PauseDone'
    BY <1>15, <2>1, PipeItems DEF PauseDone
  <2>. QED BY <1>6, <1>15, <2>1, <2>2 DEF Installing
<1>16. ASSUME NEW t \in Threads, ServerWalkFails(t)
       PROVE  PausedInv'
  BY <1>5, <1>15, <1>16 DEF ServerWalkFails, ServerAt
<1>17. CASE SnapshotFails
  BY <1>5, <1>15, <1>17 DEF SnapshotFails, ServerAt
<1>18. ASSUME sPc \in Installing
       PROVE  toClient = <<>> /\ sCmd = Current /\ Current.op = "intercept"
  <2>1. batch # <<>> /\ Executing(Current)
    BY <1>1, <1>18, InHandler DEF AtWork, Installing
  <2>. QED BY <1>18, <2>1 DEF Executing, Installing
<1>19. CASE Resolve
  <2>1. sPc = "resolve" /\ sPc \in Installing /\ UNCHANGED <<toClient, snap, suspends>>
    BY <1>19 DEF Resolve, ServerAt, Installing
  <2>2. CASE Finish("failed")
    BY <1>15, <1>18, <2>1, <2>2
  <2>3. CASE sPc' = "patch"
    BY <1>1, <1>6, <1>18, <2>1, <2>3, PipeItems DEF PauseDone
  <2>. QED BY <1>19, <2>2, <2>3 DEF Resolve
<1>20. CASE Patch
  <2>1. sPc = "patch" /\ sPc \in Installing /\ sPc' = "record" /\ UNCHANGED <<toClient, snap, suspends>>
    BY <1>20 DEF Patch, ServerAt, Installing
  <2>. QED BY <1>1, <1>6, <1>18, <2>1, PipeItems DEF PauseDone
<1>21. CASE Record
  <2>1. /\ sPc = "record" /\ sPc \in Installing /\ sPc' = "status"
        /\ UNCHANGED <<toClient, snap, suspends, sCmd>>
    BY <1>21 DEF Record, ServerAt, Installing, Finish
  <2>2. sCmd' # Pause
    BY <1>18, <2>1 DEF Pause
  <2>. QED BY <1>1, <1>6, <1>18, <2>1, <2>2, PipeItems DEF PauseDone
<1>22. CASE WriteStatus
  <2>1. sPc = "status" /\ sPc' = "command" /\ UNCHANGED <<snap, suspends>>
    BY <1>22 DEF WriteStatus, ServerAt
  <2>2. toClient = <<>> /\ sCmd = Current
    BY <1>1, <2>1, InHandler DEF Executing, AtWork
  <2>3. toClient' = IF cPc = "crashed" THEN <<>> ELSE <<sStatus>>
    BY <1>22, <2>2, PipeItems DEF WriteStatus
  <2>4. PauseDone' => PauseDone
    <3>1. SUFFICES ASSUME PauseDone' PROVE PauseDone
      OBVIOUS
    <3>2. cPc = "status" /\ Current = Pause /\ toClient' = <<"ok">>
      BY <1>1, <1>2, <2>1, <3>1 DEF PauseDone
    <3>3. sStatus = "ok"
      BY <2>3, <3>2, PipeItems
    <3>. QED BY <2>1, <2>2, <3>2, <3>3 DEF PauseDone
  <2>. QED BY <1>6, <2>1, <2>4 DEF Installing
<1>. QED BY <1>7, <1>8, <1>10, <1>11, <1>12, <1>13, <1>14, <1>16, <1>17, <1>19, <1>20,
            <1>21, <1>22 DEF ServerStep, ServerProceeds

\* PausedInv holds throughout.
LEMMA PausedStep == PipeInv /\ PausedInv /\ [Next]_vars => PausedInv'
<1> SUFFICES ASSUME PipeInv, PausedInv, [Next]_vars PROVE PausedInv'
  OBVIOUS
<1>1. CASE UNCHANGED vars
  BY <1>1, PausedAside DEF vars, Bracketed, Current
<1>2. CASE AutStep
  <2>1. /\ UNCHANGED <<snap, left, suspends, sPc, sCmd, sStatus, toClient, batch, cPc>>
        /\ alive' \subseteq alive \cup (Threads \ spent) /\ spent \subseteq spent'
        /\ dead' \in {dead, TRUE}
    BY <1>2 DEF AutStep, Acquire, Release, Create, Exit, Dies, clientVars, pipeVars,
                serverVars, walkVars, threadVars
  <2>. QED BY <2>1, PausedAside DEF Bracketed, Current
<1>. QED BY <1>1, <1>2, PausedClient, PausedServer DEF Next

\* PausedInv is an invariant of the specification.
LEMMA PausedCorrect == Spec => []PausedInv
BY PausedInit, PausedStep, PipeCorrect, PTL DEF Spec

(* While the server installs an intercept of an addIntercepts, every thread    *)
(* that the pause found is suspended or gone.                                  *)
THEOREM PausedWhileInstallingCorrect == Spec => []PausedWhileInstalling
<1>1. PausedInv => PausedWhileInstalling
  BY DEF PausedInv, PausedWhileInstalling, PausedAmong, Installing
<1>. QED BY <1>1, PausedCorrect, PTL

-----------------------------------------------------------------------------
(* Pause and resume balance. *)

\* No thread's count changes when threads exit or appear.
LEMMA CountsStay ==
  ASSUME snap \subseteq spent, Fresh, \A t \in Threads \ spent : before[t] = 0,
         UNCHANGED <<snap, suspends, before>>, alive' \subseteq alive \cup (Threads \ spent)
  PROVE  /\ Even => Even'
         /\ Half(snap) => Half(snap)'
         /\ left' = left /\ Half(snap \ left) => Half(snap \ left)'
         /\ left' = left /\ left \subseteq snap /\ Back => Back'
<1>1. \A t \in Own' : t \in Own \/ (t \in Threads \ spent /\ t \notin snap)
  BY DEF Own
<1>2. \A t \in Threads \ spent : suspends[t] = 0 /\ before[t] = 0
  BY DEF Fresh
<1>3. Even => Even'
  BY <1>1, <1>2 DEF Even, Before
<1>4. Half(snap) => Half(snap)'
  BY <1>1, <1>2 DEF Half, Before, Over, New
<1>5. left' = left /\ Half(snap \ left) => Half(snap \ left)'
  BY <1>1, <1>2 DEF Half, Before, Over, New
<1>6. left' = left /\ left \subseteq snap /\ Back => Back'
  BY <1>1, <1>2 DEF Back, Before, Over, New
<1>. QED BY <1>3, <1>4, <1>5, <1>6

\* Initially nothing has been paused.
LEMMA BalanceInit == Init => BalanceInv
BY ConstAssumption DEF Init, BalanceInv, Fresh, InBatch

\* Steps that change no count, and do not move the first command on unless it is
\* an intercept.
LEMMA BalanceAside ==
  ASSUME PipeInv, PausedInv, BalanceInv,
         UNCHANGED <<snap, suspends, before, batch>>,
         alive' \subseteq alive \cup (Threads \ spent), spent \subseteq spent',
         Connected' => Connected,
         (Connected /\ InBatch /\ Current.op # "intercept") =>
           /\ Waiting' => Waiting
           /\ Walking' => (Walking /\ left' = left)
           /\ Succeeded' => Succeeded
  PROVE  BalanceInv'
<1>1. snap \subseteq spent /\ left \subseteq snap /\ Fresh /\ Fresh'
  BY DEF PausedInv, PipeInv, TypeOK, BalanceInv, Fresh
<1>2. SUFFICES ASSUME Connected', InBatch'
               PROVE  (\A t \in Threads \ spent' : before'[t] = 0) /\ Balance'
  BY <1>1 DEF BalanceInv
<1>3. Connected /\ InBatch /\ Current' = Current
  BY <1>2 DEF InBatch, Current
<1>4. (\A t \in Threads \ spent : before[t] = 0) /\ Balance
  BY <1>3 DEF BalanceInv
<1>5. /\ Even => Even'
      /\ Half(snap) => Half(snap)'
      /\ left' = left /\ Half(snap \ left) => Half(snap \ left)'
      /\ left' = left /\ Back => Back'
  BY <1>1, <1>4, CountsStay
<1>6. CASE Current.op = "intercept"
  BY <1>3, <1>4, <1>5, <1>6 DEF Balance, Pause, Resume
<1>7. CASE Current.op # "intercept"
  BY <1>3, <1>4, <1>5, <1>7 DEF Balance
<1>. QED BY <1>4, <1>6, <1>7

\* BalanceInv and the steps of the client.
LEMMA BalanceClient ==
  ASSUME PipeInv, PausedInv, BalanceInv, ClientStep
  PROVE  BalanceInv'
<1> USE DEF clientVars, pipeVars, serverVars, walkVars, threadVars, interceptVars
<1>1. /\ TypeOK /\ Turns /\ Batches /\ Fresh /\ snap \subseteq spent
      /\ alive \subseteq spent /\ left \subseteq snap
      /\ alive \subseteq alive \cup (Threads \ spent)
      /\ suspends \in [Threads \cup {Server} -> Nat]
  BY DEF PipeInv, BalanceInv, PausedInv, TypeOK
<1>2. ASSUME NEW f \in Functions, NEW g \in Functions, AddIntercepts(f, g)
      PROVE  BalanceInv'
  <2>1. /\ batch' = <<Pause, Intercept(f), Intercept(g), Resume>> /\ cPc' = "next"
        /\ before' = suspends /\ UNCHANGED <<suspends, spent>>
    BY <1>2 DEF AddIntercepts, StartCall
  <2>2. Current' = Pause
    BY <2>1 DEF Current
  <2>3. Even' /\ ~Walking' /\ ~Succeeded'
    BY <2>1 DEF Even, Before, Walking, Succeeded, Working
  <2>4. Balance'
    BY <2>2, <2>3 DEF Balance, Pause, Resume
  <2>5. Fresh' /\ \A t \in Threads \ spent' : before'[t] = 0
    BY <1>1, <2>1 DEF Fresh
  <2>. QED BY <2>4, <2>5 DEF BalanceInv
<1>3. ASSUME NEW f \in Functions, AddIntercept(f)
      PROVE  BalanceInv'
  <2>1. batch' = <<Intercept(f)>> /\ UNCHANGED <<suspends, spent>>
    BY <1>3 DEF AddIntercept, StartCall
  <2>2. Len(batch') = 1 /\ batch'[1] = Intercept(f)
    BY <2>1
  <2>3. ~InBatch'
    BY <2>2 DEF InBatch, Intercept, Resume
  <2>. QED BY <1>1, <2>1, <2>3 DEF BalanceInv, Fresh
<1>4. ASSUME batch = <<>>, batch' = batch, spent' = spent,
             \A t \in Threads \ spent : suspends'[t] = suspends[t]
      PROVE  BalanceInv'
  BY <1>1, <1>4 DEF BalanceInv, Fresh, InBatch
<1>5. CASE RunApp
  <2>1. /\ batch = <<>> /\ UNCHANGED <<batch, spent>> /\ Main \in spent
        /\ suspends' = [suspends EXCEPT ![Main] = IF @ > 0 THEN @ - 1 ELSE 0]
    BY <1>1, <1>5 DEF RunApp, Batches
  <2>2. \A t \in Threads \ spent : suspends'[t] = suspends[t]
    BY <1>1, <2>1
  <2>. QED BY <1>4, <2>1, <2>2
<1>6. CASE PauseApp \/ ClientWalked
  BY <1>1, <1>4, <1>6 DEF PauseApp, ClientWalked, Batches
<1>7. ASSUME NEW v \in Threads \cup {Server}, ClientVisit(v)
      PROVE  BalanceInv'
  <2>1. /\ batch = <<>> /\ UNCHANGED <<batch, spent>> /\ v \in spent
        /\ suspends' = [suspends EXCEPT ![v] = IF v \notin alive THEN @ ELSE @ + 1]
    BY <1>1, <1>7 DEF ClientVisit, Visit, Batches
  <2>2. \A t \in Threads \ spent : suspends'[t] = suspends[t]
    BY <1>1, <2>1
  <2>. QED BY <1>4, <2>1, <2>2
<1>8. ASSUME ~Connected', UNCHANGED <<suspends, spent>>
      PROVE  BalanceInv'
  BY <1>1, <1>8 DEF BalanceInv, Fresh
<1>9. CASE ClientCrash
  BY <1>8, <1>9 DEF ClientCrash, Connected
<1>10. CASE WriteFails \/ ReadStatusFails
  BY <1>8, <1>10 DEF WriteFails, ReadStatusFails, Connected
<1>11. CASE SendCommand \/ WriteCommand \/ WriteData
  <2>1. /\ UNCHANGED <<snap, left, suspends, before, batch, alive, spent>>
        /\ cPc \in {"next", "cmd", "data"}
        /\ Connected' => Connected
    BY <1>11 DEF SendCommand, WriteCommand, WriteData, Connected
  <2>2. Waiting /\ (Connected => toClient = <<>> /\ sPc \in {"command", "data"})
    BY <1>1, <2>1 DEF Waiting, Connected, Turns, Quiet, Begun
  <2>3. UNCHANGED <<toClient, sPc>>
    BY <1>11 DEF SendCommand, WriteCommand, WriteData
  <2>4. Connected => ~Walking' /\ ~Succeeded'
    BY <2>2, <2>3, PipeItems DEF Walking, Succeeded
  <2>. QED BY <1>1, <2>1, <2>2, <2>4, BalanceAside
<1>12. CASE ReadStatus
  <2>1. /\ batch # <<>> /\ Ordered(batch) /\ Answered(Head(toClient)) /\ cPc = "status"
        /\ UNCHANGED <<snap, left, suspends, before, alive, spent, dead, sPc>>
    BY <1>1, <1>12 DEF ReadStatus, Batches
  <2>2. SUFFICES ASSUME Connected', InBatch'
                 PROVE  BalanceInv'
    BY <1>1, <2>1 DEF BalanceInv, Fresh
  <2>3. Connected /\ Replied
    BY <1>1, <1>12, <2>1, <2>2 DEF ReadStatus, Turns, Asked, Executing, Connected
  <2>4. batch' = Tail(batch) /\ Tail(batch) # <<>> /\ Head(toClient) = "ok" /\ cPc' = "next"
    <3>1. batch' # <<>>
      BY <2>2 DEF InBatch
    <3>2. batch' = Tail(batch) /\ Head(toClient) = "ok"
      BY <2>1, <3>1 DEF Answered
    <3>. QED BY <2>1, <3>1, <3>2, TailOrdered DEF Answered
  <2>5. /\ Len(batch) \in Nat /\ Len(batch) > 1 /\ batch[Len(batch)] = Resume
        /\ Current = batch[1] /\ Current \in Command
        /\ Current' = batch[2] /\ Current' \in Command
    <3>1. /\ Len(batch) \in Nat /\ Len(batch) > 1 /\ Len(Tail(batch)) = Len(batch) - 1
          /\ \A i \in 1..Len(Tail(batch)) : Tail(batch)[i] = batch[i + 1]
          /\ Current = batch[1] /\ Current \in Command /\ Ordered(Tail(batch))
      BY <2>1, <2>4, TailOrdered DEF Current
    <3>2. Head(Tail(batch)) = Tail(batch)[1] /\ Head(Tail(batch)) \in Command
      BY <2>4, <3>1, TailOrdered
    <3>3. 1 \in 1..Len(Tail(batch)) /\ 1 + 1 = 2
      BY <3>1
    <3>4. Tail(batch)[1] = batch[2]
      BY <3>1, <3>3
    <3>5. batch[Len(batch)] = Resume
      BY <2>1, <3>1 DEF Ordered
    <3>. QED BY <2>4, <3>1, <3>2, <3>4, <3>5 DEF Current
  <2>6. Current.op # "resume" /\ Current'.op # "pause"
    <3>1. 1 \in 1..Len(batch) /\ 2 \in 1..Len(batch)
      BY <2>5
    <3>. QED BY <2>1, <2>5, <3>1 DEF Ordered
  <2>7. (\A t \in Threads \ spent : before[t] = 0) /\ Balance
    BY <2>1, <2>3, <2>5 DEF BalanceInv, InBatch
  <2>8. Half(snap)
    <3>1. CASE Current.op = "intercept"
      BY <2>7, <3>1 DEF Balance
    <3>2. CASE Current.op = "pause"
      <4>1. Current = Pause
        BY <2>5, <3>2 DEF Command, Pause
      <4>2. toClient = <<"ok">>
        BY <2>3, <2>4, PipeItems DEF Replied
      <4>. QED BY <2>1, <2>7, <4>1, <4>2 DEF Balance, Succeeded
    <3>. QED BY <2>5, <2>6, <3>1, <3>2, Commands DEF Ops
  <2>9. Half(snap)'
    BY <1>1, <2>1, <2>7, <2>8, CountsStay
  <2>10. ~Walking' /\ ~Succeeded'
    BY <2>4 DEF Walking, Succeeded, Working
  <2>11. Balance'
    BY <2>6, <2>9, <2>10 DEF Balance, Pause
  <2>. QED BY <1>1, <2>1, <2>7, <2>11 DEF BalanceInv, Fresh
<1>. QED BY <1>2, <1>3, <1>5, <1>6, <1>7, <1>9, <1>10, <1>11, <1>12 DEF ClientStep

\* BalanceInv and the steps of the server.
LEMMA BalanceServer ==
  ASSUME PipeInv, PausedInv, BalanceInv, ServerStep
  PROVE  BalanceInv'
<1> USE DEF clientVars, pipeVars, serverVars, walkVars, threadVars, interceptVars
<1>1. /\ TypeOK /\ Turns /\ Batches /\ ~dead
      /\ UNCHANGED <<cPc, batch, before, spent>>
      /\ alive' \subseteq alive /\ alive' \subseteq alive \cup (Threads \ spent)
      /\ dead' \in {dead, TRUE}
  BY DEF PipeInv, ServerStep, ServerProceeds, ServerAt, ReadCommand, ServerExits, ReadData,
         ReadDataFails, LengthAssertion, ServerVisit, ServerWalkFails, ServerWalked,
         SnapshotFails, Patch, WriteStatus, Resolve, Record
<1>2. /\ Fresh /\ snap \subseteq spent /\ left \subseteq snap /\ Server \notin Threads
      /\ suspends \in [Threads \cup {Server} -> Nat]
  BY <1>1, ConstAssumption DEF BalanceInv, PausedInv, TypeOK
<1>3. ASSUME cPc = "crashed", suspends' = suspends
      PROVE  BalanceInv'
  BY <1>1, <1>2, <1>3 DEF BalanceInv, Fresh, Connected
<1>4. Current' = Current /\ (Connected' => Connected) /\ InBatch' = InBatch
  BY <1>1 DEF Current, Connected, InBatch
<1>5. ASSUME UNCHANGED <<snap, suspends>>,
             (cPc # "crashed" /\ Current.op # "intercept") =>
               (Waiting' => Waiting) /\ (Walking' => (Walking /\ left' = left))
               /\ (Succeeded' => Succeeded)
      PROVE  BalanceInv'
  BY <1>1, <1>4, <1>5, BalanceAside DEF Connected
<1>6. CASE ServerExits \/ ReadDataFails \/ LengthAssertion
  BY <1>3, <1>6 DEF ServerExits, ReadDataFails, LengthAssertion
<1>7. CASE ReadCommand
  <2>1. /\ UNCHANGED <<snap, left, suspends, toClient>> /\ sPc' = "data"
        /\ ServerAt("command") /\ toServer # <<>>
    BY <1>7 DEF ReadCommand
  <2>2. cPc # "crashed" => Waiting
    BY <2>1, AtCommand DEF Waiting, Asked, ServerAt
  <2>3. toClient = <<>>
    BY <2>1, AtCommand
  <2>4. ~Walking' /\ ~Succeeded'
    BY <2>1, <2>3, PipeItems DEF Walking, Succeeded
  <2>. QED BY <1>5, <2>1, <2>2, <2>4
\* In the handler, the client waits.
<1>8. ASSUME sPc \in AtWork
      PROVE  /\ batch # <<>> /\ sCmd = Current /\ toClient = <<>> /\ toServer = <<>>
             /\ Current \in Command /\ sPc \in Stages(Current)
             /\ cPc # "crashed" => cPc = "status" /\ Working
  <2>1. batch # <<>> /\ Executing(Current) /\ cPc \in {"status", "crashed"} /\ Current \in Command
    BY <1>1, <1>8, InHandler
  <2>. QED BY <2>1 DEF Executing, Stages, Working
<1>9. CASE ReadData
  <2>1. /\ ServerAt("data") /\ toServer # <<>> /\ UNCHANGED <<toClient, alive, suspends>>
    BY <1>9 DEF ReadData
  <2>2. /\ batch # <<>> /\ Current \in Command /\ sCmd = OnlyOp(Current) /\ toServer = <<Current.fn>>
        /\ toClient = <<>> /\ cPc \in {"status", "crashed"}
    BY <2>1, AtData
  <2>3. [sCmd EXCEPT !.fn = Head(toServer)] = Current
    BY <2>2, Commands, PipeItems
  <2>4. Dispatch(Current)
    BY <1>9, <2>3 DEF ReadData
  <2>5. CASE Current.op = "intercept"
    BY <1>5, <2>1, <2>4, <2>5 DEF Dispatch
  <2>6. CASE Current.op # "intercept"
    <3>1. sPc' = "walk" /\ snap' = alive \ {Server} /\ left' = snap' /\ alive' = alive
      BY <2>1, <2>4, <2>6 DEF Dispatch
    <3>2. ~Waiting' /\ ~Succeeded'
      <4>1. cPc' \notin {"next", "cmd", "data"}
        BY <1>1, <2>2
      <4>. QED BY <2>1, <2>2, <3>1, <4>1, PipeItems DEF Waiting, Asked, Succeeded
    <3>3. SUFFICES ASSUME Connected, InBatch
                   PROVE  Balance'
      BY <1>1, <1>2, <1>4, <2>1, <3>3 DEF BalanceInv, Fresh
    <3>4. Waiting /\ Balance
      BY <2>1, <2>2, <3>3 DEF Connected, Waiting, Asked, BalanceInv, ServerAt
    <3>5. Own' = Own /\ Own \subseteq snap' /\ snap' \ left' = {}
      BY <1>2, <3>1 DEF Own
    <3>6. CASE Current = Pause
      <4>1. Even
        BY <3>4, <3>6 DEF Balance
      <4>2. Half(snap \ left)'
        BY <1>1, <2>1, <3>5, <4>1 DEF Half, Even, Before
      <4>. QED BY <1>4, <3>2, <3>6, <4>2 DEF Balance, Pause, Resume
    <3>7. CASE Current = Resume
      <4>1. Half(snap)
        BY <3>4, <3>7 DEF Balance
      <4>2. Back'
        BY <1>1, <2>1, <3>1, <3>5, <4>1 DEF Half, Back, Over, New
      <4>. QED BY <1>4, <3>2, <3>7, <4>2 DEF Balance, Pause, Resume
    <3>. QED BY <2>2, <2>6, <3>6, <3>7 DEF Command, Pause, Resume
  <2>. QED BY <2>5, <2>6
<1>10. ASSUME NEW v \in Threads, ServerVisit(v)
       PROVE  BalanceInv'
  <2>1. /\ sPc = "walk" /\ sPc' = "walk" /\ Visit(v, sCmd.op = "pause")
        /\ UNCHANGED <<sCmd, snap, alive, toClient>>
    BY <1>10 DEF ServerVisit, ServerAt
  <2>2. /\ Current.op # "intercept" /\ sCmd = Current /\ toClient = <<>> /\ Current \in Command
        /\ cPc # "crashed" => Walking
    BY <1>8, <2>1 DEF AtWork, Stages, Installing, Walking
  <2>3. (~Waiting' /\ ~Succeeded') \/ cPc = "crashed"
    BY <1>1, <2>1, <2>2, PipeItems DEF Waiting, Asked, Succeeded, Walking, Working
  <2>4. v \in left /\ left' = left \ {v} /\ v \in spent
    BY <1>2, <2>1 DEF Visit
  <2>5. \A t \in Threads \ {v} : suspends'[t] = suspends[t]
    BY <1>2, <2>1 DEF Visit
  <2>6. Fresh'
    BY <1>1, <1>2, <2>4, <2>5 DEF Fresh
  <2>7. SUFFICES ASSUME Connected, InBatch
                 PROVE  Balance'
    BY <1>1, <1>4, <2>6 DEF BalanceInv, Connected
  <2>8. Walking /\ Balance /\ before' = before /\ Own' = Own
    BY <1>1, <2>1, <2>2, <2>7 DEF BalanceInv, Connected, Own
  <2>9. \A t \in Own : t \in Threads
    BY DEF Own
  <2>10. before \in [Threads \cup {Server} -> Nat]
    BY <1>1 DEF TypeOK
  <2>11. CASE Current = Pause
    <3>1. Half(snap \ left)
      BY <2>8, <2>11 DEF Balance
    <3>2. v \in Own => suspends'[v] = suspends[v] + 1
      BY <1>2, <2>1, <2>2, <2>11 DEF Visit, Pause, Own
    <3>3. ASSUME NEW t \in Own
          PROVE  /\ t \in snap \ left' => suspends'[t] = before[t] + 1
                 /\ t \in snap \ (snap \ left') => suspends'[t] = before[t]
                 /\ t \notin snap => suspends'[t] = 0 /\ before[t] = 0
      <4>1. CASE t = v
        <5>1. t \in snap \ (snap \ left) /\ t \in snap
          BY <1>2, <2>4, <4>1
        <5>2. suspends[t] = before[t]
          BY <3>1, <5>1 DEF Half, Before
        <5>. QED BY <2>4, <3>2, <4>1, <5>1, <5>2
      <4>2. CASE t # v
        <5>1. suspends'[t] = suspends[t]
          BY <2>5, <2>9, <4>2
        <5>2. /\ t \in snap \ left' => t \in snap \ left
              /\ t \in snap \ (snap \ left') => t \in snap \ (snap \ left)
          BY <2>4, <4>2
        <5>. QED BY <3>1, <5>1, <5>2 DEF Half, Before, Over, New
      <4>. QED BY <4>1, <4>2
    <3>4. Half(snap \ left)'
      BY <2>1, <2>8, <3>3 DEF Half, Before, Over, New
    <3>. QED BY <1>4, <2>3, <2>7, <2>11, <3>4 DEF Balance, Pause, Resume, Connected
  <2>12. CASE Current = Resume
    <3>1. Back
      BY <2>8, <2>12 DEF Balance
    <3>2. v \in Own => suspends'[v] = IF suspends[v] > 0 THEN suspends[v] - 1 ELSE 0
      BY <1>2, <2>1, <2>2, <2>12 DEF Visit, Resume, Own
    <3>3. v \in Own => suspends'[v] = before[v]
      <4>1. v \in Own => suspends[v] = before[v] + 1 \/ (suspends[v] = 0 /\ before[v] = 0)
        BY <2>4, <3>1 DEF Back, Over, New
      <4>2. before[v] \in Nat /\ suspends[v] \in Nat
        BY <1>2, <2>10
      <4>. QED BY <3>2, <4>1, <4>2
    <3>4. ASSUME NEW t \in Own, t # v
          PROVE  IF t \in left'
                 THEN suspends'[t] = before[t] + 1 \/ (suspends'[t] = 0 /\ before[t] = 0)
                 ELSE suspends'[t] = before[t]
      <4>1. suspends'[t] = suspends[t] /\ (t \in left' <=> t \in left)
        BY <2>4, <2>5, <2>9, <3>4
      <4>. QED BY <3>1, <4>1 DEF Back, Over, New, Before
    <3>5. Back'
      BY <2>4, <2>8, <3>3, <3>4 DEF Back, Over, New, Before
    <3>. QED BY <1>4, <2>3, <2>7, <2>12, <3>5 DEF Balance, Pause, Resume, Connected
  <2>. QED BY <2>2, <2>11, <2>12 DEF Command, Pause, Resume
<1>11. CASE ServerWalked
  <2>1. /\ sPc = "walk" /\ left = {} /\ sPc' = "status" /\ sStatus' = "ok"
        /\ UNCHANGED <<sCmd, snap, left, suspends, alive, toClient, spent>>
    BY <1>11 DEF ServerWalked, ServerAt, Walked, Finish
  <2>2. /\ Current.op # "intercept" /\ Current \in Command
        /\ cPc # "crashed" => Walking /\ cPc = "status"
    BY <1>8, <2>1 DEF AtWork, Stages, Installing, Walking
  <2>3. SUFFICES ASSUME Connected, InBatch
                 PROVE  Balance'
    BY <1>1, <1>2, <1>4, <2>1 DEF BalanceInv, Fresh
  <2>4. Walking /\ Balance /\ cPc' = "status"
    BY <1>1, <2>2, <2>3 DEF BalanceInv, Connected
  <2>5. ~Waiting' /\ ~Walking'
    BY <2>1, <2>4 DEF Waiting, Walking, Asked
  <2>6. snap \ left = snap
    BY <2>1
  <2>7. Own' = Own
    BY <2>1 DEF Own
  <2>8. CASE Current = Pause
    <3>1. Half(snap)
      BY <2>4, <2>6, <2>8 DEF Balance
    <3>2. Half(snap)'
      BY <1>1, <2>1, <2>7, <3>1 DEF Half, Before, Over, New
    <3>. QED BY <1>4, <2>5, <2>8, <3>2 DEF Balance, Pause, Resume
  <2>9. CASE Current = Resume
    <3>1. Even
      BY <2>1, <2>4, <2>9 DEF Balance, Back, Even
    <3>2. Even'
      BY <1>1, <2>1, <2>7, <3>1 DEF Even, Before
    <3>. QED BY <1>4, <2>5, <2>9, <3>2 DEF Balance, Pause, Resume
  <2>. QED BY <2>2, <2>8, <2>9 DEF Command, Pause, Resume
\* A handler that fails ends the call.
<1>12. ASSUME sPc \in AtWork, Finish("failed"), UNCHANGED <<toClient, snap, suspends>>
       PROVE  BalanceInv'
  <2>1. sPc' = "status" /\ sStatus' = "failed" /\ toClient' = <<>>
    BY <1>8, <1>12 DEF Finish
  <2>2. ~Walking' /\ ~Succeeded'
    BY <2>1, PipeItems DEF Walking, Succeeded
  <2>3. cPc # "crashed" => ~Waiting'
    <3>1. cPc # "crashed" => cPc' = "status"
      BY <1>1, <1>8, <1>12
    <3>. QED BY <2>1, <3>1 DEF Waiting, Asked
  <2>. QED BY <1>5, <1>12, <2>2, <2>3
<1>13. ASSUME NEW t \in Threads, ServerWalkFails(t)
       PROVE  BalanceInv'
  BY <1>12, <1>13 DEF ServerWalkFails, ServerAt, AtWork
<1>14. CASE SnapshotFails
  BY <1>12, <1>14 DEF SnapshotFails, ServerAt, AtWork
\* Installing leaves the threads alone.
<1>15. ASSUME sPc \in Installing, UNCHANGED <<snap, suspends>>
       PROVE  BalanceInv'
  <2>1. Current.op = "intercept"
    BY <1>8, <1>15 DEF Installing, AtWork, Stages
  <2>. QED BY <1>5, <1>15, <2>1
<1>16. CASE Resolve \/ Patch \/ Record
  BY <1>15, <1>16 DEF Resolve, Patch, Record, ServerAt, Installing
<1>17. CASE WriteStatus
  <2>1. sPc = "status" /\ sPc' = "command" /\ sCmd' = NoCommand /\ UNCHANGED <<snap, suspends, toServer>>
    BY <1>17 DEF WriteStatus, ServerAt
  <2>2. /\ toServer = <<>> /\ toClient = <<>>
        /\ cPc # "crashed" => cPc = "status" /\ Working
    BY <1>8, <2>1 DEF AtWork
  <2>3. toClient' = IF cPc = "crashed" THEN <<>> ELSE <<sStatus>>
    BY <1>17, <2>2, PipeItems DEF WriteStatus
  <2>4. ~Walking' /\ (cPc # "crashed" => ~Waiting')
    <3>1. cPc # "crashed" => cPc' = "status" /\ toClient' # <<>>
      BY <1>1, <2>2, <2>3, PipeItems
    <3>. QED BY <2>1, <3>1 DEF Walking, Waiting, Asked
  <2>5. (cPc # "crashed" /\ Succeeded') => Succeeded
    <3>1. SUFFICES ASSUME cPc # "crashed", Succeeded' PROVE Succeeded
      OBVIOUS
    <3>2. <<sStatus>> = <<"ok">>
      BY <2>1, <2>3, <3>1 DEF Succeeded
    <3>3. sStatus = "ok"
      BY <3>2, PipeItems
    <3>. QED BY <2>1, <2>2, <3>1, <3>3 DEF Succeeded
  <2>. QED BY <1>5, <2>1, <2>4, <2>5
<1>. QED BY <1>6, <1>7, <1>9, <1>10, <1>11, <1>13, <1>14, <1>16, <1>17 DEF ServerStep, ServerProceeds

\* BalanceInv holds throughout.
LEMMA BalanceStep == PipeInv /\ PausedInv /\ BalanceInv /\ [Next]_vars => BalanceInv'
<1> SUFFICES ASSUME PipeInv, PausedInv, BalanceInv, [Next]_vars PROVE BalanceInv'
  OBVIOUS
<1>1. ASSUME UNCHANGED <<snap, left, suspends, before, batch, cPc, toServer, toClient, serverVars>>,
             alive' \subseteq alive \cup (Threads \ spent), spent \subseteq spent', dead' \in {dead, TRUE}
      PROVE  BalanceInv'
  <2>1. Connected' => Connected
    BY <1>1 DEF Connected
  <2>2. Waiting' = Waiting /\ Walking' = Walking /\ Succeeded' = Succeeded
    BY <1>1 DEF Waiting, Walking, Succeeded, Working, Asked, Current, serverVars
  <2>. QED BY <1>1, <2>1, <2>2, BalanceAside
<1>2. CASE UNCHANGED vars
  BY <1>1, <1>2 DEF vars, serverVars
<1>3. CASE AutStep
  BY <1>1, <1>3 DEF AutStep, Acquire, Release, Create, Exit, Dies, clientVars, pipeVars,
                    serverVars, walkVars, threadVars
<1>. QED BY <1>2, <1>3, BalanceClient, BalanceServer DEF Next

\* BalanceInv is an invariant of the specification.
LEMMA BalanceCorrect == Spec => []BalanceInv
BY BalanceInit, BalanceStep, PipeCorrect, PausedCorrect, PTL DEF Spec

(* An addIntercepts that returns TRUE leaves every thread that still exists    *)
(* with the suspend count it had before the call.                              *)
THEOREM BatchesRestore == Spec => BatchRestores
<1> DEFINE Ends == cPc = "status" /\ cPc' = "idle" /\ answer' = "ok" /\ Head(batch) = Resume /\ ~dead
           Restored == \A t \in alive \cap Threads : suspends[t] = before[t]
<1>1. PipeInv /\ BalanceInv /\ [Next]_vars => [Ends => Restored]_vars
  <2> SUFFICES ASSUME PipeInv, BalanceInv, Next, Ends PROVE Restored
    OBVIOUS
  <2>1. ReadStatus
    BY DEF Next, ClientStep, ServerStep, ServerProceeds, AutStep, AddIntercepts, AddIntercept, StartCall,
           RunApp, PauseApp, ClientCrash, SendCommand, WriteCommand, WriteData, WriteFails, ReadStatusFails,
           ClientVisit, ClientWalked, ReadCommand, ServerExits, ReadData,
           ReadDataFails, LengthAssertion, ServerVisit, ServerWalkFails, ServerWalked,
           SnapshotFails, Patch, WriteStatus, Resolve, Record, Acquire, Release, Create, Exit, Dies, clientVars
  <2>2. Replied /\ batch # <<>> /\ Ordered(batch)
    BY <2>1 DEF ReadStatus, PipeInv, Turns, Batches, Asked, Executing
  <2>3. toClient = <<"ok">>
    BY <2>1, <2>2, PipeItems DEF ReadStatus, Answered, Replied
  <2>4. InBatch
    <3>1. batch[1] = Resume /\ 1 \in 1..Len(batch)
      BY <2>2, TailOrdered
    <3>2. 1 = Len(batch)
      BY <2>2, <3>1 DEF Ordered, Resume
    <3>. QED BY <2>2, <3>1, <3>2 DEF InBatch
  <2>5. Even
    BY <2>3, <2>4 DEF BalanceInv, Connected, Balance, Succeeded, Current
  <2>. QED BY <2>5 DEF Even, Own, Before
<1>. QED BY <1>1, PipeCorrect, BalanceCorrect, PTL DEF Spec, BatchRestores

=============================================================================
