---------------------------- MODULE HeatAppProofs ----------------------------
(***************************************************************************)
(* Proofs about HeatApp, for any processes, functions and number of calls. *)
(* The types hold however the object is used.  What its list and its flags *)
(* say of a process is proved for an object that is attached once.         *)
(***************************************************************************)
EXTENDS HeatApp, SequenceTheorems, WellFoundedInduction, TLAPS

-----------------------------------------------------------------------------
(* What is left of an API call.                                              *)

\* Plans by their length.
One(a) == <<a>>
Two(a, b) == <<a, b>>
Three(a, b, c) == <<a, b, c>>
Four(a, b, c, d) == <<a, b, c, d>>

\* What may be left of each call, from the routine at work on.
Planned ==
  \/ todo = <<>> /\ (call = "destroy" => destroyed)
  \/ call \in {"attachToApp", "attachToRunningApp"} /\ todo = One("adopt")
  \/ call = "pauseApp" /\ todo \in {One("pause"), One("pausing")}
  \/ call \in {"resumeApp", "runApp"} /\ todo \in {One("resume"), One("resuming")}
  \/ call = "forceInject" /\ todo \in {Three("construct", "send", "injected"),
       Two("send", "injected"), Two("sending", "injected"), One("injected")}
  \/ call = "interceptFunc" /\ todo \in {One("send"), One("sending")}
  \/ call = "terminateApp" /\ todo = One("kill")
  \/ call = "deinitializeApp" /\ todo \in {Two("kill", "removeAll"), One("removeAll")}
  \/ call = "detachFromApp" /\ todo \in {Four("unsent", "pause", "resume", "unready"),
       Three("pause", "resume", "unready"), Three("pausing", "resume", "unready"),
       Two("resume", "unready"), Two("resuming", "unready"),
       Two("unsent", "unready"), One("unready")}
  \/ call = "destroy" /\ todo \in {Two("resume", "destroy"), Two("resuming", "destroy"),
       One("destroy")}

Doing(name) == call = name /\ todo # <<>>

\* The object has a process when it needs one.
Opened ==
  /\ m_bReady => m_piProcInfo \in Processes
  /\ Doing("forceInject") => m_piProcInfo \in Processes
  /\ At("adopt") => m_hProcess \in Processes

TypeInv == TypeOK /\ Planned /\ Opened

\* A plan's first routine, ...
LEMMA Heads ==
  /\ \A a : One(a) # <<>> /\ Head(One(a)) = a
  /\ \A a, b : Two(a, b) # <<>> /\ Head(Two(a, b)) = a
  /\ \A a, b, c : Three(a, b, c) # <<>> /\ Head(Three(a, b, c)) = a
  /\ \A a, b, c, d : Four(a, b, c, d) # <<>> /\ Head(Four(a, b, c, d)) = a
BY DEF One, Two, Three, Four

\* ... and what is left behind it.
LEMMA Tails ==
  /\ \A a : Tail(One(a)) = <<>>
  /\ \A a, b : Tail(Two(a, b)) = One(b)
  /\ \A a, b, c : Tail(Three(a, b, c)) = Two(b, c)
  /\ \A a, b, c, d : Tail(Four(a, b, c, d)) = Three(b, c, d)
BY DEF One, Two, Three, Four

\* A sequence is its head in front of its tail.
LEMMA Joined ==
  ASSUME NEW S, NEW u \in Seq(S), u # <<>>
  PROVE  <<Head(u)>> \o Tail(u) = u
<1> DEFINE s == <<Head(u)>>
           t == Tail(u)
<1>1. /\ Len(u) \in Nat /\ Len(u) >= 1
      /\ u[1] \in S /\ Head(u) = u[1]
      /\ t \in Seq(S) /\ Len(t) = Len(u) - 1
      /\ \A i \in 1 .. Len(t) : t[i] = u[i + 1]
  BY EmptySeq, LenProperties, ElementOfSeq, HeadTailProperties
<1>2. s \in Seq(S) /\ Len(s) = 1 /\ s[1] = u[1]
  BY <1>1
<1> HIDE DEF s, t
<1>a. s \in Seq(S) /\ t \in Seq(S)
  BY <1>1, <1>2
<1>3. /\ s \o t \in Seq(S)
      /\ Len(s \o t) = Len(s) + Len(t)
      /\ \A i \in 1 .. Len(s) + Len(t) :
           (s \o t)[i] = IF i <= Len(s) THEN s[i] ELSE t[i - Len(s)]
  BY <1>a, ConcatProperties
<1>4. ASSUME NEW i \in 1 .. Len(u) PROVE (s \o t)[i] = u[i]
  <2>1. CASE i = 1
    BY <1>1, <1>2, <1>3, <2>1
  <2>2. CASE i # 1
    <3>1. i - 1 \in 1..Len(t) /\ (i - 1) + 1 = i
      BY <1>1, <2>2
    <3>2. t[i - 1] = u[(i - 1) + 1]
      BY <1>1, <3>1
    <3>3. (s \o t)[i] = t[i - 1]
      BY <1>1, <1>2, <1>3, <2>2
    <3>. QED BY <3>1, <3>2, <3>3
  <2>. QED BY <2>1, <2>2
<1>5. s \o t = u
  <2>1. Len(s \o t) = Len(u)
    BY <1>1, <1>2, <1>3
  <2>. QED BY <1>3, <1>4, <2>1, SeqEqual
<1>. QED BY <1>5 DEF s, t

\* Plans are sequences.
LEMMA PlanSeq ==
  ASSUME NEW S, NEW a \in S, NEW b \in S, NEW c \in S, NEW d \in S
  PROVE  /\ One(a) \in Seq(S) /\ Two(a, b) \in Seq(S)
         /\ Three(a, b, c) \in Seq(S) /\ Four(a, b, c, d) \in Seq(S)
BY DEF One, Two, Three, Four

\* The calls a routine is part of, and what is left of them when it comes.
LEMMA AtPlans ==
  ASSUME Planned
  PROVE  /\ At("adopt") => call \in {"attachToApp", "attachToRunningApp"} /\ todo = One("adopt")
         /\ At("unsent") => /\ call = "detachFromApp"
                            /\ todo \in {Four("unsent", "pause", "resume", "unready"),
                                         Two("unsent", "unready")}
         /\ At("pause") => \/ call = "pauseApp" /\ todo = One("pause")
                           \/ call = "detachFromApp" /\ todo = Three("pause", "resume", "unready")
         /\ At("pausing") => \/ call = "pauseApp" /\ todo = One("pausing")
                             \/ call = "detachFromApp" /\ todo = Three("pausing", "resume", "unready")
         /\ At("resume") => \/ call \in {"resumeApp", "runApp"} /\ todo = One("resume")
                            \/ call = "detachFromApp" /\ todo = Two("resume", "unready")
                            \/ call = "destroy" /\ todo = Two("resume", "destroy")
         /\ At("resuming") => \/ call \in {"resumeApp", "runApp"} /\ todo = One("resuming")
                              \/ call = "detachFromApp" /\ todo = Two("resuming", "unready")
                              \/ call = "destroy" /\ todo = Two("resuming", "destroy")
         /\ At("unready") => call = "detachFromApp" /\ todo = One("unready")
         /\ At("construct") => call = "forceInject" /\ todo = Three("construct", "send", "injected")
         /\ At("send") => \/ call = "forceInject" /\ todo = Two("send", "injected")
                          \/ call = "interceptFunc" /\ todo = One("send")
         /\ At("sending") => \/ call = "forceInject" /\ todo = Two("sending", "injected")
                             \/ call = "interceptFunc" /\ todo = One("sending")
         /\ At("injected") => call = "forceInject" /\ todo = One("injected")
         /\ At("kill") => \/ call = "terminateApp" /\ todo = One("kill")
                          \/ call = "deinitializeApp" /\ todo = Two("kill", "removeAll")
         /\ At("removeAll") => call = "deinitializeApp" /\ todo = One("removeAll")
         /\ At("destroy") => call = "destroy" /\ todo = One("destroy")
BY Heads DEF Planned, At

\* The plan when a routine has succeeded, ...
LEMMA PlannedAfter ==
  ASSUME Planned, todo # <<>>, Succeed, UNCHANGED call, At("destroy") => destroyed'
  PROVE  Planned'
<1>1. todo' = Tail(todo)
  BY DEF Succeed
<1>2. todo' = <<>> /\ ~At("destroy") => call # "destroy"
  BY <1>1, Heads, Tails DEF Planned, At
<1>3. CASE call = "detachFromApp"
  BY <1>1, <1>3, Heads, Tails, SMTT(30) DEF Planned, At
<1>4. CASE call = "forceInject"
  BY <1>1, <1>4, Heads, Tails DEF Planned, At
<1>7. CASE call = "deinitializeApp"
  BY <1>1, <1>7, Heads, Tails DEF Planned, At
<1>5. CASE call = "destroy"
  BY <1>1, <1>5, Heads, Tails DEF Planned, At
<1>6. CASE call \notin {"detachFromApp", "forceInject", "deinitializeApp", "destroy"}
  BY <1>1, <1>6, Heads, Tails DEF Planned, At
<1>. QED BY <1>3, <1>4, <1>5, <1>6, <1>7

\* ... and when it has failed.
LEMMA PlannedFail ==
  ASSUME Planned, todo # <<>>, Fail, UNCHANGED call, ~At("destroy")
  PROVE  Planned'
BY Heads, Tails DEF Planned, Fail, At

\* A routine in front of a plan.
LEMMA Join ==
  /\ \A a : <<a>> \o <<>> = One(a)
  /\ \A a, b : <<a>> \o One(b) = Two(a, b)
  /\ \A a, b, c : <<a>> \o Two(b, c) = Three(a, b, c)
  /\ \A a, b, c, d : <<a>> \o Three(b, c, d) = Four(a, b, c, d)
<1>1. ASSUME NEW a PROVE <<a>> \o <<>> = One(a)
  BY DEF One
<1>2. ASSUME NEW a, NEW b PROVE <<a>> \o One(b) = Two(a, b)
  <2>1. Two(a, b) \in Seq({a, b})
    BY PlanSeq
  <2>2. Two(a, b) # <<>> /\ Head(Two(a, b)) = a /\ Tail(Two(a, b)) = One(b)
    BY Heads, Tails
  <2>. QED BY <2>1, <2>2, Joined
<1>3. ASSUME NEW a, NEW b, NEW c PROVE <<a>> \o Two(b, c) = Three(a, b, c)
  <2>1. Three(a, b, c) \in Seq({a, b, c})
    BY PlanSeq
  <2>2. Three(a, b, c) # <<>> /\ Head(Three(a, b, c)) = a /\ Tail(Three(a, b, c)) = Two(b, c)
    BY Heads, Tails
  <2>. QED BY <2>1, <2>2, Joined
<1>4. ASSUME NEW a, NEW b, NEW c, NEW d PROVE <<a>> \o Three(b, c, d) = Four(a, b, c, d)
  <2>1. Four(a, b, c, d) \in Seq({a, b, c, d})
    BY PlanSeq
  <2>2. /\ Four(a, b, c, d) # <<>> /\ Head(Four(a, b, c, d)) = a
        /\ Tail(Four(a, b, c, d)) = Three(b, c, d)
    BY Heads, Tails
  <2>. QED BY <2>1, <2>2, Joined
<1>. QED BY <1>1, <1>2, <1>3, <1>4

\* Every plan is a sequence of routines.
LEMMA PlanTuples ==
  \A u : \/ u \in {<<>>, One("adopt"), One("pause"), One("pausing"), One("resume"), One("resuming"),
                   One("send"), One("sending"), One("kill")}
         \/ u \in {Three("construct", "send", "injected"), Two("send", "injected"),
                   Two("sending", "injected"), One("injected")}
         \/ u \in {Two("kill", "removeAll"), One("removeAll"), Two("resume", "destroy"),
                   Two("resuming", "destroy"), One("destroy")}
         \/ u \in {Four("unsent", "pause", "resume", "unready"),
                   Three("pause", "resume", "unready"), Three("pausing", "resume", "unready")}
         \/ u \in {Two("resume", "unready"), Two("resuming", "unready"), Two("unsent", "unready"),
                   One("unready")}
         => u \in Seq(Routines)
<1>1. /\ <<>> \in Seq(Routines)
      /\ One("adopt") \in Seq(Routines) /\ One("pause") \in Seq(Routines) 
      /\ One("pausing") \in Seq(Routines) /\ One("resume") \in Seq(Routines) 
      /\ One("resuming") \in Seq(Routines) /\ One("send") \in Seq(Routines) 
      /\ One("sending") \in Seq(Routines) /\ One("kill") \in Seq(Routines) 
  BY DEF One, Routines
<1>2. /\ Three("construct", "send", "injected") \in Seq(Routines)
      /\ Two("send", "injected") \in Seq(Routines) /\ Two("sending", "injected") \in Seq(Routines)
      /\ One("injected") \in Seq(Routines)
  BY DEF One, Two, Three, Routines
<1>3. /\ Two("kill", "removeAll") \in Seq(Routines) /\ One("removeAll") \in Seq(Routines)
      /\ Two("resume", "destroy") \in Seq(Routines) /\ Two("resuming", "destroy") \in Seq(Routines)
      /\ One("destroy") \in Seq(Routines)
  BY DEF One, Two, Routines
<1>4. /\ Four("unsent", "pause", "resume", "unready") \in Seq(Routines)
      /\ Three("pause", "resume", "unready") \in Seq(Routines)
      /\ Three("pausing", "resume", "unready") \in Seq(Routines)
  BY DEF Three, Four, Routines
<1>5. /\ Two("resume", "unready") \in Seq(Routines) /\ Two("resuming", "unready") \in Seq(Routines)
      /\ Two("unsent", "unready") \in Seq(Routines) /\ One("unready") \in Seq(Routines)
  BY DEF One, Two, Routines
<1>. QED BY <1>1, <1>2, <1>3, <1>4, <1>5

\* So is what is left of a call, ...
LEMMA PlanType == Planned => todo \in Seq(Routines)
BY PlanTuples DEF Planned

\* ... and what will be.
LEMMA PlanTypeNext == Planned' => todo' \in Seq(Routines)
BY PlanTuples DEF Planned

\* When a pause or a resume begins to walk.
LEMMA PlannedWalk ==
  ASSUME Planned, At("pause") \/ At("resume"), UNCHANGED call,
         todo' = <<IF At("pause") THEN "pausing" ELSE "resuming">> \o Tail(todo)
  PROVE  /\ Planned'
         /\ At("pause") => todo' \in {One("pausing"), Three("pausing", "resume", "unready")}
         /\ ~At("pause") => todo' \in {One("resuming"), Two("resuming", "unready"),
                                       Two("resuming", "destroy")}
<1>1. CASE At("pause")
  <2>1. todo' = <<"pausing">> \o Tail(todo)
    BY <1>1
  <2>2. CASE call = "pauseApp" /\ todo = One("pause")
    <3>1. todo' = One("pausing")
      BY <2>1, <2>2, Tails, Join
    <3>. QED BY <1>1, <2>2, <3>1 DEF Planned
  <2>3. CASE call = "detachFromApp" /\ todo = Three("pause", "resume", "unready")
    <3>1. todo' = Three("pausing", "resume", "unready")
      <4>1. Tail(todo) = Two("resume", "unready")
        BY <2>3, Tails
      <4>. QED BY <2>1, <4>1, Join
    <3>. QED BY <1>1, <2>3, <3>1 DEF Planned
  <2>. QED BY <1>1, <2>2, <2>3, AtPlans
<1>2. CASE ~At("pause")
  <2>1. todo' = <<"resuming">> \o Tail(todo)
    BY <1>2
  <2>2. CASE call \in {"resumeApp", "runApp"} /\ todo = One("resume")
    <3>1. todo' = One("resuming")
      BY <2>1, <2>2, Tails, Join
    <3>. QED BY <1>2, <2>2, <3>1 DEF Planned
  <2>3. CASE call = "detachFromApp" /\ todo = Two("resume", "unready")
    <3>1. todo' = Two("resuming", "unready")
      <4>1. Tail(todo) = One("unready")
        BY <2>3, Tails
      <4>. QED BY <2>1, <4>1, Join
    <3>. QED BY <1>2, <2>3, <3>1 DEF Planned
  <2>4. CASE call = "destroy" /\ todo = Two("resume", "destroy")
    <3>1. todo' = Two("resuming", "destroy")
      <4>1. Tail(todo) = One("destroy")
        BY <2>4, Tails
      <4>. QED BY <2>1, <4>1, Join
    <3>. QED BY <1>2, <2>4, <3>1 DEF Planned
  <2>. QED BY <1>2, <2>2, <2>3, <2>4, AtPlans
<1>. QED BY <1>1, <1>2

\* When the list begins to be sent.
LEMMA PlannedSend ==
  ASSUME Planned, At("send"), UNCHANGED call, todo' = <<"sending">> \o Tail(todo)
  PROVE  Planned' /\ todo' \in {One("sending"), Two("sending", "injected")}
<1>1. CASE call = "forceInject" /\ todo = Two("send", "injected")
  <2>1. todo' = Two("sending", "injected")
    <3>1. Tail(todo) = One("injected")
      BY <1>1, Tails
    <3>. QED BY <3>1, Join
  <2>. QED BY <1>1, <2>1 DEF Planned
<1>2. CASE call = "interceptFunc" /\ todo = One("send")
  <2>1. todo' = One("sending")
    BY <1>2, Tails, Join
  <2>. QED BY <1>2, <2>1 DEF Planned
<1>. QED BY <1>1, <1>2, AtPlans

\* What is left when the current routine has succeeded, ...
LEMMA AfterPlans ==
  ASSUME Planned, Succeed
  PROVE  /\ At("adopt") => todo' = <<>>
         /\ At("unsent") => todo' \in {Three("pause", "resume", "unready"), One("unready")}
         /\ At("pausing") => \/ call = "pauseApp" /\ todo' = <<>>
                             \/ call = "detachFromApp" /\ todo' = Two("resume", "unready")
         /\ At("resuming") => \/ call \in {"resumeApp", "runApp"} /\ todo' = <<>>
                              \/ call = "detachFromApp" /\ todo' = One("unready")
                              \/ call = "destroy" /\ todo' = One("destroy")
         /\ At("unready") => todo' = <<>>
         /\ At("construct") => todo' = Two("send", "injected")
         /\ At("send") \/ At("sending") => \/ call = "forceInject" /\ todo' = One("injected")
                                           \/ call = "interceptFunc" /\ todo' = <<>>
         /\ At("injected") => todo' = <<>>
         /\ At("kill") => \/ call = "terminateApp" /\ todo' = <<>>
                          \/ call = "deinitializeApp" /\ todo' = One("removeAll")
         /\ At("removeAll") \/ At("destroy") => todo' = <<>>
<1>1. todo' = Tail(todo)
  BY DEF Succeed
<1>2. At("unsent") => todo' \in {Three("pause", "resume", "unready"), One("unready")}
  BY <1>1, AtPlans, Tails
<1>3. At("pausing") => \/ call = "pauseApp" /\ todo' = <<>>
                       \/ call = "detachFromApp" /\ todo' = Two("resume", "unready")
  BY <1>1, AtPlans, Tails
<1>4. At("resuming") => \/ call \in {"resumeApp", "runApp"} /\ todo' = <<>>
                        \/ call = "detachFromApp" /\ todo' = One("unready")
                        \/ call = "destroy" /\ todo' = One("destroy")
  BY <1>1, AtPlans, Tails
<1>5. At("construct") => todo' = Two("send", "injected")
  BY <1>1, AtPlans, Tails
<1>6. At("send") \/ At("sending") => \/ call = "forceInject" /\ todo' = One("injected")
                                     \/ call = "interceptFunc" /\ todo' = <<>>
  BY <1>1, AtPlans, Tails
<1>7. At("kill") => \/ call = "terminateApp" /\ todo' = <<>>
                    \/ call = "deinitializeApp" /\ todo' = One("removeAll")
  BY <1>1, AtPlans, Tails
<1>8. At("adopt") \/ At("unready") \/ At("injected") \/ At("removeAll") \/ At("destroy") => todo' = <<>>
  BY <1>1, AtPlans, Tails
<1>. QED BY <1>2, <1>3, <1>4, <1>5, <1>6, <1>7, <1>8

\* ... and when it has failed.
LEMMA AfterFail ==
  ASSUME Planned, Fail
  PROVE  /\ call # "destroy" => todo' = <<>>
         /\ call = "destroy" /\ (At("resume") \/ At("resuming")) => todo' = One("destroy")
         /\ At("adopt") \/ At("pause") \/ At("pausing") \/ At("construct") \/ At("kill") => todo' = <<>>
<1>1. call # "destroy" => todo' = <<>>
  BY DEF Fail
<1>2. call = "destroy" /\ (At("resume") \/ At("resuming")) => todo' = One("destroy")
  BY AtPlans, Tails DEF Fail
<1>3. At("adopt") \/ At("pause") \/ At("pausing") \/ At("construct") \/ At("kill") => call # "destroy"
  BY AtPlans
<1>. QED BY <1>1, <1>2, <1>3

-----------------------------------------------------------------------------
(* Types.                                                                    *)

ObjectType ==
  /\ {m_bReady, m_bRunning, m_bInjected, m_bUseRemoteThread, destroyed} \subseteq BOOLEAN
  /\ {m_piProcInfo, m_hProcess, m_heatNGapp} \subseteq Processes \cup {NoProcess}
ListType ==
  /\ m_ciIntercepts \in Seq(Node)
  /\ \A i, j \in 1..Len(m_ciIntercepts) :
       m_ciIntercepts[i].fn = m_ciIntercepts[j].fn => i = j
UserType == walk \subseteq ThreadIds /\ calls \in 0..MaxCalls /\ opens \in 0..MaxOpens
MonitorState == [pc : {"start", "wait", "ready", "injected", "done"},
                 handle : Processes \cup {NoProcess}]
ProcessType ==
  /\ state \in [Processes -> {"absent", "alive", "exited"}]
  /\ threads \in [Processes -> SUBSET ThreadIds]
  /\ suspends \in [Processes -> [ThreadIds -> Nat]]
  /\ fresh \subseteq Processes /\ taken \subseteq Processes
InstalledType == installed \in [Processes -> [Functions -> Nat]] /\ blocked \in BOOLEAN
HistoryType == gaveUp \subseteq {"pause", "detach", "inject"} /\ exitSeen \in BOOLEAN

TypeParted == /\ ObjectType /\ ListType /\ UserType /\ monitors \in Seq(MonitorState)
              /\ ProcessType /\ InstalledType /\ HistoryType

\* The types of the variables, in parts that a step changes together.
LEMMA TypeParts == ASSUME TypeOK PROVE TypeParted
BY DEF TypeOK, TypeParted, ObjectType, ListType, UserType, MonitorState, ProcessType,
   InstalledType, HistoryType

\* The same of the next state.
LEMMA TypePartsNext == ASSUME TypeOK' PROVE TypeParted'
BY DEF TypeOK, TypeParted, ObjectType, ListType, UserType, MonitorState, ProcessType,
   InstalledType, HistoryType

\* The parts are all there is.
LEMMA TypeWhole ==
  ASSUME Planned', ObjectType', ListType', UserType', monitors' \in Seq(MonitorState),
         ProcessType', InstalledType', HistoryType'
  PROVE  TypeOK'
BY PlanTypeNext DEF TypeOK, ObjectType, ListType, UserType, MonitorState, ProcessType,
                    InstalledType, HistoryType

\* detachFromApp marks the whole list unsent and leaves it as it is otherwise.
LEMMA AllUnsentType ==
  ASSUME ListType
  PROVE  /\ AllUnsent \in Seq(Node) /\ Len(AllUnsent) = Len(m_ciIntercepts)
         /\ \A i \in 1..Len(m_ciIntercepts) : /\ AllUnsent[i].fn = m_ciIntercepts[i].fn
                                              /\ ~AllUnsent[i].sent
<1>1. Len(m_ciIntercepts) \in Nat /\ \A i \in 1..Len(m_ciIntercepts) : m_ciIntercepts[i] \in Node
  BY DEF ListType
<1>2. \A i \in 1..Len(m_ciIntercepts) :
         /\ AllUnsent[i] = [m_ciIntercepts[i] EXCEPT !.sent = FALSE]
         /\ AllUnsent[i] \in Node
         /\ AllUnsent[i].fn = m_ciIntercepts[i].fn
         /\ ~AllUnsent[i].sent
  BY <1>1 DEF AllUnsent, Node
<1>3. AllUnsent \in [1..Len(m_ciIntercepts) -> Node]
  BY <1>1, <1>2 DEF AllUnsent
<1>4. AllUnsent \in Seq(Node) /\ Len(AllUnsent) = Len(m_ciIntercepts)
  BY <1>1, <1>3
<1>. QED BY <1>2, <1>4

\* A write to a suspend count.
LEMMA CountType ==
  ASSUME NEW p, NEW t, NEW n, p \in Processes => n \in Nat,
         suspends \in [Processes -> [ThreadIds -> Nat]]
  PROVE  [suspends EXCEPT ![p][t] = n] \in [Processes -> [ThreadIds -> Nat]]
<1>1. CASE p \in Processes
  BY <1>1
<1>2. CASE p \notin Processes
  BY <1>2
<1>. QED BY <1>1, <1>2

\* What an injection does to the suspend counts: it adds to one only if its
\* resume walk gives up before that thread.
LEMMA Injecting ==
  ASSUME TypeParted, m_piProcInfo \in Processes,
         \/ FirstThreadResumed \/ SuspendedAndResumed
         \/ UNCHANGED <<suspends, fresh, gaveUp>>
  PROVE  /\ suspends' \in [Processes -> [ThreadIds -> Nat]] /\ fresh' \subseteq Processes
         /\ gaveUp' \in {gaveUp, gaveUp \cup {"inject"}}
         /\ \A q \in Processes \ {m_piProcInfo} : suspends'[q] = suspends[q]
         /\ \A t \in ThreadIds :
              (t \notin threads[m_piProcInfo] \/ "inject" \notin gaveUp')
              => suspends'[m_piProcInfo][t] <= suspends[m_piProcInfo][t]
<1> DEFINE old == suspends[m_piProcInfo]
<1>0. /\ suspends \in [Processes -> [ThreadIds -> Nat]] /\ fresh \subseteq Processes
      /\ old \in [ThreadIds -> Nat] /\ "main" \in ThreadIds
  BY DEF TypeParted, ProcessType, ThreadIds
<1>1. CASE FirstThreadResumed
  <2> DEFINE n == IF old["main"] > 0 THEN old["main"] - 1 ELSE 0
             new == [old EXCEPT !["main"] = n]
  <2>1. suspends' = [suspends EXCEPT ![m_piProcInfo] = new] /\ gaveUp' = gaveUp
        /\ fresh' \subseteq Processes
    BY <1>0, <1>1 DEF FirstThreadResumed
  <2>2. new \in [ThreadIds -> Nat] /\ \A t \in ThreadIds : new[t] <= old[t]
    BY <1>0
  <2> HIDE DEF new
  <2>. QED BY <1>0, <2>1, <2>2
<1>2. CASE SuspendedAndResumed
  <2>1. PICK paused, resumed \in SUBSET threads[m_piProcInfo] :
          /\ suspends' = [suspends EXCEPT ![m_piProcInfo] = [t \in ThreadIds |->
               CASE t \in paused \ resumed -> @[t] + 1
                 [] t \in resumed \ paused /\ @[t] > 0 -> @[t] - 1
                 [] OTHER -> @[t]]]
          /\ gaveUp' = IF paused \subseteq resumed THEN gaveUp ELSE gaveUp \cup {"inject"}
    BY <1>2 DEF SuspendedAndResumed
  <2> DEFINE new == [t \in ThreadIds |->
               CASE t \in paused \ resumed -> old[t] + 1
                 [] t \in resumed \ paused /\ old[t] > 0 -> old[t] - 1
                 [] OTHER -> old[t]]
  <2>2. suspends' = [suspends EXCEPT ![m_piProcInfo] = new]
    BY <2>1
  <2>3. new \in [ThreadIds -> Nat]
    BY <1>0
  <2>4. ASSUME NEW t \in ThreadIds, t \notin threads[m_piProcInfo] \/ "inject" \notin gaveUp'
        PROVE  new[t] <= old[t]
    <3>1. t \notin paused \ resumed
      BY <2>1, <2>4
    <3>. QED BY <1>0, <3>1
  <2>5. fresh' \subseteq Processes
    BY <1>0, <1>2 DEF SuspendedAndResumed
  <2> HIDE DEF new
  <2>6. suspends'[m_piProcInfo] = new
    BY <1>0, <2>2
  <2>7. /\ suspends' \in [Processes -> [ThreadIds -> Nat]]
        /\ \A q \in Processes \ {m_piProcInfo} : suspends'[q] = suspends[q]
    BY <1>0, <2>2, <2>3
  <2>8. gaveUp' \in {gaveUp, gaveUp \cup {"inject"}}
    BY <2>1
  <2>. QED BY <2>4, <2>5, <2>6, <2>7, <2>8
<1>3. CASE UNCHANGED <<suspends, fresh, gaveUp>>
  BY <1>0, <1>3
<1>. QED BY <1>1, <1>2, <1>3

\* The two ends of forceInject's constructor inject in this sense, and may add
\* the server thread.
LEMMA InjectingStep ==
  ASSUME Construct \/ ConstructThrows
  PROVE  /\ \/ FirstThreadResumed \/ SuspendedAndResumed
            \/ UNCHANGED <<suspends, fresh, gaveUp>>
         /\ \/ UNCHANGED threads
            \/ threads' = [threads EXCEPT ![m_piProcInfo] = threads[m_piProcInfo] \cup {"server"}]
         /\ UNCHANGED <<state, m_piProcInfo, m_bRunning, m_hProcess, call>>
BY DEF Construct, ConstructThrows, ServerLoads, HeldAgain, flags, object

\* A set of numbers that is not empty has a least element.
LEMMA Least ==
  ASSUME NEW S, S \subseteq Nat, S # {}
  PROVE  \E x \in S : \A y \in S : x <= y
<1> DEFINE R == OpToRel(<, Nat)
<1>1. \E x \in S : \A y \in S : ~ (<<y, x>> \in R)
  <2> HIDE DEF R
  <2>1. IsWellFoundedOn(R, Nat)
    BY NatLessThanWellFounded DEF R
  <2>. QED BY <2>1, WFMin
<1>2. ASSUME NEW x \in S, NEW y \in S, y < x PROVE <<y, x>> \in R
  <2>1. <<y, x>> \in Nat \X Nat /\ <<y, x>>[1] = y /\ <<y, x>>[2] = x
    OBVIOUS
  <2>. QED BY <1>2, <2>1 DEF OpToRel
<1>. HIDE DEF R
<1>3. PICK x \in S : \A y \in S : ~ (<<y, x>> \in R)
  BY <1>1
<1>4. \A y \in S : ~ (y < x)
  BY <1>2, <1>3
<1>. QED BY <1>4

\* The node sendIntercepts gets to.
LEMMA FirstPending ==
  ASSUME ListType, Pending # {}
  PROVE  /\ First(Pending) \in 1..Len(m_ciIntercepts)
         /\ ~m_ciIntercepts[First(Pending)].sent
<1>1. PICK i \in Pending : \A j \in Pending : i <= j
  <2>1. Pending \subseteq Nat
    BY DEF Pending
  <2>. QED BY <2>1, Least
<1>2. First(Pending) \in Pending
  BY <1>1 DEF First
<1>. QED BY <1>2 DEF Pending

\* The list with node i marked.
MarkAt(i) == [m_ciIntercepts EXCEPT ![i].sent = TRUE]

\* sendIntercepts marks one node sent.
LEMMA MarkedSent ==
  ASSUME ListType, NEW i \in 1..Len(m_ciIntercepts)
  PROVE  /\ MarkAt(i) \in Seq(Node) /\ Len(MarkAt(i)) = Len(m_ciIntercepts)
         /\ \A j \in 1..Len(m_ciIntercepts) :
              /\ MarkAt(i)[j].fn = m_ciIntercepts[j].fn
              /\ MarkAt(i)[j].sent = (m_ciIntercepts[j].sent \/ j = i)
<1> DEFINE e == [m_ciIntercepts[i] EXCEPT !.sent = TRUE]
<1>1. m_ciIntercepts \in Seq(Node) /\ Len(m_ciIntercepts) \in Nat
      /\ \A j \in 1..Len(m_ciIntercepts) : m_ciIntercepts[j] \in Node
  BY DEF ListType
<1>2. MarkAt(i) = [m_ciIntercepts EXCEPT ![i] = e]
  BY DEF MarkAt
<1>3. e \in Node /\ e.fn = m_ciIntercepts[i].fn /\ e.sent
  BY <1>1 DEF Node
<1> HIDE DEF e
<1>4. /\ MarkAt(i) \in Seq(Node) /\ Len(MarkAt(i)) = Len(m_ciIntercepts)
      /\ \A j \in 1..Len(m_ciIntercepts) :
           MarkAt(i)[j] = IF j = i THEN e ELSE m_ciIntercepts[j]
  BY <1>1, <1>2, <1>3, ExceptSeq
<1>5. ASSUME NEW j \in 1..Len(m_ciIntercepts)
      PROVE  /\ MarkAt(i)[j].fn = m_ciIntercepts[j].fn
             /\ MarkAt(i)[j].sent = (m_ciIntercepts[j].sent \/ j = i)
  <2>1. CASE j = i
    <3>1. MarkAt(i)[j] = e
      BY <1>4, <2>1
    <3>2. m_ciIntercepts[j].sent \in BOOLEAN /\ e.sent = TRUE
      BY <1>1, <1>3 DEF Node
    <3>. QED BY <1>3, <2>1, <3>1, <3>2
  <2>2. CASE j # i
    <3>1. MarkAt(i)[j] = m_ciIntercepts[j] /\ m_ciIntercepts[j].sent \in BOOLEAN
      BY <1>1, <1>4, <2>2 DEF Node
    <3>. QED BY <2>2, <3>1
  <2>. QED BY <2>1, <2>2
<1>. QED BY <1>4, <1>5

\* A monitor's step.
LEMMA MonitorType ==
  ASSUME monitors \in Seq(MonitorState), NEW i \in 1..Len(monitors),
         NEW to \in {"start", "wait", "ready", "injected", "done"}
  PROVE  [monitors EXCEPT ![i].pc = to] \in Seq(MonitorState)
<1>1. monitors[i] \in MonitorState
  OBVIOUS
<1>2. [monitors[i] EXCEPT !.pc = to] \in MonitorState
  BY <1>1 DEF MonitorState
<1>3. [monitors EXCEPT ![i].pc = to] = [monitors EXCEPT ![i] = [monitors[i] EXCEPT !.pc = to]]
  OBVIOUS
<1>. QED BY <1>2, <1>3, ExceptSeq

\* A new node is put before the others.
LEMMA ConsList ==
  ASSUME ListType, NEW f \in Functions,
         NEW s, s = <<[fn |-> f, sent |-> FALSE]>> \o m_ciIntercepts
  PROVE  /\ s \in Seq(Node) /\ Len(s) = Len(m_ciIntercepts) + 1
         /\ s[1] = [fn |-> f, sent |-> FALSE]
         /\ \A i \in 1..Len(m_ciIntercepts) : s[i + 1] = m_ciIntercepts[i]
         /\ \A i \in 2..Len(s) : i - 1 \in 1..Len(m_ciIntercepts) /\ s[i] = m_ciIntercepts[i - 1]
<1> DEFINE u == <<[fn |-> f, sent |-> FALSE]>>
<1>1. u \in Seq(Node) /\ Len(u) = 1 /\ u[1] = [fn |-> f, sent |-> FALSE]
  BY DEF Node
<1>2. m_ciIntercepts \in Seq(Node) /\ Len(m_ciIntercepts) \in Nat
  BY DEF ListType
<1> HIDE DEF u
<1>3. /\ u \o m_ciIntercepts \in Seq(Node)
      /\ Len(u \o m_ciIntercepts) = Len(u) + Len(m_ciIntercepts)
      /\ \A i \in 1 .. Len(u) + Len(m_ciIntercepts) :
           (u \o m_ciIntercepts)[i] = IF i <= Len(u) THEN u[i] ELSE m_ciIntercepts[i - Len(u)]
  BY <1>1, <1>2, ConcatProperties
<1>4. s = u \o m_ciIntercepts
  BY DEF u
<1>5. /\ s \in Seq(Node) /\ Len(s) = Len(m_ciIntercepts) + 1
      /\ s[1] = [fn |-> f, sent |-> FALSE]
  <2>1. 1 \in 1 .. Len(u) + Len(m_ciIntercepts) /\ 1 <= Len(u)
    BY <1>1, <1>2
  <2>2. s[1] = u[1]
    BY <1>3, <1>4, <2>1
  <2>3. Len(u) + Len(m_ciIntercepts) = Len(m_ciIntercepts) + 1
    BY <1>1, <1>2
  <2>. QED BY <1>1, <1>3, <1>4, <2>2, <2>3
<1>6. ASSUME NEW i \in 1..Len(m_ciIntercepts) PROVE s[i + 1] = m_ciIntercepts[i]
  <2>1. i + 1 \in 1 .. Len(u) + Len(m_ciIntercepts) /\ ~(i + 1 <= Len(u)) /\ (i + 1) - Len(u) = i
    BY <1>1, <1>2
  <2>. QED BY <1>3, <1>4, <2>1
<1>7. ASSUME NEW i \in 2..Len(s)
      PROVE  i - 1 \in 1..Len(m_ciIntercepts) /\ s[i] = m_ciIntercepts[i - 1]
  <2>1. i - 1 \in 1..Len(m_ciIntercepts) /\ (i - 1) + 1 = i
    BY <1>2, <1>5
  <2>. QED BY <1>6, <2>1
<1>. QED BY <1>5, <1>6, <1>7

\* detachFromApp's plan.
LEMMA DetachPlan ==
  /\ <<"unsent">> \o <<"pause", "resume">> \o <<"unready">>
     = Four("unsent", "pause", "resume", "unready")
  /\ <<"unsent">> \o <<>> \o <<"unready">> = Two("unsent", "unready")
<1>1. /\ <<"unsent">> \in Seq(Routines) /\ <<"pause", "resume">> \in Seq(Routines)
      /\ <<"unready">> \in Seq(Routines) /\ <<"pause">> \in Seq(Routines)
      /\ <<"resume">> \in Seq(Routines)
  BY DEF Routines
<1>2. <<"pause", "resume">> = <<"pause">> \o <<"resume">>
  BY Join DEF One, Two
<1>3. <<"pause", "resume">> \o <<"unready">> = <<"pause">> \o (<<"resume">> \o <<"unready">>)
  BY <1>1, <1>2, ConcatAssociative
<1>4. <<"resume">> \o <<"unready">> = Two("resume", "unready")
  BY Join DEF One
<1>5. <<"pause", "resume">> \o <<"unready">> = Three("pause", "resume", "unready")
  BY <1>3, <1>4, Join
<1>6. <<"unsent">> \o <<"pause", "resume">> \o <<"unready">>
      = <<"unsent">> \o (<<"pause", "resume">> \o <<"unready">>)
  BY <1>1, ConcatAssociative
<1>7. <<"unsent">> \o <<>> = <<"unsent">>
  BY Join DEF One
<1>8. <<"unsent">> \o <<"unready">> = Two("unsent", "unready")
  BY Join DEF One
<1>9. <<"unsent">> \o Three("pause", "resume", "unready") = Four("unsent", "pause", "resume", "unready")
  BY Join
<1>10. <<"unsent">> \o <<"pause", "resume">> \o <<"unready">>
       = Four("unsent", "pause", "resume", "unready")
  BY <1>5, <1>6, <1>9
<1>11. (<<"unsent">> \o <<>>) \o <<"unready">> = Two("unsent", "unready")
  BY <1>7, <1>8
<1>. QED BY <1>10, <1>11

\* What detachFromApp begins with.
LEMMA DetachTodo ==
  ASSUME DetachFromApp
  PROVE  /\ call' = "detachFromApp"
         /\ \/ todo' = One("unready")
            \/ todo' = Two("unsent", "unready")
            \/ m_bRunning /\ todo' = Four("unsent", "pause", "resume", "unready")
<1>1. /\ call' = "detachFromApp"
      /\ todo' = IF ~m_bInjected THEN <<"unready">>
                 ELSE <<"unsent">> \o
                      (IF m_bRunning /\ ~m_bUseRemoteThread
                       THEN <<"pause", "resume">> ELSE <<>>)
                      \o <<"unready">>
  BY DEF DetachFromApp, Simple, Enter
<1>2. CASE ~m_bInjected
  BY <1>1, <1>2 DEF One
<1>3. CASE m_bInjected /\ m_bRunning /\ ~m_bUseRemoteThread
  <2>1. todo' = <<"unsent">> \o <<"pause", "resume">> \o <<"unready">>
    BY <1>1, <1>3
  <2>. QED BY <1>1, <1>3, <2>1, DetachPlan
<1>4. CASE m_bInjected /\ ~(m_bRunning /\ ~m_bUseRemoteThread)
  <2>1. todo' = <<"unsent">> \o <<>> \o <<"unready">>
    BY <1>1, <1>4
  <2>. QED BY <1>1, <2>1, DetachPlan
<1>. QED BY <1>2, <1>3, <1>4

\* Every step keeps the types, the plans and the object's process.
LEMMA NextType ==
  ASSUME TypeInv, [Next]_vars
  PROVE  TypeInv'
<1>0. TypeOK /\ Planned /\ Opened /\ TypeParted
  BY TypeParts DEF TypeInv
<1>1. ASSUME NEW p \in Processes, InitializeApp(p) PROVE TypeInv'
  <2>1. Planned'
    BY <1>1 DEF InitializeApp, Enter, Planned, One, Two, Three, Four
  <2>2. Opened'
    BY <1>1 DEF InitializeApp, Opened
  <2>3. UserType'
    BY <1>0, <1>1, ConstAssumption DEF InitializeApp, Enter, TypeParted, UserType
  <2>4. ObjectType'
    BY <1>0, <1>1 DEF InitializeApp, Enter, TypeParted, ObjectType
  <2>5. ListType' /\ InstalledType' /\ HistoryType' /\ monitors' \in Seq(MonitorState)
    BY <1>0, <1>1 DEF InitializeApp, TypeParted, ListType, InstalledType, HistoryType
  <2>6. ProcessType'
    BY <1>0, <1>1 DEF InitializeApp, TypeParted, ProcessType, ThreadIds
  <2>. QED BY <2>1, <2>2, <2>3, <2>4, <2>5, <2>6, TypeWhole DEF TypeInv
<1>2. ASSUME NEW p \in Processes, NEW running \in BOOLEAN, Attach(p, running) PROVE TypeInv'
  <2>1. Planned'
    BY <1>2 DEF Attach, Enter, Planned, One, Two, Three, Four
  <2>2. Opened'
    BY <1>2 DEF Attach, Enter, Opened, Doing, flags
  <2>3. /\ ObjectType' /\ ListType' /\ UserType'
        /\ InstalledType' /\ HistoryType' /\ ProcessType' /\ monitors' \in Seq(MonitorState)
    BY <1>0, <1>2, ConstAssumption
    DEF Attach, Enter, ObjectType, TypeParted, flags, ListType, UserType, InstalledType,
        processes, HistoryType, history, ProcessType, MonitorState
  <2>. QED BY <2>1, <2>2, <2>3, TypeWhole DEF TypeInv
<1>3. ASSUME PauseApp PROVE TypeInv'
  <2>1. Planned'
    BY <1>3 DEF PauseApp, Simple, Enter, Planned, One, Two, Three, Four
  <2>2. Opened'
    BY <1>0, <1>3 DEF PauseApp, Simple, Enter, Opened, At, flags, object
  <2>3. /\ ObjectType' /\ ListType' /\ UserType'
        /\ InstalledType' /\ HistoryType' /\ ProcessType' /\ monitors' \in Seq(MonitorState)
    BY <1>0, <1>3, ConstAssumption
    DEF PauseApp, Simple, Enter, ObjectType, TypeParted, flags, object, ListType, UserType,
        InstalledType, processes, HistoryType, history, ProcessType
  <2>. QED BY <2>1, <2>2, <2>3, TypeWhole DEF TypeInv
<1>4. ASSUME ResumeApp PROVE TypeInv'
  <2>1. Planned'
    BY <1>4 DEF ResumeApp, Simple, Enter, Planned, One, Two, Three, Four
  <2>2. Opened'
    BY <1>0, <1>4 DEF ResumeApp, Simple, Enter, Opened, At, flags, object
  <2>3. /\ ObjectType' /\ ListType' /\ UserType'
        /\ InstalledType' /\ HistoryType' /\ ProcessType' /\ monitors' \in Seq(MonitorState)
    BY <1>0, <1>4, ConstAssumption
    DEF ResumeApp, Simple, Enter, ObjectType, TypeParted, flags, object, ListType, UserType,
        InstalledType, processes, HistoryType, history, ProcessType
  <2>. QED BY <2>1, <2>2, <2>3, TypeWhole DEF TypeInv
<1>5. ASSUME RunApp PROVE TypeInv'
  <2>1. Planned'
    BY <1>5 DEF RunApp, Simple, Enter, Planned, One, Two, Three, Four
  <2>2. Opened'
    BY <1>0, <1>5 DEF RunApp, Simple, Enter, Opened, At, flags, object
  <2>3. /\ ObjectType' /\ ListType' /\ UserType'
        /\ InstalledType' /\ HistoryType' /\ ProcessType' /\ monitors' \in Seq(MonitorState)
    BY <1>0, <1>5, ConstAssumption
    DEF RunApp, Simple, Enter, ObjectType, TypeParted, flags, object, ListType, UserType,
        InstalledType, processes, HistoryType, history, ProcessType
  <2>. QED BY <2>1, <2>2, <2>3, TypeWhole DEF TypeInv
<1>6. ASSUME ForceInject PROVE TypeInv'
  <2>1. Planned'
    BY <1>6 DEF ForceInject, Simple, Enter, Planned, One, Two, Three, Four
  <2>2. Opened'
    BY <1>0, <1>6 DEF ForceInject, Simple, Enter, Opened, At, flags, object
  <2>3. /\ ObjectType' /\ ListType' /\ UserType'
        /\ InstalledType' /\ HistoryType' /\ ProcessType' /\ monitors' \in Seq(MonitorState)
    BY <1>0, <1>6, ConstAssumption
    DEF ForceInject, Simple, Enter, ObjectType, TypeParted, flags, object, ListType, UserType,
        InstalledType, processes, HistoryType, history, ProcessType
  <2>. QED BY <2>1, <2>2, <2>3, TypeWhole DEF TypeInv
<1>7. ASSUME TerminateApp PROVE TypeInv'
  <2>1. Planned'
    BY <1>7 DEF TerminateApp, Simple, Enter, Planned, One, Two, Three, Four
  <2>2. Opened'
    BY <1>0, <1>7 DEF TerminateApp, Simple, Enter, Opened, At, flags, object
  <2>3. /\ ObjectType' /\ ListType' /\ UserType'
        /\ InstalledType' /\ HistoryType' /\ ProcessType' /\ monitors' \in Seq(MonitorState)
    BY <1>0, <1>7, ConstAssumption
    DEF TerminateApp, Simple, Enter, ObjectType, TypeParted, flags, object, ListType, UserType,
        InstalledType, processes, HistoryType, history, ProcessType
  <2>. QED BY <2>1, <2>2, <2>3, TypeWhole DEF TypeInv
<1>8. ASSUME DeinitializeApp PROVE TypeInv'
  <2>1. Planned'
    BY <1>8 DEF DeinitializeApp, Simple, Enter, Planned, One, Two, Three, Four
  <2>2. Opened'
    BY <1>0, <1>8 DEF DeinitializeApp, Simple, Enter, Opened, At, flags, object
  <2>3. /\ ObjectType' /\ ListType' /\ UserType'
        /\ InstalledType' /\ HistoryType' /\ ProcessType' /\ monitors' \in Seq(MonitorState)
    BY <1>0, <1>8, ConstAssumption
    DEF DeinitializeApp, Simple, Enter, ObjectType, TypeParted, flags, object, ListType, UserType,
        InstalledType, processes, HistoryType, history, ProcessType
  <2>. QED BY <2>1, <2>2, <2>3, TypeWhole DEF TypeInv
<1>9. ASSUME DetachFromApp PROVE TypeInv'
  <2>1. Planned'
    BY <1>9, DetachTodo DEF Planned
  <2>2. Opened'
    BY <1>0, <1>9 DEF DetachFromApp, Simple, Enter, Opened, At, flags, object
  <2>3. /\ ObjectType' /\ ListType' /\ UserType'
        /\ InstalledType' /\ HistoryType' /\ ProcessType' /\ monitors' \in Seq(MonitorState)
    BY <1>0, <1>9, ConstAssumption
    DEF DetachFromApp, Simple, Enter, ObjectType, TypeParted, flags, object, ListType, UserType,
        InstalledType, processes, HistoryType, history, ProcessType
  <2>. QED BY <2>1, <2>2, <2>3, TypeWhole DEF TypeInv
<1>10. ASSUME NEW f \in Functions, InterceptFunc(f) PROVE TypeInv'
  <2>1. Planned'
    BY <1>10 DEF InterceptFunc, Enter, Planned, One, Two, Three, Four
  <2>2. Opened'
    BY <1>0, <1>10 DEF InterceptFunc, Enter, Opened, Doing, At, flags
  <2>3. /\ ObjectType' /\ UserType' /\ InstalledType'
        /\ HistoryType' /\ ProcessType' /\ monitors' \in Seq(MonitorState)
    BY <1>0, <1>10, ConstAssumption
    DEF InterceptFunc, Enter, ObjectType, TypeParted, flags, UserType, InstalledType, processes,
        HistoryType, history, ProcessType
  <2>4. ListType'
    <3>1. m_ciIntercepts' = <<[fn |-> f, sent |-> FALSE]>> \o m_ciIntercepts
          /\ \A i \in 1..Len(m_ciIntercepts) : m_ciIntercepts[i].fn # f
      BY <1>10 DEF InterceptFunc
    <3>2. /\ m_ciIntercepts' \in Seq(Node) /\ Len(m_ciIntercepts') = Len(m_ciIntercepts) + 1
          /\ m_ciIntercepts'[1].fn = f
          /\ \A i \in 2..Len(m_ciIntercepts') :
               i - 1 \in 1..Len(m_ciIntercepts) /\ m_ciIntercepts'[i] = m_ciIntercepts[i - 1]
      <4> DEFINE s == m_ciIntercepts'
      <4>1. ListType /\ s = <<[fn |-> f, sent |-> FALSE]>> \o m_ciIntercepts
        BY <1>0, <3>1 DEF TypeParted
      <4> HIDE DEF s
      <4>2. /\ s \in Seq(Node) /\ Len(s) = Len(m_ciIntercepts) + 1
            /\ s[1] = [fn |-> f, sent |-> FALSE]
            /\ \A i \in 2..Len(s) :
                 i - 1 \in 1..Len(m_ciIntercepts) /\ s[i] = m_ciIntercepts[i - 1]
        BY <4>1, ConsList, ZenonT(30)
      <4>3. s[1].fn = f
        BY <4>2
      <4>. QED BY <4>2, <4>3 DEF s
    <3>3. ASSUME NEW i \in 1..Len(m_ciIntercepts'), NEW j \in 1..Len(m_ciIntercepts'),
                 m_ciIntercepts'[i].fn = m_ciIntercepts'[j].fn
          PROVE  i = j
      <4>1. i = 1 \/ i \in 2..Len(m_ciIntercepts')
        BY <3>2
      <4>2. j = 1 \/ j \in 2..Len(m_ciIntercepts')
        BY <3>2
      <4>3. CASE i = 1 /\ j \in 2..Len(m_ciIntercepts')
        BY <3>1, <3>2, <3>3, <4>3
      <4>4. CASE j = 1 /\ i \in 2..Len(m_ciIntercepts')
        BY <3>1, <3>2, <3>3, <4>4
      <4>5. CASE i \in 2..Len(m_ciIntercepts') /\ j \in 2..Len(m_ciIntercepts')
        <5>1. /\ {i - 1, j - 1} \subseteq 1..Len(m_ciIntercepts)
              /\ m_ciIntercepts[i - 1].fn = m_ciIntercepts[j - 1].fn
          BY <3>2, <3>3, <4>5
        <5>2. i - 1 = j - 1
          BY <1>0, <5>1 DEF TypeParted, ListType
        <5>. QED BY <4>5, <5>2
      <4>. QED BY <4>1, <4>2, <4>3, <4>4, <4>5
    <3>. QED BY <3>2, <3>3 DEF ListType
  <2>. QED BY <2>1, <2>2, <2>3, <2>4, TypeWhole DEF TypeInv
<1>11. ASSUME SetPauseState PROVE TypeInv'
  <2>1. Planned'
    BY <1>11 DEF SetPauseState, Enter, Planned, One, Two, Three, Four
  <2>2. Opened'
    BY <1>0, <1>11 DEF SetPauseState, Enter, Opened, At, object
  <2>3. /\ ObjectType' /\ ListType' /\ UserType'
        /\ InstalledType' /\ HistoryType' /\ monitors' \in Seq(MonitorState)
    BY <1>0, <1>11, ConstAssumption
    DEF SetPauseState, Enter, ObjectType, TypeParted, object, ListType, UserType, InstalledType,
        HistoryType, history
  <2>8. ProcessType'
    <3>1. m_piProcInfo \in Processes
      BY <1>0, <1>11 DEF SetPauseState, Opened
    <3>. QED BY <1>0, <1>11, <3>1 DEF SetPauseState, ProcessType, TypeParted
  <2>. QED BY <2>1, <2>2, <2>3, <2>8, TypeWhole DEF TypeInv
<1>12. ASSUME Destroy PROVE TypeInv'
  <2>1. Planned'
    BY <1>12 DEF Destroy, Enter, Planned, One, Two, Three, Four
  <2>2. Opened'
    BY <1>0, <1>12 DEF Destroy, Enter, Opened, Doing, At, flags
  <2>3. /\ ObjectType' /\ ListType' /\ UserType'
        /\ InstalledType' /\ HistoryType' /\ ProcessType' /\ monitors' \in Seq(MonitorState)
    BY <1>0, <1>12, ConstAssumption
    DEF Destroy, Enter, ObjectType, TypeParted, flags, ListType, UserType, InstalledType,
        processes, HistoryType, history, ProcessType
  <2>. QED BY <2>1, <2>2, <2>3, TypeWhole DEF TypeInv
<1>13. ASSUME Adopt PROVE TypeInv'
  <2>1. Planned'
    BY <1>0, <1>13, PlannedAfter, PlannedFail DEF Adopt, At
  <2>2. Opened'
    BY <1>0, <1>13 DEF Adopt, Opened
  <2>3. /\ ObjectType' /\ ListType' /\ UserType'
        /\ InstalledType' /\ HistoryType' /\ ProcessType' /\ monitors' \in Seq(MonitorState)
    BY <1>0, <1>13
    DEF Adopt, ObjectType, TypeParted, ListType, UserType, InstalledType, processes, HistoryType,
        ProcessType
  <2>. QED BY <2>1, <2>2, <2>3, TypeWhole DEF TypeInv
<1>14. ASSUME Unready PROVE TypeInv'
  <2>1. Planned'
    BY <1>0, <1>14, PlannedAfter, PlannedFail DEF Unready, At
  <2>2. Opened'
    BY <1>0, <1>14, AfterPlans DEF Unready, Opened, Doing, At, object
  <2>3. /\ ObjectType' /\ ListType' /\ UserType'
        /\ InstalledType' /\ HistoryType' /\ ProcessType' /\ monitors' \in Seq(MonitorState)
    BY <1>0, <1>14
    DEF Unready, ObjectType, TypeParted, object, ListType, UserType, InstalledType, processes,
        HistoryType, history, ProcessType
  <2>. QED BY <2>1, <2>2, <2>3, TypeWhole DEF TypeInv
<1>15. ASSUME Injected PROVE TypeInv'
  <2>1. Planned'
    BY <1>0, <1>15, PlannedAfter, PlannedFail DEF Injected, At
  <2>2. Opened'
    BY <1>0, <1>15, AfterPlans DEF Injected, Opened, Doing, At, object
  <2>3. /\ ObjectType' /\ ListType' /\ UserType'
        /\ InstalledType' /\ HistoryType' /\ ProcessType' /\ monitors' \in Seq(MonitorState)
    BY <1>0, <1>15
    DEF Injected, ObjectType, TypeParted, object, ListType, UserType, InstalledType, processes,
        HistoryType, history, ProcessType
  <2>. QED BY <2>1, <2>2, <2>3, TypeWhole DEF TypeInv
<1>16. ASSUME Unsent PROVE TypeInv'
  <2>1. Planned'
    BY <1>0, <1>16, PlannedAfter, PlannedFail DEF Unsent, AllUnsent, At
  <2>2. Opened'
    BY <1>0, <1>16, AfterPlans, Heads DEF Unsent, AllUnsent, Opened, Doing, At, flags
  <2>3. ListType'
    BY <1>0, <1>16, AllUnsentType DEF Unsent, TypeParted, ListType
  <2>4. ObjectType' /\ UserType' /\ HistoryType'
    BY <1>0, <1>16 DEF Unsent, TypeParted, ObjectType, UserType, HistoryType, flags, history
  <2>5. InstalledType' /\ ProcessType' /\ monitors' \in Seq(MonitorState)
    BY <1>0, <1>16 DEF Unsent, TypeParted, InstalledType, ProcessType, processes
  <2>. QED BY <2>1, <2>2, <2>3, <2>4, <2>5, TypeWhole DEF TypeInv
<1>17. ASSUME Remove PROVE TypeInv'
  <2>1. Planned'
    BY <1>0, <1>17, PlannedAfter, PlannedFail DEF Remove, At
  <2>2. Opened'
    BY <1>0, <1>17, AfterPlans DEF Remove, Opened, Doing, At, flags
  <2>3. /\ ObjectType' /\ ListType' /\ UserType'
        /\ InstalledType' /\ HistoryType' /\ ProcessType' /\ monitors' \in Seq(MonitorState)
    BY <1>0, <1>17
    DEF Remove, ObjectType, TypeParted, flags, At, ListType, UserType, InstalledType, processes,
        HistoryType, history, ProcessType
  <2>. QED BY <2>1, <2>2, <2>3, TypeWhole DEF TypeInv
<1>18. ASSUME BeginWalk PROVE TypeInv'
  <2>1. Planned'
    BY <1>0, <1>18, PlannedWalk, PlannedFail DEF BeginWalk, At
  <2>2. Opened'
    BY <1>0, <1>18, AfterFail, Heads DEF BeginWalk, Opened, Doing, At, flags, object
  <2>3. /\ ObjectType' /\ ListType' /\ UserType'
        /\ InstalledType' /\ HistoryType' /\ ProcessType' /\ monitors' \in Seq(MonitorState)
    BY <1>0, <1>18
    DEF BeginWalk, ObjectType, TypeParted, flags, object, ListType, UserType, ProcessType, Opened,
        InstalledType, processes, HistoryType, history
  <2>. QED BY <2>1, <2>2, <2>3, TypeWhole DEF TypeInv
<1>19. ASSUME NEW t \in ThreadIds, WalkThread(t) PROVE TypeInv'
  <2>1. Planned'
    BY <1>0, <1>19 DEF WalkThread, Planned, object
  <2>2. Opened'
    BY <1>0, <1>19 DEF WalkThread, Walking, Pausing, Opened, Doing, At, flags, object
  <2>3. /\ ObjectType' /\ ListType' /\ UserType'
        /\ InstalledType' /\ HistoryType' /\ monitors' \in Seq(MonitorState)
    BY <1>0, <1>19
    DEF WalkThread, Walking, Pausing, ObjectType, TypeParted, flags, object, ListType, UserType,
        InstalledType, HistoryType, history
  <2>8. ProcessType'
    <3>1. suspends' \in [Processes -> [ThreadIds -> Nat]]
      <4> DEFINE c == suspends[m_piProcInfo][t]
                 n == IF t \notin threads[m_piProcInfo] THEN c
                      ELSE IF Pausing THEN c + 1 ELSE IF c > 0 THEN c - 1 ELSE 0
      <4>1. suspends' = [suspends EXCEPT ![m_piProcInfo][t] = n]
        BY <1>19 DEF WalkThread
      <4>2. m_piProcInfo \in Processes => n \in Nat
        BY <1>0 DEF TypeParted, ProcessType
      <4> HIDE DEF n
      <4>. QED BY <1>0, <4>1, <4>2, CountType DEF TypeParted, ProcessType
    <3>. QED BY <1>0, <1>19, <3>1 DEF WalkThread, ProcessType, TypeParted
  <2>. QED BY <2>1, <2>2, <2>3, <2>8, TypeWhole DEF TypeInv
<1>20. ASSUME WalkStops PROVE TypeInv'
  <2>1. Planned'
    BY <1>0, <1>20, PlannedAfter, PlannedFail DEF WalkStops, Walking, Pausing, At
  <2>2. Opened'
    BY <1>0, <1>20, AfterFail, Heads
    DEF WalkStops, Walking, Pausing, Opened, Doing, At, flags, object
  <2>3. /\ ObjectType' /\ ListType' /\ UserType'
        /\ InstalledType' /\ HistoryType' /\ ProcessType' /\ monitors' \in Seq(MonitorState)
    BY <1>0, <1>20
    DEF WalkStops, Walking, Pausing, ObjectType, TypeParted, flags, object, ListType, UserType,
        InstalledType, processes, HistoryType, ProcessType
  <2>. QED BY <2>1, <2>2, <2>3, TypeWhole DEF TypeInv
<1>21. ASSUME EndWalk PROVE TypeInv'
  <2>1. Planned'
    BY <1>0, <1>21, PlannedAfter, PlannedFail DEF EndWalk, Walking, Pausing, At
  <2>2. Opened'
    BY <1>0, <1>21, AfterPlans, Heads DEF EndWalk, Walking, Pausing, Opened, Doing, At, object
  <2>3. /\ ObjectType' /\ ListType' /\ UserType'
        /\ InstalledType' /\ HistoryType' /\ ProcessType' /\ monitors' \in Seq(MonitorState)
    BY <1>0, <1>21
    DEF EndWalk, Walking, Pausing, ObjectType, TypeParted, object, ListType, UserType,
        InstalledType, processes, HistoryType, history, ProcessType
  <2>. QED BY <2>1, <2>2, <2>3, TypeWhole DEF TypeInv
<1>22. ASSUME Construct PROVE TypeInv'
  <2>0. m_piProcInfo \in Processes
    BY <1>0, <1>22, AtPlans DEF Construct, Opened, Doing, At
  <2>1. Planned'
    BY <1>0, <1>22, PlannedAfter DEF Construct, At
  <2>2. Opened'
    BY <1>0, <1>22, AfterPlans, Heads DEF Construct, Opened, Doing, At, flags
  <2>3. /\ suspends' \in [Processes -> [ThreadIds -> Nat]] /\ fresh' \subseteq Processes
        /\ gaveUp' \in {gaveUp, gaveUp \cup {"inject"}}
    BY <1>0, <1>22, <2>0, InjectingStep, Injecting
  <2>4. /\ ObjectType' /\ ListType' /\ UserType'
        /\ InstalledType' /\ HistoryType' /\ monitors' \in Seq(MonitorState)
    BY <1>0, <1>22, <2>3
    DEF Construct, ObjectType, TypeParted, flags, ListType, UserType, InstalledType, HistoryType
  <2>5. threads' \in [Processes -> SUBSET ThreadIds]
    <3>1. /\ threads \in [Processes -> SUBSET ThreadIds]
          /\ threads[m_piProcInfo] \cup {"server"} \in SUBSET ThreadIds
      BY <1>0, <2>0 DEF ProcessType, TypeParted, ThreadIds
    <3>2. \/ UNCHANGED threads
          \/ threads' = [threads EXCEPT ![m_piProcInfo] = threads[m_piProcInfo] \cup {"server"}]
      BY <1>22, InjectingStep
    <3>. QED BY <3>1, <3>2
  <2>6. ProcessType'
    BY <1>0, <1>22, <2>0, <2>3, <2>5 DEF Construct, ProcessType, TypeParted
  <2>. QED BY <2>1, <2>2, <2>4, <2>6, TypeWhole DEF TypeInv
<1>23. ASSUME ConstructThrows PROVE TypeInv'
  <2>0. m_piProcInfo \in Processes
    BY <1>0, <1>23, AtPlans DEF ConstructThrows, Opened, Doing, At
  <2>1. Planned'
    BY <1>0, <1>23, PlannedAfter, PlannedFail DEF ConstructThrows, At
  <2>2. Opened'
    BY <1>0, <1>23, AfterFail DEF ConstructThrows, Opened, Doing, At, flags, object
  <2>3. /\ suspends' \in [Processes -> [ThreadIds -> Nat]] /\ fresh' \subseteq Processes
        /\ gaveUp' \in {gaveUp, gaveUp \cup {"inject"}}
    BY <1>0, <1>23, <2>0, InjectingStep, Injecting
  <2>4. /\ ObjectType' /\ ListType' /\ UserType'
        /\ InstalledType' /\ HistoryType' /\ monitors' \in Seq(MonitorState)
    BY <1>0, <1>23, <2>3
    DEF ConstructThrows, ObjectType, TypeParted, flags, object, ListType, UserType,
        InstalledType, HistoryType
  <2>5. threads' \in [Processes -> SUBSET ThreadIds]
    <3>1. /\ threads \in [Processes -> SUBSET ThreadIds]
          /\ threads[m_piProcInfo] \cup {"server"} \in SUBSET ThreadIds
      BY <1>0, <2>0 DEF ProcessType, TypeParted, ThreadIds
    <3>2. \/ UNCHANGED threads
          \/ threads' = [threads EXCEPT ![m_piProcInfo] = threads[m_piProcInfo] \cup {"server"}]
      BY <1>23, InjectingStep
    <3>. QED BY <3>1, <3>2
  <2>6. ProcessType'
    BY <1>0, <1>23, <2>0, <2>3, <2>5 DEF ConstructThrows, ProcessType, TypeParted
  <2>. QED BY <2>1, <2>2, <2>4, <2>6, TypeWhole DEF TypeInv
<1>24. ASSUME BeginSend PROVE TypeInv'
  <2>1. Planned'
    BY <1>0, <1>24, PlannedAfter, PlannedSend DEF BeginSend, Succeed, At
  <2>2. Opened'
    <3>1. At("send") /\ UNCHANGED <<call, m_bReady, m_piProcInfo, m_hProcess>>
      BY <1>24 DEF BeginSend, flags, object
    <3>2. CASE m_bReady
      <4>1. todo' \in {One("sending"), Two("sending", "injected")}
        BY <1>0, <1>24, <3>2, PlannedSend DEF BeginSend
      <4>. QED BY <1>0, <3>1, <3>2, <4>1, Heads DEF Opened, Doing, At
    <3>3. CASE ~m_bReady
      <4>1. todo' \in {One("injected"), <<>>}
        BY <1>0, <1>24, <3>3, AfterPlans DEF BeginSend, Succeed
      <4>. QED BY <1>0, <3>1, <3>3, <4>1, Heads DEF Opened, Doing, At
    <3>. QED BY <3>2, <3>3
  <2>3. /\ ObjectType' /\ ListType' /\ UserType'
        /\ InstalledType' /\ HistoryType' /\ ProcessType' /\ monitors' \in Seq(MonitorState)
    BY <1>0, <1>24
    DEF BeginSend, ObjectType, TypeParted, flags, object, ListType, UserType, InstalledType,
        processes, HistoryType, history, ProcessType
  <2>. QED BY <2>1, <2>2, <2>3, TypeWhole DEF TypeInv
<1>25. ASSUME SendIntercept PROVE TypeInv'
  <2>1. Planned'
    BY <1>0, <1>25 DEF SendIntercept, Planned, user
  <2>2. Opened'
    BY <1>0, <1>25 DEF SendIntercept, Opened, Doing, At, flags, user
  <2>3. ObjectType' /\ UserType' /\ HistoryType' /\ ProcessType' /\ monitors' \in Seq(MonitorState)
    BY <1>0, <1>25
    DEF SendIntercept, ObjectType, TypeParted, flags, UserType, user, HistoryType, history,
        ProcessType
  <2>4. ListType'
    <3>1. First(Pending) \in 1..Len(m_ciIntercepts)
      BY <1>0, <1>25, FirstPending DEF SendIntercept, TypeParted
    <3>2. m_ciIntercepts' = [m_ciIntercepts EXCEPT ![First(Pending)].sent = TRUE]
      BY <1>25 DEF SendIntercept
    <3> DEFINE s == m_ciIntercepts'
    <3>3. ListType /\ s = MarkAt(First(Pending))
      BY <1>0, <3>2 DEF TypeParted, MarkAt
    <3> HIDE DEF s
    <3>4. /\ s \in Seq(Node) /\ Len(s) = Len(m_ciIntercepts)
          /\ \A j \in 1..Len(m_ciIntercepts) : s[j].fn = m_ciIntercepts[j].fn
      BY <3>1, <3>3, MarkedSent
    <3>. QED BY <3>3, <3>4 DEF ListType, s
  <2>6. InstalledType'
    <3>1. First(Pending) \in 1..Len(m_ciIntercepts)
      BY <1>0, <1>25, FirstPending DEF SendIntercept, TypeParted
    <3> DEFINE f == m_ciIntercepts[First(Pending)].fn
    <3>2. f \in Functions
      <4>1. m_ciIntercepts[First(Pending)] \in Node
        BY <1>0, <3>1 DEF TypeParted, ListType
      <4>. QED BY <4>1 DEF Node
    <3>3. \/ UNCHANGED installed
          \/ installed' = [installed EXCEPT ![m_heatNGapp][f] = @ + 1]
      BY <1>25 DEF SendIntercept
    <3> HIDE DEF f
    <3>4. installed \in [Processes -> [Functions -> Nat]]
      BY <1>0 DEF TypeParted, InstalledType
    <3>5. installed' \in [Processes -> [Functions -> Nat]]
      <4>1. CASE m_heatNGapp \in Processes
        BY <3>2, <3>3, <3>4, <4>1
      <4>2. CASE m_heatNGapp \notin Processes
        BY <3>3, <3>4, <4>2
      <4>. QED BY <4>1, <4>2
    <3>6. blocked' = FALSE
      BY <1>25 DEF SendIntercept
    <3>. QED BY <3>5, <3>6 DEF InstalledType
  <2>. QED BY <2>1, <2>2, <2>3, <2>4, <2>6, TypeWhole DEF TypeInv
<1>26. ASSUME SendDone PROVE TypeInv'
  <2>1. Planned'
    BY <1>0, <1>26, PlannedAfter, PlannedFail DEF SendDone, At
  <2>2. Opened'
    BY <1>0, <1>26, AfterPlans, Heads DEF SendDone, Opened, Doing, At, flags, object
  <2>3. /\ ObjectType' /\ ListType' /\ UserType'
        /\ InstalledType' /\ HistoryType' /\ ProcessType' /\ monitors' \in Seq(MonitorState)
    BY <1>0, <1>26
    DEF SendDone, ObjectType, TypeParted, flags, object, ListType, UserType, InstalledType,
        processes, HistoryType, history, ProcessType
  <2>. QED BY <2>1, <2>2, <2>3, TypeWhole DEF TypeInv
<1>27. ASSUME Kill PROVE TypeInv'
  <2>1. Planned'
    BY <1>0, <1>27, PlannedAfter, PlannedFail DEF Kill, AllUnsent, At
  <2>2. Opened'
    BY <1>0, <1>27, AfterPlans, Heads DEF Kill, AllUnsent, Opened, Doing, At
  <2>3. ListType'
    BY <1>0, <1>27, AllUnsentType DEF Kill, TypeParted, ListType
  <2>4. ObjectType' /\ UserType' /\ HistoryType'
    BY <1>0, <1>27 DEF Kill, TypeParted, ObjectType, UserType, HistoryType, history
  <2>5. InstalledType' /\ ProcessType' /\ monitors' \in Seq(MonitorState)
    BY <1>0, <1>27 DEF Kill, TypeParted, InstalledType, ProcessType
  <2>. QED BY <2>1, <2>2, <2>3, <2>4, <2>5, TypeWhole DEF TypeInv
<1>28. ASSUME KillFails PROVE TypeInv'
  <2>1. Planned'
    BY <1>0, <1>28, PlannedAfter, PlannedFail DEF KillFails, At
  <2>2. Opened'
    BY <1>0, <1>28, AfterFail DEF KillFails, Opened, Doing, At, flags, object
  <2>3. /\ ObjectType' /\ ListType' /\ UserType'
        /\ InstalledType' /\ HistoryType' /\ ProcessType' /\ monitors' \in Seq(MonitorState)
    BY <1>0, <1>28
    DEF KillFails, ObjectType, TypeParted, flags, object, ListType, UserType, InstalledType,
        processes, HistoryType, history, ProcessType
  <2>. QED BY <2>1, <2>2, <2>3, TypeWhole DEF TypeInv
<1>29. ASSUME NEW i \in 1..Len(monitors), MonitorReads(i) PROVE TypeInv'
  <2>1. Planned'
    BY <1>0, <1>29 DEF MonitorReads, Planned, object, user
  <2>2. Opened'
    BY <1>0, <1>29 DEF MonitorReads, Opened, Doing, At, flags, object, user
  <2>3. /\ ObjectType' /\ ListType' /\ UserType'
        /\ InstalledType' /\ HistoryType' /\ ProcessType' /\ monitors' \in Seq(MonitorState)
    BY <1>0, <1>29
    DEF MonitorReads, ObjectType, TypeParted, flags, object, ListType, UserType, user,
        InstalledType, processes, HistoryType, history, ProcessType, MonitorState
  <2>. QED BY <2>1, <2>2, <2>3, TypeWhole DEF TypeInv
<1>30. ASSUME NEW i \in 1..Len(monitors), MonitorWakes(i) PROVE TypeInv'
  <2>1. Planned'
    BY <1>0, <1>30 DEF MonitorWakes, MonitorGoes, Planned, object, user
  <2>2. Opened'
    BY <1>0, <1>30 DEF MonitorWakes, MonitorGoes, Opened, Doing, At, object, user
  <2>3. /\ ObjectType' /\ ListType' /\ UserType'
        /\ InstalledType' /\ HistoryType' /\ ProcessType' /\ monitors' \in Seq(MonitorState)
    BY <1>0, <1>30, MonitorType
    DEF MonitorWakes, MonitorGoes, ObjectType, TypeParted, object, ListType, UserType, user,
        InstalledType, processes, HistoryType, history, ProcessType
  <2>. QED BY <2>1, <2>2, <2>3, TypeWhole DEF TypeInv
<1>31. ASSUME NEW i \in 1..Len(monitors), MonitorUnready(i) PROVE TypeInv'
  <2>1. Planned'
    BY <1>0, <1>31 DEF MonitorUnready, MonitorGoes, Planned, object, user
  <2>2. Opened'
    BY <1>0, <1>31 DEF MonitorUnready, MonitorGoes, Opened, Doing, At, object, user
  <2>3. /\ ObjectType' /\ ListType' /\ UserType'
        /\ InstalledType' /\ HistoryType' /\ ProcessType' /\ monitors' \in Seq(MonitorState)
    BY <1>0, <1>31, MonitorType
    DEF MonitorUnready, MonitorGoes, ObjectType, TypeParted, object, ListType, UserType, user,
        InstalledType, processes, HistoryType, history, ProcessType
  <2>. QED BY <2>1, <2>2, <2>3, TypeWhole DEF TypeInv
<1>32. ASSUME NEW i \in 1..Len(monitors), MonitorUninjected(i) PROVE TypeInv'
  <2>1. Planned'
    BY <1>0, <1>32 DEF MonitorUninjected, MonitorGoes, Planned, object, user
  <2>2. Opened'
    BY <1>0, <1>32 DEF MonitorUninjected, MonitorGoes, Opened, Doing, At, object, user
  <2>3. /\ ObjectType' /\ ListType' /\ UserType'
        /\ InstalledType' /\ HistoryType' /\ ProcessType' /\ monitors' \in Seq(MonitorState)
    BY <1>0, <1>32, MonitorType
    DEF MonitorUninjected, MonitorGoes, ObjectType, TypeParted, object, ListType, UserType, user,
        InstalledType, processes, HistoryType, history, ProcessType
  <2>. QED BY <2>1, <2>2, <2>3, TypeWhole DEF TypeInv
<1>33. ASSUME NEW p \in Processes, Exits(p) PROVE TypeInv'
  <2>1. Planned'
    BY <1>0, <1>33 DEF Exits, Planned, object, user
  <2>2. Opened'
    BY <1>0, <1>33 DEF Exits, Opened, Doing, At, flags, object, user
  <2>3. /\ ObjectType' /\ ListType' /\ UserType'
        /\ InstalledType' /\ HistoryType' /\ ProcessType' /\ monitors' \in Seq(MonitorState)
    BY <1>0, <1>33
    DEF Exits, ObjectType, TypeParted, flags, object, ListType, UserType, user, InstalledType,
        HistoryType, ProcessType
  <2>. QED BY <2>1, <2>2, <2>3, TypeWhole DEF TypeInv
<1>34. ASSUME NEW p \in Processes, WorkerStarts(p) PROVE TypeInv'
  <2>1. Planned'
    BY <1>0, <1>34 DEF WorkerStarts, Runs, Planned, object, user
  <2>2. Opened'
    BY <1>0, <1>34 DEF WorkerStarts, Runs, Opened, Doing, At, flags, object, user
  <2>3. /\ ObjectType' /\ ListType' /\ UserType'
        /\ InstalledType' /\ HistoryType' /\ ProcessType' /\ monitors' \in Seq(MonitorState)
    BY <1>0, <1>34
    DEF WorkerStarts, Runs, ObjectType, TypeParted, flags, object, ListType, UserType, user,
        InstalledType, HistoryType, history, ProcessType, ThreadIds
  <2>. QED BY <2>1, <2>2, <2>3, TypeWhole DEF TypeInv
<1>35. ASSUME NEW p \in Processes, WorkerExits(p) PROVE TypeInv'
  <2>1. Planned'
    BY <1>0, <1>35 DEF WorkerExits, Planned, object, user
  <2>2. Opened'
    BY <1>0, <1>35 DEF WorkerExits, Opened, Doing, At, flags, object, user
  <2>3. /\ ObjectType' /\ ListType' /\ UserType'
        /\ InstalledType' /\ HistoryType' /\ ProcessType' /\ monitors' \in Seq(MonitorState)
    BY <1>0, <1>35
    DEF WorkerExits, ObjectType, TypeParted, flags, object, ListType, UserType, user,
        InstalledType, HistoryType, history, ProcessType
  <2>. QED BY <2>1, <2>2, <2>3, TypeWhole DEF TypeInv
<1>36. ASSUME ServerBlocks PROVE TypeInv'
  <2>1. Planned'
    BY <1>0, <1>36 DEF ServerBlocks, Planned, At, user, object
  <2>2. Opened'
    BY <1>0, <1>36 DEF ServerBlocks, Opened, Doing, At, flags, object, user
  <2>3. /\ ObjectType' /\ ListType' /\ UserType'
        /\ InstalledType' /\ HistoryType' /\ ProcessType' /\ monitors' \in Seq(MonitorState)
    BY <1>0, <1>36
    DEF ServerBlocks, ObjectType, TypeParted, flags, object, ListType, UserType, user,
        InstalledType, HistoryType, history, ProcessType
  <2>. QED BY <2>1, <2>2, <2>3, TypeWhole DEF TypeInv
<1>37. CASE UNCHANGED vars
  BY <1>37 DEF TypeInv, TypeOK, Planned, Opened, Doing, At, vars
<1>. QED BY <1>1, <1>2, <1>3, <1>4, <1>5, <1>6, <1>7, <1>8, <1>9, <1>10, <1>11, <1>12, <1>13,
            <1>14, <1>15, <1>16, <1>17, <1>18, <1>19, <1>20, <1>21, <1>22, <1>23, <1>24, <1>25,
            <1>26, <1>27, <1>28, <1>29, <1>30, <1>31, <1>32, <1>33, <1>34, <1>35, <1>36, <1>37
         DEF Next, UserCalls, Routine, Monitor, ProcessStep

\* The object begins with an empty plan.
LEMMA InitType == Init => TypeInv
<1> SUFFICES ASSUME Init PROVE TypeInv
  OBVIOUS
<1>1. m_ciIntercepts = <<>> /\ monitors = <<>> /\ todo = <<>> /\ call = "none"
  BY DEF Init
<1>2. Planned /\ Opened
  BY <1>1 DEF Init, Planned, Opened, Doing, At
<1>3. threads \in [Processes -> SUBSET ThreadIds] /\ suspends \in [Processes -> [ThreadIds -> Nat]]
  BY DEF Init, ThreadIds
<1>4. installed \in [Processes -> [Functions -> Nat]]
  BY DEF Init
<1>5. /\ m_ciIntercepts \in Seq(Node) /\ todo \in Seq(Routines)
      /\ monitors \in Seq([pc : {"start", "wait", "ready", "injected", "done"},
                           handle : Processes \cup {NoProcess}])
      /\ Len(m_ciIntercepts) = 0
  BY <1>1
<1>6. state \in [Processes -> {"absent", "alive", "exited"}] /\ fresh \subseteq Processes
  BY DEF Init
<1>7. {m_bReady, m_bRunning, m_bInjected, m_bUseRemoteThread, destroyed} \subseteq BOOLEAN
      /\ {m_piProcInfo, m_hProcess, m_heatNGapp} \subseteq Processes \cup {NoProcess}
  BY DEF Init
<1>8. /\ walk \subseteq ThreadIds /\ calls \in 0..MaxCalls /\ opens \in 0..MaxOpens
      /\ taken \subseteq Processes /\ gaveUp \subseteq {"pause", "detach", "inject"}
      /\ exitSeen \in BOOLEAN /\ blocked \in BOOLEAN
  <2>1. calls = 0 /\ opens = 0
    BY DEF Init
  <2>2. calls \in 0..MaxCalls /\ opens \in 0..MaxOpens
    BY <2>1, ConstAssumption
  <2>3. walk = {} /\ taken = {} /\ gaveUp = {} /\ exitSeen = FALSE /\ blocked = FALSE
    BY DEF Init
  <2>. QED BY <2>2, <2>3
<1>9. TypeOK
  BY <1>3, <1>4, <1>5, <1>6, <1>7, <1>8 DEF TypeOK
<1>. QED BY <1>2, <1>9 DEF TypeInv

\* The variables have their types, the plan of every call is one of those the
\* code goes through, and the object has a process when it needs one; for any
\* number of processes, functions, attaches and calls.
THEOREM TypeCorrect == Spec => []TypeOK
<1>1. Init => TypeInv
  BY InitType
<1>2. TypeInv /\ [Next]_vars => TypeInv'
  BY NextType
<1>3. TypeInv => TypeOK
  BY DEF TypeInv
<1>. QED BY <1>1, <1>2, <1>3, PTL DEF Spec

-----------------------------------------------------------------------------
(* One object for one process: the user attaches it once (~Reuse).           *)

\* detachFromApp has marked the list unsent, or had nothing to unmark.
Detached == Doing("detachFromApp") /\ ~At("unsent")

\* Before the attach, the object is as it was constructed.
Unopened ==
  opens = 0 =>
    /\ ~m_bReady /\ ~m_bRunning /\ ~m_bInjected
    /\ m_piProcInfo = NoProcess /\ m_hProcess = NoProcess
    /\ monitors = <<>>
    /\ todo = <<>> \/ (call = "destroy" /\ ~At("resuming"))

\* A monitor waits for the process the object is attached to, and wakes when
\* that has exited.
Watching ==
  /\ At("adopt") => m_piProcInfo = NoProcess /\ ~m_bReady /\ ~m_bRunning /\ ~m_bInjected
  /\ ~At("adopt") /\ call # "destroy" => m_hProcess = m_piProcInfo
  /\ opens > 0 /\ call # "destroy" => m_hProcess \in Processes
  /\ \A i \in 1..Len(monitors) :
       (monitors[i].pc # "start" /\ call # "destroy") =>
          /\ monitors[i].handle = m_hProcess
          /\ monitors[i].pc # "wait" => state[m_hProcess] = "exited"

\* The server serves this object, and no other process has been patched.
Serving ==
  /\ m_heatNGapp \in {NoProcess, m_piProcInfo}
  /\ taken = {m_heatNGapp} \ {NoProcess}
  /\ \A p \in Processes \ {m_heatNGapp} : \A f \in Functions : installed[p][f] = 0

SingleUse == opens <= 1 /\ Unopened /\ Watching /\ Serving

-----------------------------------------------------------------------------
(* The list of intercepts and the redirections in the process.               *)

Usable == "detach" \notin gaveUp /\ call # "destroy" /\ InUse(m_piProcInfo)

\* A detach that pauses finds the application running, and paused afterwards:
\* neither check refuses while the process is alive.
DetachGoesOn ==
  call = "detachFromApp" =>
    /\ todo \in {Four("unsent", "pause", "resume", "unready"),
                 Three("pause", "resume", "unready")} =>
         m_bRunning \/ state[m_piProcInfo] = "exited"
    /\ At("resume") => ~m_bRunning

\* What is redirected is on the list, marked sent.
Marked ==
  (Usable /\ (m_bReady \/ At("sending")) /\ ~Detached)
  => \A f \in Functions : (m_heatNGapp # NoProcess /\ installed[m_heatNGapp][f] > 0) =>
       \E i \in 1..Len(m_ciIntercepts) : m_ciIntercepts[i].fn = f /\ m_ciIntercepts[i].sent

\* What is on the list has been sent, outside the calls that send it.
Sent ==
  /\ Doing("forceInject") => ~m_bInjected
  /\ destroyed => m_ciIntercepts = <<>>
  /\ (/\ Usable /\ m_bReady
      /\ \/ m_bInjected /\ ~Doing("interceptFunc") /\ ~Detached
         \/ At("injected"))
     => Pending = {}

\* A process that has been killed is not ready.
Killed == At("removeAll") => ~m_bReady

InterceptInv == DetachGoesOn /\ Killed /\ Marked /\ Sent /\ PatchedOnce

-----------------------------------------------------------------------------
(* The suspend counts.                                                       *)

Unpaused == {"pause", "inject"} \cap gaveUp = {}
AllRun(p) == \A t \in ThreadIds : suspends[p][t] = 0

\* Threads start running, and nothing suspends a thread twice, unless a walk
\* has given up.
Counts ==
  \A p \in Processes :
    /\ state[p] = "absent" => threads[p] = {}
    /\ state[p] # "exited" =>
         \A t \in ThreadIds : /\ t \notin threads[p] => suspends[p][t] = 0
                              /\ Unpaused => suspends[p][t] <= 1

\* Every thread runs while m_bRunning is set, those a pause has not reached
\* yet run, and those a resume has reached run.
FlagAndCounts ==
  (Unpaused /\ m_piProcInfo \in Processes /\ state[m_piProcInfo] = "alive") =>
    /\ (~At("pausing") /\ m_bRunning) => AllRun(m_piProcInfo)
    /\ At("pausing") => \A t \in walk : suspends[m_piProcInfo][t] = 0
    /\ At("resuming") => ~m_bRunning /\ \A t \in ThreadIds \ walk : suspends[m_piProcInfo][t] = 0

\* A process the user attaches to as running runs until the attach has set
\* the flag.
AttachedRuns ==
  (At("adopt") /\ call = "attachToRunningApp" /\ state[m_hProcess] = "alive") => AllRun(m_hProcess)

RunInv == Counts /\ FlagAndCounts /\ AttachedRuns

\* An object whose destructor has begun takes no calls.
LEMMA IdleCall == ASSUME Planned, Idle PROVE call # "destroy"
BY Heads DEF Planned, Idle

\* Only an attach adopts, ...
LEMMA AdoptNext ==
  ASSUME Planned', call' \notin {"attachToApp", "attachToRunningApp"}
  PROVE  ~At("adopt")'
BY Heads DEF Planned, At

\* ... and only these two calls send.
LEMMA SendingNext ==
  ASSUME Planned', call' \notin {"forceInject", "interceptFunc"}
  PROVE  ~At("sending")'
BY Heads DEF Planned, At

\* A call that leaves the process and its monitors alone goes on watching it.
LEMMA KeepsWatching ==
  ASSUME Planned, Planned', Watching, Idle,
         call' \notin {"destroy", "attachToApp", "attachToRunningApp"},
         UNCHANGED <<m_hProcess, m_piProcInfo, opens, monitors, state>>
  PROVE  Watching'
<1>1. call # "destroy" /\ ~At("adopt")
  BY IdleCall DEF At, Idle
<1>2. ~At("adopt")'
  BY AdoptNext
<1>. QED BY <1>1, <1>2 DEF Watching

\* Every step of an object that is used once keeps to its one process.
LEMMA NextSingle ==
  ASSUME ~Reuse, TypeInv, SingleUse, [Next]_vars
  PROVE  SingleUse'
<1>0. /\ TypeOK /\ Planned /\ Opened /\ TypeParted /\ Planned'
      /\ Unopened /\ Watching /\ Serving /\ opens <= 1 /\ opens \in Nat
  BY TypeParts, NextType DEF TypeInv, SingleUse, TypeOK
<1>1. ASSUME NEW p \in Processes, InitializeApp(p) PROVE SingleUse'
  <2>1. opens' <= 1
    BY <1>1 DEF InitializeApp
  <2>2. Unopened'
    BY <1>1 DEF InitializeApp, Unopened
  <2>3. Watching'
    BY <1>0, <1>1 DEF InitializeApp, Enter, Watching, Unopened, At
  <2>4. Serving'
    BY <1>0, <1>1 DEF InitializeApp, Serving, Unopened
  <2>. QED BY <2>1, <2>2, <2>3, <2>4 DEF SingleUse
<1>2. ASSUME NEW p \in Processes, NEW running \in BOOLEAN, Attach(p, running) PROVE SingleUse'
  <2>1. opens' <= 1
    BY <1>2 DEF Attach
  <2>2. Unopened'
    BY <1>2 DEF Attach, Unopened, flags
  <2>3. Watching'
    BY <1>0, <1>2 DEF Attach, Enter, Watching, Unopened, At, flags, processes
  <2>4. Serving'
    BY <1>0, <1>2 DEF Attach, Serving, processes
  <2>. QED BY <2>1, <2>2, <2>3, <2>4 DEF SingleUse
<1>3. ASSUME PauseApp PROVE SingleUse'
  <2>1. opens' <= 1
    BY <1>0, <1>3 DEF PauseApp, Simple
  <2>2. Unopened'
    BY <1>0, <1>3 DEF PauseApp, Simple, Unopened, flags, object
  <2>3. Watching'
    BY <1>0, <1>3, KeepsWatching DEF PauseApp, Simple, Enter, object, processes
  <2>4. Serving'
    BY <1>0, <1>3 DEF PauseApp, Simple, Serving, object, processes
  <2>. QED BY <2>1, <2>2, <2>3, <2>4 DEF SingleUse
<1>4. ASSUME ResumeApp PROVE SingleUse'
  <2>1. opens' <= 1
    BY <1>0, <1>4 DEF ResumeApp, Simple
  <2>2. Unopened'
    BY <1>0, <1>4 DEF ResumeApp, Simple, Unopened, flags, object
  <2>3. Watching'
    BY <1>0, <1>4, KeepsWatching DEF ResumeApp, Simple, Enter, object, processes
  <2>4. Serving'
    BY <1>0, <1>4 DEF ResumeApp, Simple, Serving, object, processes
  <2>. QED BY <2>1, <2>2, <2>3, <2>4 DEF SingleUse
<1>5. ASSUME RunApp PROVE SingleUse'
  <2>1. opens' <= 1
    BY <1>0, <1>5 DEF RunApp, Simple
  <2>2. Unopened'
    BY <1>0, <1>5 DEF RunApp, Simple, Unopened, flags, object
  <2>3. Watching'
    BY <1>0, <1>5, KeepsWatching DEF RunApp, Simple, Enter, object, processes
  <2>4. Serving'
    BY <1>0, <1>5 DEF RunApp, Simple, Serving, object, processes
  <2>. QED BY <2>1, <2>2, <2>3, <2>4 DEF SingleUse
<1>6. ASSUME ForceInject PROVE SingleUse'
  <2>1. opens' <= 1
    BY <1>0, <1>6 DEF ForceInject, Simple
  <2>2. Unopened'
    BY <1>0, <1>6 DEF ForceInject, Simple, Unopened, flags, object
  <2>3. Watching'
    BY <1>0, <1>6, KeepsWatching DEF ForceInject, Simple, Enter, object, processes
  <2>4. Serving'
    BY <1>0, <1>6 DEF ForceInject, Simple, Serving, object, processes
  <2>. QED BY <2>1, <2>2, <2>3, <2>4 DEF SingleUse
<1>7. ASSUME TerminateApp PROVE SingleUse'
  <2>1. opens' <= 1
    BY <1>0, <1>7 DEF TerminateApp, Simple
  <2>2. Unopened'
    BY <1>0, <1>7 DEF TerminateApp, Simple, Unopened, flags, object
  <2>3. Watching'
    BY <1>0, <1>7, KeepsWatching DEF TerminateApp, Simple, Enter, object, processes
  <2>4. Serving'
    BY <1>0, <1>7 DEF TerminateApp, Simple, Serving, object, processes
  <2>. QED BY <2>1, <2>2, <2>3, <2>4 DEF SingleUse
<1>8. ASSUME DeinitializeApp PROVE SingleUse'
  <2>1. opens' <= 1
    BY <1>0, <1>8 DEF DeinitializeApp, Simple
  <2>2. Unopened'
    BY <1>0, <1>8 DEF DeinitializeApp, Simple, Unopened, flags, object
  <2>3. Watching'
    BY <1>0, <1>8, KeepsWatching DEF DeinitializeApp, Simple, Enter, object, processes
  <2>4. Serving'
    BY <1>0, <1>8 DEF DeinitializeApp, Simple, Serving, object, processes
  <2>. QED BY <2>1, <2>2, <2>3, <2>4 DEF SingleUse
<1>9. ASSUME DetachFromApp PROVE SingleUse'
  <2>1. opens' <= 1
    BY <1>0, <1>9 DEF DetachFromApp, Simple
  <2>2. Unopened'
    BY <1>0, <1>9 DEF DetachFromApp, Simple, Unopened, flags, object
  <2>3. Watching'
    BY <1>0, <1>9, KeepsWatching DEF DetachFromApp, Simple, Enter, object, processes
  <2>4. Serving'
    BY <1>0, <1>9 DEF DetachFromApp, Simple, Serving, object, processes
  <2>. QED BY <2>1, <2>2, <2>3, <2>4 DEF SingleUse
<1>10. ASSUME NEW f \in Functions, InterceptFunc(f) PROVE SingleUse'
  <2>1. opens' <= 1
    BY <1>0, <1>10 DEF InterceptFunc
  <2>2. Unopened'
    BY <1>0, <1>10 DEF InterceptFunc, Enter, Unopened, flags
  <2>3. Watching'
    BY <1>0, <1>10, KeepsWatching DEF InterceptFunc, Enter, object, processes
  <2>4. Serving'
    BY <1>0, <1>10 DEF InterceptFunc, Serving, processes
  <2>. QED BY <2>1, <2>2, <2>3, <2>4 DEF SingleUse
<1>11. ASSUME SetPauseState PROVE SingleUse'
  <2>1. opens' <= 1
    BY <1>0, <1>11 DEF SetPauseState
  <2>2. Unopened'
    BY <1>0, <1>11 DEF SetPauseState, Unopened, object
  <2>3. Watching'
    BY <1>0, <1>11, KeepsWatching DEF SetPauseState, Enter, object, processes
  <2>4. Serving'
    BY <1>0, <1>11 DEF SetPauseState, Serving, object
  <2>. QED BY <2>1, <2>2, <2>3, <2>4 DEF SingleUse
<1>12. ASSUME Destroy PROVE SingleUse'
  <2>1. opens' <= 1
    BY <1>0, <1>12 DEF Destroy
  <2>2. Unopened'
    BY <1>0, <1>12 DEF Destroy, Enter, Unopened, At, flags
  <2>3. Watching'
    BY <1>12 DEF Destroy, Enter, Watching, At, flags, processes
  <2>4. Serving'
    BY <1>0, <1>12 DEF Destroy, Serving, processes
  <2>. QED BY <2>1, <2>2, <2>3, <2>4 DEF SingleUse
<1>13. ASSUME Adopt PROVE SingleUse'
  <2>1. opens' <= 1
    BY <1>0, <1>13 DEF Adopt
  <2>2. Unopened'
    BY <1>0, <1>13, AtPlans DEF Adopt, Unopened, At
  <2>3. Watching'
    BY <1>0, <1>13, AfterPlans, AfterFail DEF Adopt, Watching, At, processes
  <2>4. Serving'
    BY <1>0, <1>13 DEF Adopt, Serving, Watching, processes
  <2>. QED BY <2>1, <2>2, <2>3, <2>4 DEF SingleUse
<1>14. ASSUME Unready PROVE SingleUse'
  <2>1. opens' <= 1
    BY <1>0, <1>14 DEF Unready
  <2>2. Unopened'
    BY <1>0, <1>14, AfterPlans DEF Unready, Unopened, object
  <2>3. Watching'
    BY <1>0, <1>14, AfterPlans DEF Unready, Watching, At, object, processes
  <2>4. Serving'
    BY <1>0, <1>14 DEF Unready, Serving, object, processes
  <2>. QED BY <2>1, <2>2, <2>3, <2>4 DEF SingleUse
<1>15. ASSUME Injected PROVE SingleUse'
  <2>1. opens' <= 1
    BY <1>0, <1>15 DEF Injected
  <2>2. Unopened'
    BY <1>0, <1>15, AtPlans DEF Injected, Unopened, At, object
  <2>3. Watching'
    BY <1>0, <1>15, AfterPlans DEF Injected, Watching, At, object, processes
  <2>4. Serving'
    BY <1>0, <1>15 DEF Injected, Serving, object, processes
  <2>. QED BY <2>1, <2>2, <2>3, <2>4 DEF SingleUse
<1>16. ASSUME Unsent PROVE SingleUse'
  <2>1. opens' <= 1
    BY <1>0, <1>16 DEF Unsent
  <2>2. Unopened'
    BY <1>0, <1>16, AfterPlans, Heads DEF Unsent, Unopened, At, flags
  <2>3. Watching'
    BY <1>0, <1>16, AfterPlans, Heads DEF Unsent, Watching, At, flags, processes
  <2>4. Serving'
    BY <1>0, <1>16 DEF Unsent, Serving, processes
  <2>. QED BY <2>1, <2>2, <2>3, <2>4 DEF SingleUse
<1>17. ASSUME Remove PROVE SingleUse'
  <2>1. opens' <= 1
    BY <1>0, <1>17 DEF Remove
  <2>2. Unopened'
    BY <1>0, <1>17, AfterPlans DEF Remove, Unopened, flags
  <2>3. Watching'
    BY <1>0, <1>17, AfterPlans DEF Remove, Watching, At, flags, processes
  <2>4. Serving'
    BY <1>0, <1>17 DEF Remove, Serving, processes
  <2>. QED BY <2>1, <2>2, <2>3, <2>4 DEF SingleUse
<1>18. ASSUME BeginWalk PROVE SingleUse'
  <2>1. opens' <= 1
    BY <1>0, <1>18 DEF BeginWalk
  <2>2. Unopened'
    BY <1>0, <1>18, AfterFail, Heads DEF BeginWalk, Unopened, At, flags, object
  <2>3. Watching'
    BY <1>0, <1>18, AfterFail, Heads DEF BeginWalk, Watching, At, flags, object, processes
  <2>4. Serving'
    BY <1>0, <1>18 DEF BeginWalk, Serving, object, processes
  <2>. QED BY <2>1, <2>2, <2>3, <2>4 DEF SingleUse
<1>19. ASSUME NEW t \in ThreadIds, WalkThread(t) PROVE SingleUse'
  <2>1. opens' <= 1
    BY <1>0, <1>19 DEF WalkThread, Walking, Pausing
  <2>2. Unopened'
    BY <1>0, <1>19 DEF WalkThread, Walking, Pausing, Unopened, At, flags, object
  <2>3. Watching'
    BY <1>0, <1>19 DEF WalkThread, Walking, Pausing, Watching, At, flags, object
  <2>4. Serving'
    BY <1>0, <1>19 DEF WalkThread, Walking, Pausing, Serving, object
  <2>. QED BY <2>1, <2>2, <2>3, <2>4 DEF SingleUse
<1>20. ASSUME WalkStops PROVE SingleUse'
  <2>1. opens' <= 1
    BY <1>0, <1>20 DEF WalkStops, Walking, Pausing
  <2>2. Unopened'
    BY <1>0, <1>20, AfterFail DEF WalkStops, Walking, Pausing, Unopened, At, flags, object
  <2>3. Watching'
    BY <1>0, <1>20, AfterFail, Heads
    DEF WalkStops, Walking, Pausing, Watching, At, flags, object, processes
  <2>4. Serving'
    BY <1>0, <1>20 DEF WalkStops, Walking, Pausing, Serving, object, processes
  <2>. QED BY <2>1, <2>2, <2>3, <2>4 DEF SingleUse
<1>21. ASSUME EndWalk PROVE SingleUse'
  <2>1. opens' <= 1
    BY <1>0, <1>21 DEF EndWalk, Walking, Pausing
  <2>2. Unopened'
    BY <1>0, <1>21, AfterPlans DEF EndWalk, Walking, Pausing, Unopened, At, object
  <2>3. Watching'
    BY <1>0, <1>21, AfterPlans, Heads
    DEF EndWalk, Walking, Pausing, Watching, At, object, processes
  <2>4. Serving'
    BY <1>0, <1>21 DEF EndWalk, Walking, Pausing, Serving, object, processes
  <2>. QED BY <2>1, <2>2, <2>3, <2>4 DEF SingleUse
<1>22. ASSUME Construct PROVE SingleUse'
  <2>1. opens' <= 1
    BY <1>0, <1>22 DEF Construct
  <2>2. Unopened'
    BY <1>0, <1>22, AfterPlans, Heads
    DEF Construct, Unopened, At, flags
  <2>3. Watching'
    BY <1>0, <1>22, AfterPlans, Heads
    DEF Construct, Watching, At, flags
  <2>4. Serving'
    <3>1. m_piProcInfo \in Processes /\ m_piProcInfo # NoProcess
      BY <1>0, <1>22, AtPlans, ConstAssumption DEF Construct, Opened, Doing, At
    <3>2. m_heatNGapp = NoProcess /\ m_heatNGapp' = m_piProcInfo /\ taken' = taken \cup {m_piProcInfo}
          /\ UNCHANGED <<m_piProcInfo, installed>>
      BY <1>0, <1>22, <3>1 DEF Construct, Serving
    <3>3. taken' = {m_heatNGapp'} \ {NoProcess}
      BY <1>0, <3>1, <3>2 DEF Serving
    <3>4. \A p \in Processes : \A f \in Functions : installed[p][f] = 0
      BY <1>0, <3>2, ConstAssumption DEF Serving
    <3>. QED BY <3>2, <3>3, <3>4 DEF Serving
  <2>. QED BY <2>1, <2>2, <2>3, <2>4 DEF SingleUse
<1>23. ASSUME ConstructThrows PROVE SingleUse'
  <2>1. opens' <= 1
    BY <1>0, <1>23 DEF ConstructThrows
  <2>2. Unopened'
    BY <1>0, <1>23, AfterFail
    DEF ConstructThrows, Unopened, flags, object
  <2>3. Watching'
    BY <1>0, <1>23, AfterFail
    DEF ConstructThrows, Watching, At, flags, object
  <2>4. Serving'
    BY <1>0, <1>23 DEF ConstructThrows, Serving, object
  <2>. QED BY <2>1, <2>2, <2>3, <2>4 DEF SingleUse
<1>24. ASSUME BeginSend PROVE SingleUse'
  <2>1. opens' <= 1
    BY <1>0, <1>24 DEF BeginSend
  <2>2. Unopened'
    BY <1>0, <1>24, AtPlans DEF BeginSend, Unopened, flags, object
  <2>3. Watching'
    BY <1>0, <1>24, AdoptNext, AtPlans DEF BeginSend, Watching, flags, object, processes
  <2>4. Serving'
    BY <1>0, <1>24 DEF BeginSend, Serving, object, processes
  <2>. QED BY <2>1, <2>2, <2>3, <2>4 DEF SingleUse
<1>25. ASSUME SendIntercept PROVE SingleUse'
  <2>1. opens' <= 1
    BY <1>0, <1>25 DEF SendIntercept, user
  <2>2. Unopened'
    BY <1>0, <1>25 DEF SendIntercept, Unopened, At, flags, user
  <2>3. Watching'
    BY <1>0, <1>25 DEF SendIntercept, Watching, At, flags, user
  <2>4. Serving'
    <3> DEFINE f == m_ciIntercepts[First(Pending)].fn
    <3>1. \/ UNCHANGED installed
          \/ installed' = [installed EXCEPT ![m_heatNGapp][f] = @ + 1]
      BY <1>25 DEF SendIntercept
    <3>2. UNCHANGED <<m_heatNGapp, m_piProcInfo, taken>>
      BY <1>25 DEF SendIntercept
    <3>3. installed \in [Processes -> [Functions -> Nat]]
      BY <1>0 DEF TypeOK
    <3> HIDE DEF f
    <3>4. \A p \in Processes \ {m_heatNGapp} : installed'[p] = installed[p]
      BY <3>1, <3>3
    <3>. QED BY <1>0, <3>2, <3>4 DEF Serving
  <2>. QED BY <2>1, <2>2, <2>3, <2>4 DEF SingleUse
<1>26. ASSUME SendDone PROVE SingleUse'
  <2>1. opens' <= 1
    BY <1>0, <1>26 DEF SendDone
  <2>2. Unopened'
    BY <1>0, <1>26, AfterPlans DEF SendDone, Unopened, At, flags, object
  <2>3. Watching'
    BY <1>0, <1>26, AfterPlans, Heads DEF SendDone, Watching, At, flags, object, processes
  <2>4. Serving'
    BY <1>0, <1>26 DEF SendDone, Serving, object, processes
  <2>. QED BY <2>1, <2>2, <2>3, <2>4 DEF SingleUse
<1>27. ASSUME Kill PROVE SingleUse'
  <2>1. opens' <= 1
    BY <1>0, <1>27 DEF Kill
  <2>2. Unopened'
    BY <1>0, <1>27, AfterPlans DEF Kill, Unopened, At
  <2>3. Watching'
    BY <1>0, <1>27, AfterPlans, Heads DEF Kill, Watching, At
  <2>4. Serving'
    BY <1>0, <1>27 DEF Kill, Serving
  <2>. QED BY <2>1, <2>2, <2>3, <2>4 DEF SingleUse
<1>28. ASSUME KillFails PROVE SingleUse'
  <2>1. opens' <= 1
    BY <1>0, <1>28 DEF KillFails
  <2>2. Unopened'
    BY <1>0, <1>28, AfterFail DEF KillFails, Unopened, flags, object
  <2>3. Watching'
    BY <1>0, <1>28, AfterFail DEF KillFails, Watching, At, flags, object, processes
  <2>4. Serving'
    BY <1>0, <1>28 DEF KillFails, Serving, object, processes
  <2>. QED BY <2>1, <2>2, <2>3, <2>4 DEF SingleUse
<1>29. ASSUME NEW i \in 1..Len(monitors), MonitorReads(i) PROVE SingleUse'
  <2>1. opens' <= 1
    BY <1>0, <1>29 DEF MonitorReads, user
  <2>2. Unopened'
    BY <1>0, <1>29 DEF MonitorReads, Unopened, flags, object, user
  <2>3. Watching'
    BY <1>0, <1>29 DEF MonitorReads, Watching, At, flags, object, user, processes
  <2>4. Serving'
    BY <1>0, <1>29 DEF MonitorReads, Serving, object, processes
  <2>. QED BY <2>1, <2>2, <2>3, <2>4 DEF SingleUse
<1>30. ASSUME NEW i \in 1..Len(monitors), MonitorWakes(i) PROVE SingleUse'
  <2>1. opens' <= 1
    BY <1>0, <1>30 DEF MonitorWakes, MonitorGoes, user
  <2>2. Unopened'
    BY <1>0, <1>30 DEF MonitorWakes, MonitorGoes, Unopened, object, user
  <2>3. Watching'
    <3>1. opens > 0
      BY <1>0 DEF Unopened
    <3>2. monitors[i].pc = "wait" /\ monitors' = [monitors EXCEPT ![i].pc = "ready"]
          /\ UNCHANGED <<call, todo, m_hProcess, m_piProcInfo, m_bReady, m_bInjected, opens, state>>
          /\ ~m_bRunning'
      BY <1>30 DEF MonitorWakes, MonitorGoes, object, user, processes
    <3>3. call # "destroy" => monitors[i].handle = m_hProcess /\ state[m_hProcess] = "exited"
      <4>1. call # "destroy" => monitors[i].handle = m_hProcess /\ m_hProcess \in Processes
        BY <1>0, <3>1, <3>2 DEF Watching
      <4>. QED BY <1>30, <4>1, ConstAssumption DEF MonitorWakes
    <3>4. /\ Len(monitors') = Len(monitors)
          /\ \A j \in 1..Len(monitors) : /\ monitors'[j].handle = monitors[j].handle
                                        /\ monitors'[j].pc = IF j = i THEN "ready" ELSE monitors[j].pc
      BY <3>2 DEF TypeParted
    <3>. QED BY <1>0, <3>2, <3>3, <3>4 DEF Watching, At
  <2>4. Serving'
    BY <1>0, <1>30 DEF MonitorWakes, MonitorGoes, Serving, object, processes
  <2>. QED BY <2>1, <2>2, <2>3, <2>4 DEF SingleUse
<1>31. ASSUME NEW i \in 1..Len(monitors), MonitorUnready(i) PROVE SingleUse'
  <2>1. opens' <= 1
    BY <1>0, <1>31 DEF MonitorUnready, MonitorGoes, user
  <2>2. Unopened'
    BY <1>0, <1>31 DEF MonitorUnready, MonitorGoes, Unopened, object, user
  <2>3. Watching'
    BY <1>0, <1>31 DEF MonitorUnready, MonitorGoes, Watching, At, object, user, processes
  <2>4. Serving'
    BY <1>0, <1>31 DEF MonitorUnready, MonitorGoes, Serving, object, processes
  <2>. QED BY <2>1, <2>2, <2>3, <2>4 DEF SingleUse
<1>32. ASSUME NEW i \in 1..Len(monitors), MonitorUninjected(i) PROVE SingleUse'
  <2>1. opens' <= 1
    BY <1>0, <1>32 DEF MonitorUninjected, MonitorGoes, user
  <2>2. Unopened'
    BY <1>0, <1>32 DEF MonitorUninjected, MonitorGoes, Unopened, object, user
  <2>3. Watching'
    BY <1>0, <1>32 DEF MonitorUninjected, MonitorGoes, Watching, At, object, user, processes
  <2>4. Serving'
    BY <1>0, <1>32 DEF MonitorUninjected, MonitorGoes, Serving, object, processes
  <2>. QED BY <2>1, <2>2, <2>3, <2>4 DEF SingleUse
<1>33. ASSUME NEW p \in Processes, Exits(p) PROVE SingleUse'
  <2>1. opens' <= 1
    BY <1>0, <1>33 DEF Exits, user
  <2>2. Unopened'
    BY <1>0, <1>33 DEF Exits, Unopened, At, flags, object, user
  <2>3. Watching'
    BY <1>0, <1>33 DEF Exits, Watching, At, flags, object, user
  <2>4. Serving'
    BY <1>0, <1>33 DEF Exits, Serving, object
  <2>. QED BY <2>1, <2>2, <2>3, <2>4 DEF SingleUse
<1>34. ASSUME NEW p \in Processes, WorkerStarts(p) PROVE SingleUse'
  <2>1. opens' <= 1
    BY <1>0, <1>34 DEF WorkerStarts, Runs, user
  <2>2. Unopened'
    BY <1>0, <1>34 DEF WorkerStarts, Runs, Unopened, At, flags, object, user
  <2>3. Watching'
    BY <1>0, <1>34 DEF WorkerStarts, Runs, Watching, At, flags, object, user
  <2>4. Serving'
    BY <1>0, <1>34 DEF WorkerStarts, Runs, Serving, object
  <2>. QED BY <2>1, <2>2, <2>3, <2>4 DEF SingleUse
<1>35. ASSUME NEW p \in Processes, WorkerExits(p) PROVE SingleUse'
  <2>1. opens' <= 1
    BY <1>0, <1>35 DEF WorkerExits, user
  <2>2. Unopened'
    BY <1>0, <1>35 DEF WorkerExits, Unopened, At, flags, object, user
  <2>3. Watching'
    BY <1>0, <1>35 DEF WorkerExits, Watching, At, flags, object, user
  <2>4. Serving'
    BY <1>0, <1>35 DEF WorkerExits, Serving, object
  <2>. QED BY <2>1, <2>2, <2>3, <2>4 DEF SingleUse
<1>36. ASSUME ServerBlocks PROVE SingleUse'
  BY <1>0, <1>36
  DEF ServerBlocks, SingleUse, Unopened, Watching, Serving, At, flags, object, user
<1>37. CASE UNCHANGED vars
  BY <1>37 DEF SingleUse, Unopened, Watching, Serving, At, vars
<1>. QED BY <1>1, <1>2, <1>3, <1>4, <1>5, <1>6, <1>7, <1>8, <1>9, <1>10, <1>11, <1>12, <1>13,
            <1>14, <1>15, <1>16, <1>17, <1>18, <1>19, <1>20, <1>21, <1>22, <1>23, <1>24, <1>25,
            <1>26, <1>27, <1>28, <1>29, <1>30, <1>31, <1>32, <1>33, <1>34, <1>35, <1>36, <1>37
         DEF Next, UserCalls, Routine, Monitor, ProcessStep

\* Every step keeps the list in step with the redirections.
LEMMA NextIntercept ==
  ASSUME ~Reuse, TypeInv, SingleUse, InterceptInv, [Next]_vars
  PROVE  InterceptInv'
<1>0. /\ TypeOK /\ Planned /\ Opened /\ TypeParted /\ Planned' /\ TypeParted'
      /\ Unopened /\ Watching /\ Serving /\ opens <= 1 /\ opens \in Nat
      /\ DetachGoesOn /\ Killed /\ Marked /\ Sent /\ PatchedOnce
  <2>1. TypeInv'
    BY NextType
  <2>2. TypeParted'
    BY <2>1, TypePartsNext DEF TypeInv
  <2>. QED BY <2>1, <2>2, TypeParts DEF TypeInv, SingleUse, InterceptInv, TypeOK
<1>a. /\ todo # <<>> /\ call # "destroy" /\ ~At("adopt")
         => m_piProcInfo = m_hProcess /\ m_piProcInfo \in Processes
      /\ opens = 0 => m_heatNGapp = NoProcess
  BY <1>0 DEF Watching, Unopened, Serving
<1>1. ASSUME NEW p \in Processes, InitializeApp(p) PROVE InterceptInv'
  <2>1. DetachGoesOn'
    BY <1>1 DEF InitializeApp, Enter, DetachGoesOn
  <2>2. Killed'
    BY <1>1 DEF InitializeApp, Enter, Killed, At
  <2>3. Marked'
    BY <1>a, <1>1 DEF InitializeApp, Marked
  <2>4. Sent'
    <3>1. todo' = <<>> /\ ~m_bInjected' /\ ~destroyed'
      BY <1>0, <1>1 DEF InitializeApp, Enter, Idle, Unopened
    <3>. QED BY <3>1 DEF Sent, Doing, At
  <2>5. PatchedOnce'
    BY <1>0, <1>1 DEF InitializeApp, PatchedOnce
  <2>. QED BY <2>1, <2>2, <2>3, <2>4, <2>5 DEF InterceptInv
<1>2. ASSUME NEW p \in Processes, NEW running \in BOOLEAN, Attach(p, running) PROVE InterceptInv'
  <2>1. DetachGoesOn'
    BY <1>2 DEF Attach, Enter, DetachGoesOn, flags, processes
  <2>2. Killed'
    BY <1>2 DEF Attach, Killed, flags
  <2>3. Marked'
    BY <1>2 DEF Attach, Enter, Marked, At, flags, processes, history
  <2>4. Sent'
    BY <1>0, <1>2 DEF Attach, Enter, Sent, Pending, Doing, flags, processes, history
  <2>5. PatchedOnce'
    BY <1>0, <1>2 DEF Attach, PatchedOnce, processes, history
  <2>. QED BY <2>1, <2>2, <2>3, <2>4, <2>5 DEF InterceptInv
<1>3. ASSUME PauseApp PROVE InterceptInv'
  <2>1. DetachGoesOn'
    BY <1>3 DEF PauseApp, Simple, Enter, DetachGoesOn, flags, object, processes
  <2>2. Killed'
    BY <1>3 DEF PauseApp, Simple, Enter, Killed, At, flags
  <2>3. Marked'
    BY <1>0, <1>3, IdleCall
    DEF PauseApp, Simple, Enter, Marked, Usable, InUse, Detached, Doing, Idle, flags, object,
        processes, history
  <2>4. Sent'
    BY <1>0, <1>3, IdleCall
    DEF PauseApp, Simple, Enter, Sent, Pending, Usable, InUse, Detached, Doing, At, Idle, flags,
        object, processes, history
  <2>5. PatchedOnce'
    BY <1>0, <1>3 DEF PauseApp, Simple, PatchedOnce, processes, history
  <2>. QED BY <2>1, <2>2, <2>3, <2>4, <2>5 DEF InterceptInv
<1>4. ASSUME ResumeApp PROVE InterceptInv'
  <2>1. DetachGoesOn'
    BY <1>4 DEF ResumeApp, Simple, Enter, DetachGoesOn, flags, object, processes
  <2>2. Killed'
    BY <1>4 DEF ResumeApp, Simple, Enter, Killed, At, flags
  <2>3. Marked'
    BY <1>0, <1>4, IdleCall
    DEF ResumeApp, Simple, Enter, Marked, Usable, InUse, Detached, Doing, Idle, flags, object,
        processes, history
  <2>4. Sent'
    BY <1>0, <1>4, IdleCall
    DEF ResumeApp, Simple, Enter, Sent, Pending, Usable, InUse, Detached, Doing, At, Idle, flags,
        object, processes, history
  <2>5. PatchedOnce'
    BY <1>0, <1>4 DEF ResumeApp, Simple, PatchedOnce, processes, history
  <2>. QED BY <2>1, <2>2, <2>3, <2>4, <2>5 DEF InterceptInv
<1>5. ASSUME RunApp PROVE InterceptInv'
  <2>1. DetachGoesOn'
    BY <1>5 DEF RunApp, Simple, Enter, DetachGoesOn, flags, object, processes
  <2>2. Killed'
    BY <1>5 DEF RunApp, Simple, Enter, Killed, At, flags
  <2>3. Marked'
    BY <1>0, <1>5, IdleCall
    DEF RunApp, Simple, Enter, Marked, Usable, InUse, Detached, Doing, Idle, flags, object,
        processes, history
  <2>4. Sent'
    BY <1>0, <1>5, IdleCall
    DEF RunApp, Simple, Enter, Sent, Pending, Usable, InUse, Detached, Doing, At, Idle, flags,
        object, processes, history
  <2>5. PatchedOnce'
    BY <1>0, <1>5 DEF RunApp, Simple, PatchedOnce, processes, history
  <2>. QED BY <2>1, <2>2, <2>3, <2>4, <2>5 DEF InterceptInv
<1>6. ASSUME ForceInject PROVE InterceptInv'
  <2>1. DetachGoesOn'
    BY <1>6 DEF ForceInject, Simple, Enter, DetachGoesOn, flags, object, processes
  <2>2. Killed'
    BY <1>6 DEF ForceInject, Simple, Enter, Killed, At, flags
  <2>3. Marked'
    BY <1>0, <1>6, IdleCall
    DEF ForceInject, Simple, Enter, Marked, Usable, InUse, Detached, Doing, Idle, flags, object,
        processes, history
  <2>4. Sent'
    BY <1>0, <1>6
    DEF ForceInject, Simple, Enter, Sent, Pending, At, flags, object, processes, history
  <2>5. PatchedOnce'
    BY <1>0, <1>6 DEF ForceInject, Simple, PatchedOnce, processes, history
  <2>. QED BY <2>1, <2>2, <2>3, <2>4, <2>5 DEF InterceptInv
<1>7. ASSUME TerminateApp PROVE InterceptInv'
  <2>1. DetachGoesOn'
    BY <1>7 DEF TerminateApp, Simple, Enter, DetachGoesOn, flags, object, processes
  <2>2. Killed'
    BY <1>7 DEF TerminateApp, Simple, Enter, Killed, At, flags
  <2>3. Marked'
    BY <1>0, <1>7, IdleCall
    DEF TerminateApp, Simple, Enter, Marked, Usable, InUse, Detached, Doing, Idle, flags, object,
        processes, history
  <2>4. Sent'
    BY <1>0, <1>7, IdleCall
    DEF TerminateApp, Simple, Enter, Sent, Pending, Usable, InUse, Detached, Doing, At, Idle,
        flags, object, processes, history
  <2>5. PatchedOnce'
    BY <1>0, <1>7 DEF TerminateApp, Simple, PatchedOnce, processes, history
  <2>. QED BY <2>1, <2>2, <2>3, <2>4, <2>5 DEF InterceptInv
<1>8. ASSUME DeinitializeApp PROVE InterceptInv'
  <2>1. DetachGoesOn'
    BY <1>8 DEF DeinitializeApp, Simple, Enter, DetachGoesOn, flags, object, processes
  <2>2. Killed'
    BY <1>8 DEF DeinitializeApp, Simple, Enter, Killed, At, flags
  <2>3. Marked'
    BY <1>0, <1>8, IdleCall
    DEF DeinitializeApp, Simple, Enter, Marked, Usable, InUse, Detached, Doing, Idle, flags,
        object, processes, history
  <2>4. Sent'
    BY <1>0, <1>8, IdleCall
    DEF DeinitializeApp, Simple, Enter, Sent, Pending, Usable, InUse, Detached, Doing, At, Idle,
        flags, object, processes, history
  <2>5. PatchedOnce'
    BY <1>0, <1>8 DEF DeinitializeApp, Simple, PatchedOnce, processes, history
  <2>. QED BY <2>1, <2>2, <2>3, <2>4, <2>5 DEF InterceptInv
<1>9. ASSUME DetachFromApp PROVE InterceptInv'
  <2>1. DetachGoesOn'
    <3>1. UNCHANGED m_bRunning
      BY <1>9 DEF DetachFromApp, Simple, flags
    <3>2. Two("unsent", "unready") # Four("unsent", "pause", "resume", "unready")
      <4>1. Head(Tail(Two("unsent", "unready"))) = "unready"
        BY Heads, Tails
      <4>2. Head(Tail(Four("unsent", "pause", "resume", "unready"))) = "pause"
        <5>1. Tail(Four("unsent", "pause", "resume", "unready")) = Three("pause", "resume", "unready")
          BY Tails
        <5>. QED BY <5>1, Heads
      <4>. QED BY <4>1, <4>2
    <3>3. /\ ~At("resume")'
          /\ todo' \in {Four("unsent", "pause", "resume", "unready"),
                       Three("pause", "resume", "unready")} => m_bRunning
      BY <1>9, <3>2, DetachTodo, Heads DEF At
    <3>. QED BY <3>1, <3>3 DEF DetachGoesOn
  <2>2. Killed'
    BY <1>9 DEF DetachFromApp, Simple, Enter, Killed, At, flags
  <2>3. Marked'
    BY <1>0, <1>9, IdleCall
    DEF DetachFromApp, Simple, Enter, Marked, Usable, InUse, Detached, Doing, Idle, flags, object,
        processes, history
  <2>4. Sent'
    BY <1>0, <1>9, IdleCall
    DEF DetachFromApp, Simple, Enter, Sent, Pending, Usable, InUse, Detached, Doing, At, Idle,
        flags, object, processes, history
  <2>5. PatchedOnce'
    BY <1>0, <1>9 DEF DetachFromApp, Simple, PatchedOnce, processes, history
  <2>. QED BY <2>1, <2>2, <2>3, <2>4, <2>5 DEF InterceptInv
<1>10. ASSUME NEW f \in Functions, InterceptFunc(f) PROVE InterceptInv'
  <2>1. DetachGoesOn'
    BY <1>10 DEF InterceptFunc, Enter, DetachGoesOn, flags, processes
  <2>2. Killed'
    BY <1>10 DEF InterceptFunc, Enter, Killed, At, flags
  <2>3. Marked'
    BY <1>0, <1>10, IdleCall
    DEF InterceptFunc, Enter, Marked, Usable, InUse, Detached, Doing, At, Idle, flags, processes,
        history
  <2>4. Sent'
    BY <1>10 DEF InterceptFunc, Enter, Sent, Pending, Doing, At, Idle, flags, processes, history
  <2>5. PatchedOnce'
    BY <1>0, <1>10 DEF InterceptFunc, PatchedOnce, processes, history
  <2>. QED BY <2>1, <2>2, <2>3, <2>4, <2>5 DEF InterceptInv
<1>11. ASSUME SetPauseState PROVE InterceptInv'
  <2>1. DetachGoesOn'
    BY <1>11 DEF SetPauseState, Enter, DetachGoesOn, object
  <2>2. Killed'
    BY <1>11 DEF SetPauseState, Enter, Killed, At
  <2>3. Marked'
    BY <1>0, <1>11, IdleCall
    DEF SetPauseState, Enter, Marked, Usable, InUse, Detached, Doing, Idle, object, history
  <2>4. Sent'
    BY <1>0, <1>11, IdleCall
    DEF SetPauseState, Enter, Sent, Pending, Usable, InUse, Detached, Doing, At, Idle, object,
        history
  <2>5. PatchedOnce'
    BY <1>0, <1>11 DEF SetPauseState, PatchedOnce, history
  <2>. QED BY <2>1, <2>2, <2>3, <2>4, <2>5 DEF InterceptInv
<1>12. ASSUME Destroy PROVE InterceptInv'
  <2>1. DetachGoesOn'
    BY <1>12 DEF Destroy, Enter, DetachGoesOn, flags, processes
  <2>2. Killed'
    BY <1>12 DEF Destroy, Enter, Killed, At, flags
  <2>3. Marked'
    BY <1>12 DEF Destroy, Enter, Marked, Usable, flags, processes, history
  <2>4. Sent'
    BY <1>0, <1>12 DEF Destroy, Enter, Sent, Pending, Usable, Doing, flags, processes, history
  <2>5. PatchedOnce'
    BY <1>0, <1>12 DEF Destroy, PatchedOnce, processes, history
  <2>. QED BY <2>1, <2>2, <2>3, <2>4, <2>5 DEF InterceptInv
<1>13. ASSUME Adopt PROVE InterceptInv'
  <2>1. DetachGoesOn'
    BY <1>0, <1>13, AfterPlans, AfterFail, Heads DEF Adopt, DetachGoesOn, At, processes
  <2>2. Killed'
    BY <1>0, <1>13, AfterPlans, AfterFail DEF Adopt, Killed, At
  <2>3. Marked'
    <3>1. m_heatNGapp = NoProcess /\ UNCHANGED m_heatNGapp
      BY <1>0, <1>13 DEF Adopt, Watching, Serving
    <3>. QED BY <3>1 DEF Marked
  <2>4. Sent'
    <3>1. todo' = <<>> /\ ~m_bInjected' /\ UNCHANGED <<destroyed, m_ciIntercepts>>
      BY <1>0, <1>13, AfterPlans, AfterFail DEF Adopt, Watching
    <3>. QED BY <1>0, <3>1 DEF Sent, Doing, At
  <2>5. PatchedOnce'
    BY <1>0, <1>13 DEF Adopt, PatchedOnce, processes
  <2>. QED BY <2>1, <2>2, <2>3, <2>4, <2>5 DEF InterceptInv
<1>14. ASSUME Unready PROVE InterceptInv'
  <2>1. DetachGoesOn'
    BY <1>0, <1>14, AfterPlans, Heads DEF Unready, DetachGoesOn, At, object, processes
  <2>2. Killed'
    BY <1>14 DEF Unready, Killed
  <2>3. Marked'
    BY <1>0, <1>14, AfterPlans DEF Unready, Marked, At, object, processes, history
  <2>4. Sent'
    BY <1>0, <1>14 DEF Unready, Sent, Pending, Doing, At, object, processes, history
  <2>5. PatchedOnce'
    BY <1>0, <1>14 DEF Unready, PatchedOnce, processes, history
  <2>. QED BY <2>1, <2>2, <2>3, <2>4, <2>5 DEF InterceptInv
<1>15. ASSUME Injected PROVE InterceptInv'
  <2>1. DetachGoesOn'
    BY <1>0, <1>15, AfterPlans, Heads DEF Injected, DetachGoesOn, At, object, processes
  <2>2. Killed'
    BY <1>0, <1>15, AfterPlans DEF Injected, Killed, At
  <2>3. Marked'
    BY <1>0, <1>15, AfterPlans, AtPlans
    DEF Injected, Marked, Usable, InUse, Detached, Doing, At, object, processes, history
  <2>4. Sent'
    BY <1>0, <1>15, AfterPlans
    DEF Injected, Sent, Pending, Usable, InUse, Doing, object, processes, history
  <2>5. PatchedOnce'
    BY <1>0, <1>15 DEF Injected, PatchedOnce, processes, history
  <2>. QED BY <2>1, <2>2, <2>3, <2>4, <2>5 DEF InterceptInv
<1>16. ASSUME Unsent PROVE InterceptInv'
  <2>1. DetachGoesOn'
    <3>1. /\ todo = Four("unsent", "pause", "resume", "unready") \/ todo = Two("unsent", "unready")
          /\ todo' = Tail(todo)
          /\ UNCHANGED <<call, m_bRunning, m_piProcInfo, state>>
      BY <1>0, <1>16, AtPlans DEF Unsent, Succeed, flags, processes
    <3>2. CASE todo = Four("unsent", "pause", "resume", "unready")
      <4>1. ~At("resume")'
        <5>1. todo' = Three("pause", "resume", "unready")
          BY <3>1, <3>2, Tails
        <5>. QED BY <5>1, Heads DEF At
      <4>. QED BY <1>0, <3>1, <3>2, <4>1 DEF DetachGoesOn
    <3>3. CASE todo = Two("unsent", "unready")
      <4>1. todo' = One("unready")
        BY <3>1, <3>3, Tails
      <4>. QED BY <4>1, Heads DEF DetachGoesOn, At
    <3>. QED BY <3>1, <3>2, <3>3
  <2>2. Killed'
    BY <1>0, <1>16, AfterPlans, Heads DEF Unsent, Killed, At, flags
  <2>3. Marked'
    BY <1>0, <1>16, AfterPlans, AtPlans, Heads
    DEF Unsent, Marked, Detached, Doing, At, flags, processes, history
  <2>4. Sent'
    <3>1. /\ call' = "detachFromApp" /\ UNCHANGED destroyed
          /\ todo' \in {Three("pause", "resume", "unready"), One("unready")}
          /\ m_ciIntercepts' = AllUnsent
      BY <1>0, <1>16, AtPlans, AfterPlans DEF Unsent
    <3>2. Detached' /\ ~At("injected")' /\ call' # "forceInject"
      BY <3>1, Heads DEF Detached, Doing, At
    <3>3. destroyed' => m_ciIntercepts' = <<>>
      <4>1. destroyed => AllUnsent \in Seq(Node) /\ Len(AllUnsent) = 0
        BY <1>0, AllUnsentType DEF Sent, TypeParted
      <4>. QED BY <3>1, <4>1
    <3>. QED BY <3>2, <3>3 DEF Sent, Doing
  <2>5. PatchedOnce'
    BY <1>0, <1>16 DEF Unsent, PatchedOnce, processes, history
  <2>. QED BY <2>1, <2>2, <2>3, <2>4, <2>5 DEF InterceptInv
<1>17. ASSUME Remove PROVE InterceptInv'
  <2>1. DetachGoesOn'
    BY <1>0, <1>17, AfterPlans, Heads DEF Remove, DetachGoesOn, At, flags, processes
  <2>2. Killed'
    BY <1>0, <1>17, AfterPlans DEF Remove, Killed, At, flags
  <2>3. Marked'
    <3>1. /\ todo' = <<>> /\ UNCHANGED <<call, m_bReady>>
          /\ call = "destroy" \/ ~m_bReady
      BY <1>0, <1>17, AtPlans, AfterPlans DEF Remove, Killed, flags
    <3>. QED BY <3>1 DEF Marked, Usable, At
  <2>4. Sent'
    BY <1>0, <1>17 DEF Remove, Sent, Pending, Doing, At, flags, processes, history
  <2>5. PatchedOnce'
    BY <1>0, <1>17 DEF Remove, PatchedOnce, processes, history
  <2>. QED BY <2>1, <2>2, <2>3, <2>4, <2>5 DEF InterceptInv
<1>18. ASSUME BeginWalk PROVE InterceptInv'
  <2>1. DetachGoesOn'
    BY <1>0, <1>18, AfterFail, Heads DEF BeginWalk, DetachGoesOn, At, flags, object, processes
  <2>2. Killed'
    BY <1>0, <1>18, AfterFail, Heads DEF BeginWalk, Killed, At, flags
  <2>3. Marked'
    <3>1. UNCHANGED <<flags, object, call, processes, history>>
      BY <1>18 DEF BeginWalk
    <3>2. CASE Usable' /\ m_bReady'
      <4>1. Usable /\ m_bReady /\ InUse(m_piProcInfo)
        BY <3>1, <3>2 DEF Usable, InUse, flags, object, processes, history
      <4>2. CASE m_bRunning = At("pause")
        <5>1. /\ At("pause") => todo' \in {One("pausing"), Three("pausing", "resume", "unready")}
              /\ ~At("pause") => todo' \in {One("resuming"), Two("resuming", "unready"),
                                            Two("resuming", "destroy")}
          BY <1>0, <1>18, <4>1, <4>2, PlannedWalk DEF BeginWalk
        <5>2. todo' # <<>> /\ ~At("unsent")' /\ ~At("sending")' /\ ~At("injected")'
          BY <5>1, Heads DEF At
        <5>3. todo # <<>> /\ ~At("unsent") /\ ~At("injected") /\ ~At("sending")
          BY <1>18 DEF BeginWalk, At
        <5>. QED BY <1>0, <3>1, <4>1, <5>2, <5>3
                 DEF Marked, Usable, InUse, Detached, Doing, Pending,
                                                       flags, object, processes, history
      <4>3. CASE m_bRunning # At("pause")
        <5>1. call # "detachFromApp"
          <6>1. At("pause") /\ call = "detachFromApp" => todo = Three("pause", "resume", "unready")
            BY <1>0, AtPlans
          <6>. QED BY <1>0, <1>18, <4>1, <4>3, <6>1
                   DEF BeginWalk, DetachGoesOn, InUse, At, TypeParted, ObjectType
        <5>2. call # "destroy"
          BY <4>1 DEF Usable
        <5>3. todo' = <<>>
          BY <1>18, <4>1, <4>3, <5>2 DEF BeginWalk, Fail
        <5>4. call # "interceptFunc" /\ call # "forceInject"
          BY <1>0, <1>18, AtPlans DEF BeginWalk
        <5>. QED BY <1>0, <3>1, <4>1, <5>1, <5>3, <5>4
                 DEF Marked, Usable, InUse, Detached, Doing, At,
                                                Pending, flags, object, processes, history
      <4>. QED BY <4>2, <4>3
    <3>3. CASE ~(Usable' /\ m_bReady')
      <4>1. ~At("sending")'
        <5>1. call \notin {"forceInject", "interceptFunc"}
          BY <1>0, <1>18, AtPlans DEF BeginWalk
        <5>. QED BY <1>0, <3>1, <5>1, SendingNext
      <4>. QED BY <3>3, <4>1 DEF Marked
    <3>. QED BY <3>2, <3>3
  <2>4. Sent'
    <3>1. UNCHANGED <<flags, object, call, processes, history>>
      BY <1>18 DEF BeginWalk
    <3>2. CASE Usable' /\ m_bReady'
      <4>1. Usable /\ m_bReady /\ InUse(m_piProcInfo)
        BY <3>1, <3>2 DEF Usable, InUse, flags, object, processes, history
      <4>2. CASE m_bRunning = At("pause")
        <5>1. /\ At("pause") => todo' \in {One("pausing"), Three("pausing", "resume", "unready")}
              /\ ~At("pause") => todo' \in {One("resuming"), Two("resuming", "unready"),
                                            Two("resuming", "destroy")}
          BY <1>0, <1>18, <4>1, <4>2, PlannedWalk DEF BeginWalk
        <5>2. todo' # <<>> /\ ~At("unsent")' /\ ~At("sending")' /\ ~At("injected")'
          BY <5>1, Heads DEF At
        <5>3. todo # <<>> /\ ~At("unsent") /\ ~At("injected") /\ ~At("sending")
          BY <1>18 DEF BeginWalk, At
        <5>. QED BY <1>0, <3>1, <4>1, <5>2, <5>3
                 DEF Sent, Usable, InUse, Detached, Doing, Pending,
                                                       flags, object, processes, history
      <4>3. CASE m_bRunning # At("pause")
        <5>1. call # "detachFromApp"
          <6>1. At("pause") /\ call = "detachFromApp" => todo = Three("pause", "resume", "unready")
            BY <1>0, AtPlans
          <6>. QED BY <1>0, <1>18, <4>1, <4>3, <6>1
                   DEF BeginWalk, DetachGoesOn, InUse, At, TypeParted, ObjectType
        <5>2. call # "destroy"
          BY <4>1 DEF Usable
        <5>3. todo' = <<>>
          BY <1>18, <4>1, <4>3, <5>2 DEF BeginWalk, Fail
        <5>4. call # "interceptFunc" /\ call # "forceInject"
          BY <1>0, <1>18, AtPlans DEF BeginWalk
        <5>. QED BY <1>0, <3>1, <4>1, <5>1, <5>3, <5>4
                 DEF Sent, Usable, InUse, Detached, Doing, At,
                                                Pending, flags, object, processes, history
      <4>. QED BY <4>2, <4>3
    <3>3. CASE ~(Usable' /\ m_bReady')
      <4>1. call # "forceInject"
        BY <1>0, <1>18, AtPlans DEF BeginWalk
      <4>. QED BY <1>0, <3>1, <3>3, <4>1 DEF Sent, Doing, object
    <3>. QED BY <3>2, <3>3
  <2>5. PatchedOnce'
    BY <1>0, <1>18 DEF BeginWalk, PatchedOnce, processes, history
  <2>. QED BY <2>1, <2>2, <2>3, <2>4, <2>5 DEF InterceptInv
<1>19. ASSUME NEW t \in ThreadIds, WalkThread(t) PROVE InterceptInv'
  <2>1. DetachGoesOn'
    BY <1>0, <1>19 DEF WalkThread, Walking, Pausing, DetachGoesOn, At, flags, object
  <2>2. Killed'
    BY <1>19 DEF WalkThread, Walking, Pausing, Killed, At, flags
  <2>3. Marked'
    BY <1>0, <1>19
    DEF WalkThread, Walking, Pausing, Marked, Usable, InUse, Detached, Doing, At, flags, object,
        history
  <2>4. Sent'
    BY <1>0, <1>19
    DEF WalkThread, Walking, Pausing, Sent, Pending, Usable, InUse, Detached, Doing, At, flags,
        object, history
  <2>5. PatchedOnce'
    BY <1>0, <1>19 DEF WalkThread, Walking, Pausing, PatchedOnce, history
  <2>. QED BY <2>1, <2>2, <2>3, <2>4, <2>5 DEF InterceptInv
<1>20. ASSUME WalkStops PROVE InterceptInv'
  <2>1. DetachGoesOn'
    BY <1>0, <1>20, AfterFail, Heads
    DEF WalkStops, Walking, Pausing, DetachGoesOn, At, flags, object, processes
  <2>2. Killed'
    BY <1>0, <1>20, AfterFail, Heads DEF WalkStops, Walking, Pausing, Killed, At, flags
  <2>3. Marked'
    BY <1>0, <1>20, AfterFail
    DEF WalkStops, Walking, Pausing, Marked, Usable, InUse, Detached, Doing, At, flags, object,
        processes
  <2>4. Sent'
    BY <1>0, <1>20, AfterFail, AtPlans
    DEF WalkStops, Walking, Pausing, Sent, Pending, Usable, InUse, Detached, Doing, At, flags,
        object, processes
  <2>5. PatchedOnce'
    BY <1>0, <1>20 DEF WalkStops, Walking, Pausing, PatchedOnce, processes
  <2>. QED BY <2>1, <2>2, <2>3, <2>4, <2>5 DEF InterceptInv
<1>21. ASSUME EndWalk PROVE InterceptInv'
  <2>1. DetachGoesOn'
    <3>1. Succeed /\ UNCHANGED call /\ m_bRunning' = ~At("pausing") /\ (At("pausing") \/ At("resuming"))
      BY <1>21 DEF EndWalk, Walking, Pausing
    <3>2. CASE At("pausing") /\ call = "detachFromApp"
      <4>1. todo' = Two("resume", "unready")
        BY <1>0, <3>1, <3>2, AfterPlans
      <4>2. Head(todo') = "resume" /\ ~m_bRunning'
        BY <3>1, <3>2, <4>1, Heads
      <4>. QED BY <4>2, Heads DEF DetachGoesOn
    <3>3. CASE At("resuming") /\ call = "detachFromApp"
      <4>1. todo' = One("unready")
        BY <1>0, <3>1, <3>3, AfterPlans
      <4>. QED BY <4>1, Heads DEF DetachGoesOn, At
    <3>. QED BY <3>1, <3>2, <3>3 DEF DetachGoesOn
  <2>2. Killed'
    BY <1>0, <1>21, AfterPlans, Heads DEF EndWalk, Walking, Pausing, Killed, At
  <2>3. Marked'
    BY <1>0, <1>21, AfterPlans, Heads
    DEF EndWalk, Walking, Pausing, Marked, Usable, InUse, Detached, Doing, At, object, processes,
        history
  <2>4. Sent'
    BY <1>0, <1>21, AfterPlans, Heads
    DEF EndWalk, Walking, Pausing, Sent, Pending, Usable, InUse, Detached, Doing, At, object,
        processes, history
  <2>5. PatchedOnce'
    BY <1>0, <1>21 DEF EndWalk, Walking, Pausing, PatchedOnce, processes, history
  <2>. QED BY <2>1, <2>2, <2>3, <2>4, <2>5 DEF InterceptInv
<1>22. ASSUME Construct PROVE InterceptInv'
  <2>0. "detach" \in gaveUp' <=> "detach" \in gaveUp
    <3>1. m_piProcInfo \in Processes
      BY <1>0, <1>22, AtPlans DEF Construct, Opened, Doing, At
    <3>. QED BY <1>0, <1>22, <3>1, InjectingStep, Injecting
  <2>1. DetachGoesOn'
    BY <1>0, <1>22, AfterPlans, Heads
    DEF Construct, DetachGoesOn, At, flags
  <2>2. Killed'
    BY <1>0, <1>22, AfterPlans, Heads
    DEF Construct, Killed, At, flags
  <2>3. Marked'
    <3>1. m_piProcInfo \in Processes /\ m_heatNGapp = NoProcess
      BY <1>0, <1>22, AtPlans, ConstAssumption DEF Construct, Opened, Doing, At, Serving
    <3>2. \A f \in Functions : installed[m_piProcInfo][f] = 0
      BY <1>0, <3>1, ConstAssumption DEF Serving
    <3>3. m_heatNGapp' = m_piProcInfo /\ UNCHANGED installed
      BY <1>22 DEF Construct
    <3>. QED BY <3>2, <3>3 DEF Marked
  <2>4. Sent'
    BY <1>0, <1>22, <2>0, AfterPlans, Heads
    DEF Construct, Sent, Pending, Usable, InUse, Detached, Doing,
        At, flags
  <2>5. PatchedOnce'
    BY <1>0, <1>22, <2>0 DEF Construct, PatchedOnce
  <2>. QED BY <2>1, <2>2, <2>3, <2>4, <2>5 DEF InterceptInv
<1>23. ASSUME ConstructThrows PROVE InterceptInv'
  <2>0. "detach" \in gaveUp' <=> "detach" \in gaveUp
    <3>1. m_piProcInfo \in Processes
      BY <1>0, <1>23, AtPlans DEF ConstructThrows, Opened, Doing, At
    <3>. QED BY <1>0, <1>23, <3>1, InjectingStep, Injecting
  <2>1. DetachGoesOn'
    BY <1>0, <1>23, AfterFail, Heads
    DEF ConstructThrows, DetachGoesOn, At, flags, object
  <2>2. Killed'
    BY <1>0, <1>23, AfterFail
    DEF ConstructThrows, Killed, At, flags
  <2>3. Marked'
    BY <1>0, <1>23, <2>0, AfterFail, AtPlans
    DEF ConstructThrows, Marked, Usable, InUse, Detached, Doing,
        At, flags, object
  <2>4. Sent'
    BY <1>0, <1>23, <2>0, AfterFail, AtPlans
    DEF ConstructThrows, Sent, Pending, Doing, At, flags, object,
        history
  <2>5. PatchedOnce'
    BY <1>0, <1>23, <2>0 DEF ConstructThrows, PatchedOnce
  <2>. QED BY <2>1, <2>2, <2>3, <2>4, <2>5 DEF InterceptInv
<1>24. ASSUME BeginSend PROVE InterceptInv'
  <2>1. DetachGoesOn'
    BY <1>0, <1>24, AtPlans DEF BeginSend, DetachGoesOn, flags, object, processes
  <2>2. Killed'
    BY <1>24 DEF BeginSend, Killed, At, flags
  <2>3. Marked'
    <3>1. /\ UNCHANGED <<flags, object, call, processes, history>>
          /\ call # "detachFromApp"
      BY <1>0, <1>24, AtPlans DEF BeginSend
    <3>2. At("sending")' => m_bReady
      <4>1. ~m_bReady => todo' \in {One("injected"), <<>>}
        BY <1>0, <1>24, AfterPlans DEF BeginSend, Succeed
      <4>. QED BY <4>1, Heads DEF At
    <3>. QED BY <1>0, <3>1, <3>2
             DEF Marked, Usable, InUse, Detached, Doing, flags, object, processes, history
  <2>4. Sent'
    BY <1>0, <1>24
    DEF BeginSend, Sent, Pending, Usable, InUse, Detached, Doing, At, flags, object, processes,
        history
  <2>5. PatchedOnce'
    BY <1>0, <1>24 DEF BeginSend, PatchedOnce, processes, history
  <2>. QED BY <2>1, <2>2, <2>3, <2>4, <2>5 DEF InterceptInv
<1>25. ASSUME SendIntercept PROVE InterceptInv'
  <2>1. DetachGoesOn'
    BY <1>0, <1>25 DEF SendIntercept, DetachGoesOn, At, flags, user
  <2>2. Killed'
    BY <1>25 DEF SendIntercept, Killed, At, flags, user
  <2>3. Marked'
    <3>1. At("sending") /\ call # "detachFromApp"
          /\ UNCHANGED <<flags, m_piProcInfo, m_heatNGapp, todo, call, state, history>>
      BY <1>0, <1>25, AtPlans DEF SendIntercept, user
    <3> DEFINE k == First(Pending)
               f == m_ciIntercepts[k].fn
    <3>2. k \in 1..Len(m_ciIntercepts) /\ ListType
      BY <1>0, <1>25, FirstPending DEF SendIntercept, TypeParted
    <3>3. m_ciIntercepts' = MarkAt(k)
      BY <1>25 DEF SendIntercept, MarkAt
    <3>4. /\ Len(m_ciIntercepts') = Len(m_ciIntercepts)
          /\ \A j \in 1..Len(m_ciIntercepts) :
               /\ m_ciIntercepts'[j].fn = m_ciIntercepts[j].fn
               /\ m_ciIntercepts'[j].sent = (m_ciIntercepts[j].sent \/ j = k)
      BY <3>2, <3>3, MarkedSent
    <3>5. \/ UNCHANGED installed
          \/ installed' = [installed EXCEPT ![m_heatNGapp][f] = @ + 1]
      BY <1>25 DEF SendIntercept
    <3>6. SUFFICES ASSUME Usable', NEW g \in Functions, m_heatNGapp # NoProcess,
                          installed'[m_heatNGapp][g] > 0
                   PROVE  \E i \in 1..Len(m_ciIntercepts) :
                            m_ciIntercepts'[i].fn = g /\ m_ciIntercepts'[i].sent
      BY <3>1, <3>4 DEF Marked
    <3>7. Usable /\ ~Detached
      BY <3>1, <3>6 DEF Usable, InUse, history, Detached, Doing
    <3>8. m_heatNGapp \in Processes /\ installed \in [Processes -> [Functions -> Nat]]
      BY <1>0, <3>6 DEF TypeParted, ObjectType, InstalledType
    <3> HIDE DEF k
    <3>9. CASE g = f
      BY <3>2, <3>4, <3>9
    <3>10. CASE g # f
      <4>1. installed[m_heatNGapp][g] > 0
        <5> HIDE DEF f
        <5>. QED BY <3>5, <3>6, <3>8, <3>10
      <4>2. PICK i \in 1..Len(m_ciIntercepts) : m_ciIntercepts[i].fn = g /\ m_ciIntercepts[i].sent
        BY <1>0, <3>1, <3>6, <3>7, <4>1 DEF Marked
      <4>. QED BY <3>4, <4>2
    <3>. QED BY <3>9, <3>10
  <2>4. Sent'
    <3>1. At("sending") /\ Pending # {} /\ UNCHANGED <<m_bInjected, todo, call, destroyed>>
      BY <1>25 DEF SendIntercept, flags, user
    <3>2. Doing("forceInject") \/ Doing("interceptFunc")
      BY <1>0, <3>1, AtPlans DEF Doing, At
    <3>3. ~destroyed
      <4>1. destroyed => Len(m_ciIntercepts) = 0
        BY <1>0 DEF Sent
      <4>. QED BY <3>1, <4>1 DEF Pending
    <3>4. ~At("injected")' /\ (Doing("interceptFunc")' \/ ~m_bInjected')
      BY <1>0, <3>1, <3>2 DEF Sent, Doing, At
    <3>. QED BY <1>0, <3>1, <3>3, <3>4 DEF Sent, Doing
  <2>5. PatchedOnce'
    <3> DEFINE k == First(Pending)
               f == m_ciIntercepts[k].fn
    <3>1. At("sending") /\ call \notin {"detachFromApp", "destroy"} /\ UNCHANGED <<gaveUp, m_heatNGapp>>
      BY <1>0, <1>25, AtPlans DEF SendIntercept, history
    <3>2. k \in 1..Len(m_ciIntercepts) /\ ~m_ciIntercepts[k].sent /\ ListType
      BY <1>0, <1>25, FirstPending DEF SendIntercept, TypeParted
    <3>3. \/ UNCHANGED installed
          \/ /\ state[m_heatNGapp] = "alive"
             /\ installed' = [installed EXCEPT ![m_heatNGapp][f] = @ + 1]
      BY <1>25 DEF SendIntercept
    <3> HIDE DEF k
    <3>4. f \in Functions
      <4>1. m_ciIntercepts[k] \in Node
        BY <3>2 DEF ListType
      <4>. QED BY <4>1 DEF Node
    <3>5. installed \in [Processes -> [Functions -> Nat]]
      BY <1>0 DEF TypeParted, InstalledType
    <3>6. CASE UNCHANGED installed
      BY <1>0, <3>1, <3>6 DEF PatchedOnce
    <3>7. CASE m_heatNGapp \notin Processes
      <4>1. \A p \in Processes : installed'[p] = installed[p]
        <5> HIDE DEF f
        <5>. QED BY <3>3, <3>5, <3>7
      <4>. QED BY <1>0, <3>1, <4>1 DEF PatchedOnce
    <3>8. CASE /\ m_heatNGapp \in Processes /\ state[m_heatNGapp] = "alive" /\ "detach" \notin gaveUp
               /\ installed' = [installed EXCEPT ![m_heatNGapp][f] = @ + 1]
      <4>1. Usable /\ ~Detached /\ m_heatNGapp # NoProcess
        BY <1>0, <3>1, <3>8, ConstAssumption DEF Usable, InUse, Detached, Doing, Serving
      <4>2. installed[m_heatNGapp][f] = 0
        <5>1. ASSUME installed[m_heatNGapp][f] > 0 PROVE FALSE
          <6>1. PICK i \in 1..Len(m_ciIntercepts) : m_ciIntercepts[i].fn = f /\ m_ciIntercepts[i].sent
            BY <1>0, <3>1, <3>4, <4>1, <5>1 DEF Marked
          <6>2. i = k
            BY <3>2, <6>1 DEF ListType
          <6>. QED BY <3>2, <6>1, <6>2
        <5>2. installed[m_heatNGapp][f] \in Nat
          BY <3>4, <3>5, <3>8
        <5>. QED BY <5>1, <5>2
      <4> HIDE DEF f
      <4>3. \A p \in Processes, g \in Functions :
              installed'[p][g] = IF p = m_heatNGapp /\ g = f THEN 1 ELSE installed[p][g]
        BY <3>4, <3>5, <3>8, <4>2
      <4>. QED BY <1>0, <3>1, <4>3 DEF PatchedOnce
    <3>. QED BY <3>1, <3>3, <3>6, <3>7, <3>8 DEF PatchedOnce
  <2>. QED BY <2>1, <2>2, <2>3, <2>4, <2>5 DEF InterceptInv
<1>26. ASSUME SendDone PROVE InterceptInv'
  <2>1. DetachGoesOn'
    BY <1>0, <1>26, AfterPlans DEF SendDone, DetachGoesOn, flags, object, processes
  <2>2. Killed'
    BY <1>0, <1>26, AfterPlans, Heads DEF SendDone, Killed, At, flags
  <2>3. Marked'
    BY <1>0, <1>26, AfterPlans
    DEF SendDone, Marked, Usable, InUse, Detached, Doing, flags, object, processes, history
  <2>4. Sent'
    BY <1>0, <1>26 DEF SendDone, Sent, Pending, Doing, At, flags, object, processes, history
  <2>5. PatchedOnce'
    BY <1>0, <1>26 DEF SendDone, PatchedOnce, processes, history
  <2>. QED BY <2>1, <2>2, <2>3, <2>4, <2>5 DEF InterceptInv
<1>27. ASSUME Kill PROVE InterceptInv'
  <2>1. DetachGoesOn'
    BY <1>0, <1>27, AfterPlans DEF Kill, DetachGoesOn
  <2>2. Killed'
    BY <1>27 DEF Kill, Killed
  <2>3. Marked'
    BY <1>0, <1>27, AfterPlans, Heads DEF Kill, Marked, At, history
  <2>4. Sent'
    <3>1. ~m_bReady' /\ ~m_bInjected' /\ UNCHANGED destroyed /\ m_ciIntercepts' = AllUnsent
      BY <1>27 DEF Kill
    <3>2. destroyed => AllUnsent \in Seq(Node) /\ Len(AllUnsent) = 0
      BY <1>0, AllUnsentType DEF Sent, TypeParted
    <3>. QED BY <3>1, <3>2 DEF Sent
  <2>5. PatchedOnce'
    BY <1>0, <1>27 DEF Kill, PatchedOnce, history
  <2>. QED BY <2>1, <2>2, <2>3, <2>4, <2>5 DEF InterceptInv
<1>28. ASSUME KillFails PROVE InterceptInv'
  <2>1. DetachGoesOn'
    BY <1>0, <1>28, AfterFail, Heads DEF KillFails, DetachGoesOn, At, flags, object, processes
  <2>2. Killed'
    BY <1>0, <1>28, AfterFail DEF KillFails, Killed, At, flags
  <2>3. Marked'
    BY <1>28 DEF KillFails, Marked, Usable, InUse, flags, object, processes, history
  <2>4. Sent'
    BY <1>0, <1>28
    DEF KillFails, Sent, Pending, Usable, InUse, Doing, At, flags, object, processes, history
  <2>5. PatchedOnce'
    BY <1>0, <1>28 DEF KillFails, PatchedOnce, processes, history
  <2>. QED BY <2>1, <2>2, <2>3, <2>4, <2>5 DEF InterceptInv
<1>29. ASSUME NEW i \in 1..Len(monitors), MonitorReads(i) PROVE InterceptInv'
  <2>1. DetachGoesOn'
    BY <1>0, <1>29,  AtPlans DEF MonitorReads, DetachGoesOn, At, flags, object, user, processes
  <2>2. Killed'
    BY <1>0, <1>29,  AtPlans DEF MonitorReads, Killed, At, flags, user
  <2>3. Marked'
    BY <1>0, <1>29,  AtPlans
    DEF MonitorReads, Marked, Usable, InUse, Detached, Doing, At, flags, object, user, processes,
        history
  <2>4. Sent'
    BY <1>0, <1>29,  AtPlans
    DEF MonitorReads, Sent, Pending, Usable, InUse, Detached, Doing, At, flags, object, user,
        processes, history
  <2>5. PatchedOnce'
    BY <1>0, <1>29,  AtPlans DEF MonitorReads, PatchedOnce, processes, history
  <2>. QED BY <2>1, <2>2, <2>3, <2>4, <2>5 DEF InterceptInv
<1>30. ASSUME NEW i \in 1..Len(monitors), MonitorWakes(i) PROVE InterceptInv'
  <2>1. DetachGoesOn'
    <3>1. /\ UNCHANGED <<call, todo, state, m_piProcInfo>> /\ ~m_bRunning'
          /\ monitors[i].pc = "wait"
      BY <1>30 DEF MonitorWakes, MonitorGoes, object, user, processes
    <3>2. CASE call = "detachFromApp" /\ todo # <<>>
      <4>1. ~At("adopt")
        BY <1>0, <3>2, AtPlans
      <4>2. monitors[i].handle = m_piProcInfo /\ m_piProcInfo # NoProcess
        BY <1>0, <1>a, <3>1, <3>2, <4>1, ConstAssumption DEF Watching
      <4>3. state[m_piProcInfo] = "exited"
        BY <1>30, <4>2 DEF MonitorWakes
      <4>. QED BY <3>1, <4>3 DEF DetachGoesOn
    <3>3. CASE ~(call = "detachFromApp" /\ todo # <<>>)
      BY <3>1, <3>3, Heads DEF DetachGoesOn
    <3>. QED BY <3>2, <3>3
  <2>2. Killed'
    BY <1>0, <1>30,  AtPlans DEF MonitorWakes, MonitorGoes, Killed, At, user
  <2>3. Marked'
    BY <1>0, <1>30,  AtPlans
    DEF MonitorWakes, MonitorGoes, Marked, Usable, InUse, Detached, Doing, At, object, user,
        processes, history
  <2>4. Sent'
    BY <1>0, <1>30,  AtPlans
    DEF MonitorWakes, MonitorGoes, Sent, Pending, Usable, InUse, Detached, Doing, At, object,
        user, processes, history
  <2>5. PatchedOnce'
    BY <1>0, <1>30,  AtPlans DEF MonitorWakes, MonitorGoes, PatchedOnce, processes, history
  <2>. QED BY <2>1, <2>2, <2>3, <2>4, <2>5 DEF InterceptInv
<1>31. ASSUME NEW i \in 1..Len(monitors), MonitorUnready(i) PROVE InterceptInv'
  <2>1. DetachGoesOn'
    BY <1>0, <1>31,  AtPlans
    DEF MonitorUnready, MonitorGoes, DetachGoesOn, At, object, user, processes
  <2>2. Killed'
    BY <1>31,  AtPlans DEF MonitorUnready, MonitorGoes, Killed, user
  <2>3. Marked'
    BY <1>0, <1>31,  AtPlans
    DEF MonitorUnready, MonitorGoes, Marked, Usable, InUse, Detached, Doing, At, object, user,
        processes, history
  <2>4. Sent'
    BY <1>0, <1>31,  AtPlans
    DEF MonitorUnready, MonitorGoes, Sent, Pending, Doing, object, user, processes, history
  <2>5. PatchedOnce'
    BY <1>0, <1>31,  AtPlans DEF MonitorUnready, MonitorGoes, PatchedOnce, processes, history
  <2>. QED BY <2>1, <2>2, <2>3, <2>4, <2>5 DEF InterceptInv
<1>32. ASSUME NEW i \in 1..Len(monitors), MonitorUninjected(i) PROVE InterceptInv'
  <2>1. DetachGoesOn'
    BY <1>0, <1>32,  AtPlans
    DEF MonitorUninjected, MonitorGoes, DetachGoesOn, At, object, user, processes
  <2>2. Killed'
    BY <1>0, <1>32,  AtPlans DEF MonitorUninjected, MonitorGoes, Killed, At, user
  <2>3. Marked'
    BY <1>0, <1>32,  AtPlans
    DEF MonitorUninjected, MonitorGoes, Marked, Usable, InUse, Detached, Doing, At, object, user,
        processes, history
  <2>4. Sent'
    BY <1>0, <1>32,  AtPlans
    DEF MonitorUninjected, MonitorGoes, Sent, Pending, Usable, InUse, At, object, user, processes,
        history
  <2>5. PatchedOnce'
    BY <1>0, <1>32,  AtPlans DEF MonitorUninjected, MonitorGoes, PatchedOnce, processes, history
  <2>. QED BY <2>1, <2>2, <2>3, <2>4, <2>5 DEF InterceptInv
<1>33. ASSUME NEW p \in Processes, Exits(p) PROVE InterceptInv'
  <2>1. DetachGoesOn'
    BY <1>0, <1>33,  AtPlans DEF Exits, DetachGoesOn, At, flags, object, user
  <2>2. Killed'
    BY <1>0, <1>33,  AtPlans DEF Exits, Killed, At, flags, user
  <2>3. Marked'
    BY <1>0, <1>33,  AtPlans
    DEF Exits, Marked, Usable, InUse, Detached, Doing, At, flags, object, user
  <2>4. Sent'
    BY <1>0, <1>33,  AtPlans
    DEF Exits, Sent, Pending, Usable, InUse, Detached, Doing, At, flags, object, user
  <2>5. PatchedOnce'
    BY <1>0, <1>33,  AtPlans DEF Exits, PatchedOnce
  <2>. QED BY <2>1, <2>2, <2>3, <2>4, <2>5 DEF InterceptInv
<1>34. ASSUME NEW p \in Processes, WorkerStarts(p) PROVE InterceptInv'
  <2>1. DetachGoesOn'
    BY <1>0, <1>34,  AtPlans DEF WorkerStarts, Runs, DetachGoesOn, At, flags, object, user
  <2>2. Killed'
    BY <1>0, <1>34,  AtPlans DEF WorkerStarts, Runs, Killed, At, flags, user
  <2>3. Marked'
    BY <1>0, <1>34,  AtPlans
    DEF WorkerStarts, Runs, Marked, Usable, InUse, Detached, Doing, At, flags, object, user,
        history
  <2>4. Sent'
    BY <1>0, <1>34,  AtPlans
    DEF WorkerStarts, Runs, Sent, Pending, Usable, InUse, Detached, Doing, At, flags, object,
        user, history
  <2>5. PatchedOnce'
    BY <1>0, <1>34,  AtPlans DEF WorkerStarts, Runs, PatchedOnce, history
  <2>. QED BY <2>1, <2>2, <2>3, <2>4, <2>5 DEF InterceptInv
<1>35. ASSUME NEW p \in Processes, WorkerExits(p) PROVE InterceptInv'
  <2>1. DetachGoesOn'
    BY <1>0, <1>35,  AtPlans DEF WorkerExits, DetachGoesOn, At, flags, object, user
  <2>2. Killed'
    BY <1>0, <1>35,  AtPlans DEF WorkerExits, Killed, At, flags, user
  <2>3. Marked'
    BY <1>0, <1>35,  AtPlans
    DEF WorkerExits, Marked, Usable, InUse, Detached, Doing, At, flags, object, user, history
  <2>4. Sent'
    BY <1>0, <1>35,  AtPlans
    DEF WorkerExits, Sent, Pending, Usable, InUse, Detached, Doing, At, flags, object, user,
        history
  <2>5. PatchedOnce'
    BY <1>0, <1>35,  AtPlans DEF WorkerExits, PatchedOnce, history
  <2>. QED BY <2>1, <2>2, <2>3, <2>4, <2>5 DEF InterceptInv
<1>36. ASSUME ServerBlocks PROVE InterceptInv'
  BY <1>0, <1>36
  DEF ServerBlocks, InterceptInv, DetachGoesOn, Killed, Marked, Sent, PatchedOnce, Pending, Usable,
      InUse, Detached, Doing, At, flags, object, user, history
<1>37. CASE UNCHANGED vars
  BY <1>37
  DEF InterceptInv, DetachGoesOn, Killed, Marked, Sent, Usable, InUse, Pending, PatchedOnce,
      Detached, Doing, At, vars
<1>. QED BY <1>1, <1>2, <1>3, <1>4, <1>5, <1>6, <1>7, <1>8, <1>9, <1>10, <1>11, <1>12, <1>13,
            <1>14, <1>15, <1>16, <1>17, <1>18, <1>19, <1>20, <1>21, <1>22, <1>23, <1>24, <1>25,
            <1>26, <1>27, <1>28, <1>29, <1>30, <1>31, <1>32, <1>33, <1>34, <1>35, <1>36, <1>37
         DEF Next, UserCalls, Routine, Monitor, ProcessStep

\* Another suspend count written.
LEMMA CountAt ==
  ASSUME TypeParted, NEW p \in Processes, NEW t \in ThreadIds, NEW n,
         suspends' = [suspends EXCEPT ![p][t] = n]
  PROVE  \A q \in Processes, u \in ThreadIds :
           suspends'[q][u] = IF q = p /\ u = t THEN n ELSE suspends[q][u]
BY DEF TypeParted, ProcessType

\* Every step keeps m_bRunning in step with the suspend counts.
LEMMA NextRun ==
  ASSUME ~Reuse, TypeInv, SingleUse, RunInv, [Next]_vars
  PROVE  RunInv'
<1>0. /\ TypeOK /\ Planned /\ Opened /\ TypeParted /\ Planned' /\ TypeParted'
      /\ Unopened /\ Watching /\ opens <= 1 /\ opens \in Nat
      /\ Counts /\ FlagAndCounts /\ AttachedRuns
  <2>1. TypeInv'
    BY NextType
  <2>2. TypeParted'
    BY <2>1, TypePartsNext DEF TypeInv
  <2>. QED BY <2>1, <2>2, TypeParts DEF TypeInv, SingleUse, RunInv, TypeOK
<1>a. /\ state \in [Processes -> {"absent", "alive", "exited"}]
      /\ threads \in [Processes -> SUBSET ThreadIds]
      /\ suspends \in [Processes -> [ThreadIds -> Nat]]
      /\ ThreadIds = {"main", "worker", "server"}
  BY <1>0 DEF TypeParted, ProcessType, ThreadIds
<1>1. ASSUME NEW p \in Processes, InitializeApp(p) PROVE RunInv'
  <2>1. Counts'
    BY <1>0, <1>a, <1>1 DEF InitializeApp, Counts, Unpaused
  <2>2. FlagAndCounts'
    <3>1. todo' = <<>> /\ ~m_bRunning'
      BY <1>0, <1>1 DEF InitializeApp, Enter, Unopened
    <3>. QED BY <3>1 DEF FlagAndCounts, At
  <2>3. AttachedRuns'
    BY <1>1 DEF InitializeApp, Enter, AttachedRuns
  <2>. QED BY <2>1, <2>2, <2>3 DEF RunInv
<1>2. ASSUME NEW p \in Processes, NEW running \in BOOLEAN, Attach(p, running) PROVE RunInv'
  <2>1. Counts'
    BY <1>0, <1>2 DEF Attach, Counts, Unpaused, processes, history
  <2>2. FlagAndCounts'
    BY <1>0, <1>2
    DEF Attach, Enter, FlagAndCounts, Unpaused, AllRun, At, Idle, flags, processes, history
  <2>3. AttachedRuns'
    <3>1. /\ call' = "attachToRunningApp" => running
          /\ m_hProcess' = p /\ state[p] = "alive"
          /\ UNCHANGED <<suspends, state, threads>>
          /\ running <=> \A t \in threads[p] : suspends[p][t] = 0
      BY <1>2 DEF Attach, Enter, processes
    <3>2. \A t \in ThreadIds : t \notin threads[p] => suspends[p][t] = 0
      BY <1>0, <3>1 DEF Counts
    <3>. QED BY <3>1, <3>2 DEF AttachedRuns, AllRun
  <2>. QED BY <2>1, <2>2, <2>3 DEF RunInv
<1>3. ASSUME PauseApp PROVE RunInv'
  <2>1. Counts'
    BY <1>0, <1>3 DEF PauseApp, Simple, Counts, Unpaused, processes, history
  <2>2. FlagAndCounts'
    BY <1>0, <1>3
    DEF PauseApp, Simple, Enter, FlagAndCounts, Unpaused, AllRun, At, Idle, flags, object,
        processes, history
  <2>3. AttachedRuns'
    BY <1>3 DEF PauseApp, Simple, Enter, AttachedRuns, object, processes
  <2>. QED BY <2>1, <2>2, <2>3 DEF RunInv
<1>4. ASSUME ResumeApp PROVE RunInv'
  <2>1. Counts'
    BY <1>0, <1>4 DEF ResumeApp, Simple, Counts, Unpaused, processes, history
  <2>2. FlagAndCounts'
    BY <1>0, <1>4
    DEF ResumeApp, Simple, Enter, FlagAndCounts, Unpaused, AllRun, At, Idle, flags, object,
        processes, history
  <2>3. AttachedRuns'
    BY <1>4 DEF ResumeApp, Simple, Enter, AttachedRuns, object, processes
  <2>. QED BY <2>1, <2>2, <2>3 DEF RunInv
<1>5. ASSUME RunApp PROVE RunInv'
  <2>1. Counts'
    BY <1>0, <1>5 DEF RunApp, Simple, Counts, Unpaused, processes, history
  <2>2. FlagAndCounts'
    BY <1>5 DEF RunApp, Simple, Enter, FlagAndCounts, At, flags, object, processes, history
  <2>3. AttachedRuns'
    BY <1>5 DEF RunApp, Simple, Enter, AttachedRuns, object, processes
  <2>. QED BY <2>1, <2>2, <2>3 DEF RunInv
<1>6. ASSUME ForceInject PROVE RunInv'
  <2>1. Counts'
    BY <1>0, <1>6 DEF ForceInject, Simple, Counts, Unpaused, processes, history
  <2>2. FlagAndCounts'
    BY <1>0, <1>6
    DEF ForceInject, Simple, Enter, FlagAndCounts, Unpaused, AllRun, At, Idle, flags, object,
        processes, history
  <2>3. AttachedRuns'
    BY <1>6 DEF ForceInject, Simple, Enter, AttachedRuns, object, processes
  <2>. QED BY <2>1, <2>2, <2>3 DEF RunInv
<1>7. ASSUME TerminateApp PROVE RunInv'
  <2>1. Counts'
    BY <1>0, <1>7 DEF TerminateApp, Simple, Counts, Unpaused, processes, history
  <2>2. FlagAndCounts'
    BY <1>0, <1>7
    DEF TerminateApp, Simple, Enter, FlagAndCounts, Unpaused, AllRun, At, Idle, flags, object,
        processes, history
  <2>3. AttachedRuns'
    BY <1>7 DEF TerminateApp, Simple, Enter, AttachedRuns, object, processes
  <2>. QED BY <2>1, <2>2, <2>3 DEF RunInv
<1>8. ASSUME DeinitializeApp PROVE RunInv'
  <2>1. Counts'
    BY <1>0, <1>8 DEF DeinitializeApp, Simple, Counts, Unpaused, processes, history
  <2>2. FlagAndCounts'
    BY <1>0, <1>8
    DEF DeinitializeApp, Simple, Enter, FlagAndCounts, Unpaused, AllRun, At, Idle, flags, object,
        processes, history
  <2>3. AttachedRuns'
    BY <1>8 DEF DeinitializeApp, Simple, Enter, AttachedRuns, object, processes
  <2>. QED BY <2>1, <2>2, <2>3 DEF RunInv
<1>9. ASSUME DetachFromApp PROVE RunInv'
  <2>1. Counts'
    BY <1>0, <1>9 DEF DetachFromApp, Simple, Counts, Unpaused, processes, history
  <2>2. FlagAndCounts'
    BY <1>0, <1>9
    DEF DetachFromApp, Simple, Enter, FlagAndCounts, Unpaused, AllRun, At, Idle, flags, object,
        processes, history
  <2>3. AttachedRuns'
    BY <1>9 DEF DetachFromApp, Simple, Enter, AttachedRuns, object, processes
  <2>. QED BY <2>1, <2>2, <2>3 DEF RunInv
<1>10. ASSUME NEW f \in Functions, InterceptFunc(f) PROVE RunInv'
  <2>1. Counts'
    BY <1>0, <1>10 DEF InterceptFunc, Counts, Unpaused, processes, history
  <2>2. FlagAndCounts'
    BY <1>0, <1>10
    DEF InterceptFunc, Enter, FlagAndCounts, Unpaused, AllRun, At, Idle, flags, processes, history
  <2>3. AttachedRuns'
    BY <1>10 DEF InterceptFunc, Enter, AttachedRuns, processes
  <2>. QED BY <2>1, <2>2, <2>3 DEF RunInv
<1>11. ASSUME SetPauseState PROVE RunInv'
  <2>0. /\ m_piProcInfo \in Processes /\ state[m_piProcInfo] = "alive"
        /\ UNCHANGED <<state, threads, gaveUp, m_piProcInfo>>
        /\ m_bRunning' = ~m_bRunning
        /\ todo = <<>> /\ todo' = <<>>
    BY <1>0, <1>11 DEF SetPauseState, Enter, Idle, Opened, object, history
  <2>a. /\ \A p \in Processes \ {m_piProcInfo} : suspends'[p] = suspends[p]
        /\ \A t \in ThreadIds : suspends'[m_piProcInfo][t] =
             IF t \in threads[m_piProcInfo]
             THEN IF m_bRunning THEN suspends[m_piProcInfo][t] + 1
                  ELSE IF suspends[m_piProcInfo][t] > 0 THEN suspends[m_piProcInfo][t] - 1 ELSE 0
             ELSE suspends[m_piProcInfo][t]
    BY <1>a, <1>11, <2>0 DEF SetPauseState
  <2>b. \A t \in ThreadIds :
          /\ t \notin threads[m_piProcInfo] => suspends[m_piProcInfo][t] = 0
          /\ suspends[m_piProcInfo][t] \in Nat
          /\ Unpaused => suspends[m_piProcInfo][t] <= 1
    BY <1>0, <1>a, <2>0 DEF Counts
  <2>c. Unpaused /\ m_bRunning => \A t \in ThreadIds : suspends[m_piProcInfo][t] = 0
    BY <1>0, <2>0 DEF FlagAndCounts, AllRun, At
  <2>1. Counts'
    <3>1. ASSUME NEW p \in Processes, state[p] # "exited", NEW t \in ThreadIds
          PROVE  /\ t \notin threads[p] => suspends'[p][t] = 0
                 /\ Unpaused => suspends'[p][t] <= 1
      <4>1. CASE p = m_piProcInfo
        <5> DEFINE c == suspends[p][t]
        <5>1. /\ t \notin threads[p] => c = 0
              /\ c \in Nat
              /\ Unpaused => c <= 1
          BY <2>b, <3>1, <4>1
        <5>3. Unpaused /\ m_bRunning => c = 0
          BY <2>c, <3>1, <4>1
        <5>2. \/ t \notin threads[p] /\ suspends'[p][t] = c
              \/ t \in threads[p] /\ m_bRunning /\ suspends'[p][t] = c + 1
              \/ t \in threads[p] /\ ~m_bRunning /\ suspends'[p][t] = (IF c > 0 THEN c - 1 ELSE 0)
          BY <2>a, <4>1
        <5> HIDE DEF c
        <5>. QED BY <5>1, <5>2, <5>3
      <4>2. CASE p # m_piProcInfo
        BY <1>0, <2>a, <3>1, <4>2 DEF Counts
      <4>. QED BY <4>1, <4>2
    <3>. QED BY <1>0, <2>0, <3>1 DEF Counts, Unpaused
  <2>2. FlagAndCounts'
    <3>1. ASSUME Unpaused, ~m_bRunning, NEW t \in ThreadIds PROVE suspends'[m_piProcInfo][t] = 0
      <4> DEFINE c == suspends[m_piProcInfo][t]
      <4>1. /\ t \notin threads[m_piProcInfo] => c = 0
            /\ c \in Nat
            /\ Unpaused => c <= 1
        BY <2>b, <3>1
      <4>2. \/ t \notin threads[m_piProcInfo] /\ suspends'[m_piProcInfo][t] = c
            \/ suspends'[m_piProcInfo][t] = (IF c > 0 THEN c - 1 ELSE 0)
        BY <2>a, <3>1
      <4> HIDE DEF c
      <4>. QED BY <3>1, <4>1, <4>2
    <3>. QED BY <2>0, <3>1, <1>0 DEF FlagAndCounts, AllRun, Unpaused, At, TypeParted, ObjectType
  <2>3. AttachedRuns'
    BY <1>11 DEF SetPauseState, Enter, AttachedRuns, object
  <2>. QED BY <2>1, <2>2, <2>3 DEF RunInv
<1>12. ASSUME Destroy PROVE RunInv'
  <2>1. Counts'
    BY <1>0, <1>12 DEF Destroy, Counts, Unpaused, processes, history
  <2>2. FlagAndCounts'
    BY <1>0, <1>12
    DEF Destroy, Enter, FlagAndCounts, Unpaused, AllRun, At, Idle, flags, processes, history
  <2>3. AttachedRuns'
    BY <1>12 DEF Destroy, Enter, AttachedRuns, processes
  <2>. QED BY <2>1, <2>2, <2>3 DEF RunInv
<1>13. ASSUME Adopt PROVE RunInv'
  <2>1. Counts'
    BY <1>0, <1>13 DEF Adopt, Counts, Unpaused, processes
  <2>2. FlagAndCounts'
    <3>1. /\ todo' = <<>> /\ m_piProcInfo' = m_hProcess /\ At("adopt")
          /\ UNCHANGED <<suspends, state, gaveUp>>
          /\ ~m_bRunning
          /\ m_bRunning' => m_bRunning \/ call = "attachToRunningApp"
      <4>1. todo' = <<>> /\ m_piProcInfo' = m_hProcess /\ At("adopt")
        BY <1>0, <1>13, AfterPlans, AfterFail DEF Adopt
      <4>2. UNCHANGED <<suspends, state, gaveUp>> /\ ~m_bRunning
        BY <1>0, <1>13 DEF Adopt, processes, Watching
      <4>3. m_bRunning' => m_bRunning \/ call = "attachToRunningApp"
        BY <1>13 DEF Adopt
      <4>. QED BY <4>1, <4>2, <4>3
    <3>. QED BY <1>0, <3>1 DEF FlagAndCounts, AttachedRuns, AllRun, At
  <2>3. AttachedRuns'
    BY <1>0, <1>13 DEF Adopt, AttachedRuns, AllRun, processes
  <2>. QED BY <2>1, <2>2, <2>3 DEF RunInv
<1>14. ASSUME Unready PROVE RunInv'
  <2>1. Counts'
    BY <1>0, <1>14 DEF Unready, Counts, Unpaused, processes, history
  <2>2. FlagAndCounts'
    BY <1>0, <1>14, AfterPlans
    DEF Unready, FlagAndCounts, Unpaused, AllRun, At, object, processes, history
  <2>3. AttachedRuns'
    BY <1>0, <1>14, AfterPlans DEF Unready, AttachedRuns, At, object, processes
  <2>. QED BY <2>1, <2>2, <2>3 DEF RunInv
<1>15. ASSUME Injected PROVE RunInv'
  <2>1. Counts'
    BY <1>0, <1>15 DEF Injected, Counts, Unpaused, processes, history
  <2>2. FlagAndCounts'
    BY <1>0, <1>15, AfterPlans
    DEF Injected, FlagAndCounts, Unpaused, AllRun, At, object, processes, history
  <2>3. AttachedRuns'
    BY <1>0, <1>15, AfterPlans DEF Injected, AttachedRuns, At, object, processes
  <2>. QED BY <2>1, <2>2, <2>3 DEF RunInv
<1>16. ASSUME Unsent PROVE RunInv'
  <2>1. Counts'
    BY <1>0, <1>16 DEF Unsent, Counts, Unpaused, processes, history
  <2>2. FlagAndCounts'
    BY <1>0, <1>16, AfterPlans, Heads
    DEF Unsent, FlagAndCounts, Unpaused, AllRun, At, flags, processes, history
  <2>3. AttachedRuns'
    BY <1>0, <1>16, AfterPlans, Heads DEF Unsent, AttachedRuns, At, processes
  <2>. QED BY <2>1, <2>2, <2>3 DEF RunInv
<1>17. ASSUME Remove PROVE RunInv'
  <2>1. Counts'
    BY <1>0, <1>17 DEF Remove, Counts, Unpaused, processes, history
  <2>2. FlagAndCounts'
    BY <1>0, <1>17, AfterPlans
    DEF Remove, FlagAndCounts, Unpaused, AllRun, At, flags, processes, history
  <2>3. AttachedRuns'
    BY <1>0, <1>17, AfterPlans DEF Remove, AttachedRuns, At, processes
  <2>. QED BY <2>1, <2>2, <2>3 DEF RunInv
<1>18. ASSUME BeginWalk PROVE RunInv'
  <2>1. Counts'
    BY <1>0, <1>18 DEF BeginWalk, Counts, Unpaused, processes, history
  <2>2. FlagAndCounts'
    <3>1. UNCHANGED <<m_bRunning, m_piProcInfo, state, suspends, gaveUp>>
          /\ (At("pause") \/ At("resume")) /\ ~At("pausing")
      BY <1>18 DEF BeginWalk, flags, object, processes, history, At
    <3>2. CASE m_bReady /\ m_bRunning = At("pause")
      <4>1. /\ At("pause") => todo' \in {One("pausing"), Three("pausing", "resume", "unready")}
            /\ ~At("pause") => todo' \in {One("resuming"), Two("resuming", "unready"),
                                          Two("resuming", "destroy")}
            /\ walk' = threads[m_piProcInfo]
        BY <1>0, <1>18, <3>2, PlannedWalk DEF BeginWalk
      <4>2. m_piProcInfo \in Processes
        BY <1>0, <3>2 DEF Opened
      <4>3. walk' \subseteq ThreadIds
        BY <1>a, <4>1, <4>2
      <4>4. state[m_piProcInfo] = "alive" =>
              \A t \in ThreadIds \ walk' : suspends[m_piProcInfo][t] = 0
        BY <1>0, <4>1, <4>2 DEF Counts
      <4>5. CASE At("pause")
        <5>1. m_bRunning /\ At("pausing")' /\ ~At("resuming")'
          <6>1. m_bRunning
            BY <3>2, <4>5
          <6>2. todo' # <<>> /\ Head(todo') = "pausing"
            BY <4>1, <4>5, Heads
          <6>. QED BY <6>1, <6>2 DEF At
        <5>. QED BY <1>0, <3>1, <4>3, <5>1 DEF FlagAndCounts, AllRun, Unpaused
      <4>6. CASE ~At("pause")
        <5>1. ~m_bRunning /\ ~At("pausing")'
          <6>1. ~m_bRunning
            BY <3>2, <4>6
          <6>2. todo' # <<>> /\ Head(todo') = "resuming"
            BY <4>1, <4>6, Heads
          <6>. QED BY <6>1, <6>2 DEF At
        <5>. QED BY <3>1, <4>4, <5>1 DEF FlagAndCounts
      <4>. QED BY <4>5, <4>6
    <3>3. CASE ~(m_bReady /\ m_bRunning = At("pause"))
      <4>1. todo' = <<>> \/ todo' = One("destroy")
        BY <1>0, <1>18, <3>3, AfterFail DEF BeginWalk
      <4>2. ~At("pausing")' /\ ~At("resuming")'
        BY <4>1, Heads DEF At
      <4>. QED BY <1>0, <3>1, <4>2 DEF FlagAndCounts, AllRun, Unpaused
    <3>. QED BY <3>2, <3>3
  <2>3. AttachedRuns'
    BY <1>0, <1>18, AfterFail DEF BeginWalk, AttachedRuns, At, object, processes
  <2>. QED BY <2>1, <2>2, <2>3 DEF RunInv
<1>19. ASSUME NEW t \in ThreadIds, WalkThread(t) PROVE RunInv'
  <2>0. /\ UNCHANGED <<state, threads, gaveUp, m_piProcInfo, m_bRunning, todo, call>>
        /\ walk' = walk \ {t} /\ t \in walk
        /\ At("pausing") \/ At("resuming")
    BY <1>19 DEF WalkThread, Walking, Pausing, flags, object, history
  <2>a. CASE m_piProcInfo \notin Processes
    <3>1. suspends' = suspends
      BY <1>a, <1>19, <2>a DEF WalkThread
    <3>. QED BY <1>0, <2>0, <2>a, <3>1
             DEF RunInv, Counts, FlagAndCounts, AttachedRuns, AllRun, Unpaused, At
  <2>b. CASE m_piProcInfo \in Processes
    <3> DEFINE c == suspends[m_piProcInfo][t]
               n == IF t \notin threads[m_piProcInfo] THEN c
                    ELSE IF Pausing THEN c + 1 ELSE IF c > 0 THEN c - 1 ELSE 0
    <3>1. suspends' = [suspends EXCEPT ![m_piProcInfo][t] = n]
      BY <1>19 DEF WalkThread
    <3>2. c \in Nat /\ n \in Nat
      BY <1>a, <2>b
    <3>3. t \notin threads[m_piProcInfo] => n = c
      OBVIOUS
    <3>4. CASE At("pausing")
      <4>1. Unpaused /\ state[m_piProcInfo] = "alive" => c = 0
        BY <1>0, <2>0, <2>b, <3>4 DEF FlagAndCounts
      <4>2. n = c \/ n = c + 1
        BY <3>4 DEF Pausing
      <4>. HIDE DEF n
      <4>3. \A q \in Processes, u \in ThreadIds :
              suspends'[q][u] = IF q = m_piProcInfo /\ u = t THEN n ELSE suspends[q][u]
        BY <1>a, <1>19, <2>b, <3>1
      <4>4. Counts'
        <5>1. ASSUME NEW q \in Processes, state[q] # "exited", NEW u \in ThreadIds
              PROVE  /\ u \notin threads[q] => suspends'[q][u] = 0
                     /\ Unpaused => suspends'[q][u] <= 1
          <6>1. /\ u \notin threads[q] => suspends[q][u] = 0
                /\ Unpaused => suspends[q][u] <= 1
            BY <1>0, <5>1 DEF Counts
          <6>2. CASE q = m_piProcInfo /\ u = t
            <7>1. state[q] = "absent" => t \notin threads[m_piProcInfo]
              BY <1>0, <6>2 DEF Counts
            <7>2. state[q] = "absent" \/ state[q] = "alive"
              BY <1>a, <5>1
            <7>. QED BY <3>2, <3>3, <4>1, <4>2, <4>3, <6>1, <6>2, <7>1, <7>2
          <6>3. CASE ~(q = m_piProcInfo /\ u = t)
            BY <4>3, <6>1, <6>3
          <6>. QED BY <6>2, <6>3
        <5>. QED BY <1>0, <2>0, <5>1 DEF Counts, Unpaused
      <4>5. FlagAndCounts'
        <5>1. ~At("resuming") /\ At("pausing")' /\ ~At("resuming")'
          BY <2>0, <3>4 DEF At
        <5>2. walk \subseteq ThreadIds
          BY <1>0 DEF TypeParted, UserType
        <5>. QED BY <1>0, <2>0, <2>b, <3>4, <4>3, <5>1, <5>2 DEF FlagAndCounts, Unpaused
      <4>6. AttachedRuns'
        BY <2>0, <3>4 DEF AttachedRuns, At
      <4>. QED BY <4>4, <4>5, <4>6 DEF RunInv
    <3>5. CASE At("resuming")
      <4>1. state[m_piProcInfo] = "alive" =>
              /\ t \notin threads[m_piProcInfo] => n = 0
              /\ Unpaused => n = 0
        <5>1. state[m_piProcInfo] = "alive" =>
                /\ t \notin threads[m_piProcInfo] => c = 0
                /\ Unpaused => c <= 1
          BY <1>0, <2>b DEF Counts
        <5>2. n = IF t \notin threads[m_piProcInfo] THEN c ELSE IF c > 0 THEN c - 1 ELSE 0
          BY <3>5 DEF Pausing, At
        <5> HIDE DEF c, n
        <5>. QED BY <3>2, <5>1, <5>2
      <4>2. n <= c
        <5>1. ~Pausing
          BY <3>5 DEF Pausing, At
        <5>. QED BY <3>2, <5>1
      <4>. HIDE DEF n
      <4>3. \A q \in Processes, u \in ThreadIds :
              suspends'[q][u] = IF q = m_piProcInfo /\ u = t THEN n ELSE suspends[q][u]
        BY <1>a, <1>19, <2>b, <3>1
      <4>4. Counts'
        <5>1. ASSUME NEW q \in Processes, state[q] # "exited", NEW u \in ThreadIds
              PROVE  /\ u \notin threads[q] => suspends'[q][u] = 0
                     /\ Unpaused => suspends'[q][u] <= 1
          <6>1. /\ u \notin threads[q] => suspends[q][u] = 0
                /\ Unpaused => suspends[q][u] <= 1
            BY <1>0, <5>1 DEF Counts
          <6>2. CASE q = m_piProcInfo /\ u = t
            BY <3>2, <3>3, <4>2, <4>3, <6>1, <6>2
          <6>3. CASE ~(q = m_piProcInfo /\ u = t)
            BY <4>3, <6>1, <6>3
          <6>. QED BY <6>2, <6>3
        <5>. QED BY <1>0, <2>0, <5>1 DEF Counts, Unpaused
      <4>5. FlagAndCounts'
        <5>1. ~At("pausing") /\ At("resuming")' /\ ~At("pausing")'
          BY <2>0, <3>5 DEF At
        <5>. QED BY <1>0, <2>0, <2>b, <3>5, <4>1, <4>3, <5>1 DEF FlagAndCounts, Unpaused
      <4>6. AttachedRuns'
        BY <2>0, <3>5 DEF AttachedRuns, At
      <4>. QED BY <4>4, <4>5, <4>6 DEF RunInv
    <3>. QED BY <2>0, <3>4, <3>5
  <2>. QED BY <2>a, <2>b
<1>20. ASSUME WalkStops PROVE RunInv'
  <2>1. Counts'
    BY <1>0, <1>20 DEF WalkStops, Walking, Pausing, Counts, Unpaused, processes
  <2>2. FlagAndCounts'
    BY <1>0, <1>20, AfterFail, Heads
    DEF WalkStops, Walking, Pausing, FlagAndCounts, Unpaused, At, flags, object, processes
  <2>3. AttachedRuns'
    BY <1>0, <1>20, AfterFail DEF WalkStops, Walking, Pausing, AttachedRuns, At, object, processes
  <2>. QED BY <2>1, <2>2, <2>3 DEF RunInv
<1>21. ASSUME EndWalk PROVE RunInv'
  <2>1. Counts'
    BY <1>0, <1>21 DEF EndWalk, Walking, Pausing, Counts, Unpaused, processes, history
  <2>2. FlagAndCounts'
    <3>1. /\ UNCHANGED <<m_piProcInfo, state, suspends, gaveUp>> /\ walk = {}
          /\ m_bRunning' = ~At("pausing") /\ Succeed
          /\ At("pausing") \/ At("resuming")
      BY <1>21 DEF EndWalk, Walking, Pausing, object, processes, history
    <3>2. ~At("pausing")' /\ ~At("resuming")'
      <4>1. todo' \in {<<>>, Two("resume", "unready"), One("unready"), One("destroy")}
        BY <1>0, <3>1, AfterPlans
      <4>. QED BY <4>1, Heads DEF At
    <3>3. m_bRunning' => At("resuming")
      BY <3>1
    <3>. QED BY <1>0, <3>1, <3>2, <3>3 DEF FlagAndCounts, AllRun, Unpaused
  <2>3. AttachedRuns'
    BY <1>0, <1>21, AfterPlans DEF EndWalk, Walking, Pausing, AttachedRuns, object, processes
  <2>. QED BY <2>1, <2>2, <2>3 DEF RunInv
<1>22. ASSUME Construct PROVE RunInv'
  <2>1. /\ m_piProcInfo \in Processes /\ At("construct")
        /\ UNCHANGED <<state, m_piProcInfo, m_bRunning>>
    BY <1>0, <1>22, AtPlans, InjectingStep DEF Construct, Opened, Doing, At
  <2>2. /\ gaveUp' \in {gaveUp, gaveUp \cup {"inject"}}
        /\ \A q \in Processes \ {m_piProcInfo} : suspends'[q] = suspends[q]
        /\ \A t \in ThreadIds :
             (t \notin threads[m_piProcInfo] \/ "inject" \notin gaveUp')
             => suspends'[m_piProcInfo][t] <= suspends[m_piProcInfo][t]
        /\ suspends' \in [Processes -> [ThreadIds -> Nat]]
    BY <1>0, <1>22, <2>1, InjectingStep, Injecting
  <2>3. Unpaused' => Unpaused /\ "inject" \notin gaveUp'
    BY <2>2 DEF Unpaused
  <2>4. /\ \A q \in Processes : threads[q] \subseteq threads'[q]
        /\ \A q \in Processes : state[q] = "absent" => threads'[q] = threads[q]
    <3>1. state[m_piProcInfo] = "absent" => threads' = threads
      BY <1>22 DEF Construct, ServerLoads
    <3>. QED BY <1>a, <1>22, <2>1, <3>1, InjectingStep
  <2>5. Counts'
    <3> SUFFICES ASSUME NEW q \in Processes
                 PROVE  /\ state[q] = "absent" => threads'[q] = {}
                        /\ state[q] # "exited" =>
                             \A t \in ThreadIds : /\ t \notin threads'[q] => suspends'[q][t] = 0
                                                  /\ Unpaused' => suspends'[q][t] <= 1
      BY <2>1 DEF Counts
    <3>1. state[q] = "absent" => threads'[q] = {}
      BY <1>0, <2>4 DEF Counts
    <3>2. ASSUME state[q] # "exited", NEW t \in ThreadIds
          PROVE  /\ t \notin threads'[q] => suspends'[q][t] = 0
                 /\ Unpaused' => suspends'[q][t] <= 1
      <4>1. /\ suspends[q][t] \in Nat /\ suspends'[q][t] \in Nat
            /\ t \notin threads[q] => suspends[q][t] = 0
            /\ Unpaused => suspends[q][t] <= 1
        BY <1>0, <1>a, <2>2, <3>2 DEF Counts
      <4>2. CASE q = m_piProcInfo
        BY <2>2, <2>3, <2>4, <4>1, <4>2
      <4>3. CASE q # m_piProcInfo
        BY <2>2, <2>3, <2>4, <4>1, <4>3
      <4>. QED BY <4>2, <4>3
    <3>. QED BY <3>1, <3>2
  <2>6. FlagAndCounts'
    <3>1. ~At("pausing") /\ ~At("pausing")' /\ ~At("resuming")'
      BY <1>0, <1>22, <2>1, AfterPlans, Heads DEF Construct, At
    <3>2. ASSUME Unpaused', state[m_piProcInfo] = "alive", m_bRunning
          PROVE  \A t \in ThreadIds : suspends'[m_piProcInfo][t] = 0
      <4>1. \A t \in ThreadIds : suspends[m_piProcInfo][t] = 0
        BY <1>0, <2>1, <2>3, <3>1, <3>2 DEF FlagAndCounts, AllRun
      <4>2. \A t \in ThreadIds : suspends'[m_piProcInfo][t] \in Nat
        BY <2>1, <2>2
      <4>. QED BY <2>2, <2>3, <3>2, <4>1, <4>2
    <3>. QED BY <2>1, <3>1, <3>2 DEF FlagAndCounts, AllRun
  <2>7. AttachedRuns'
    BY <1>0, <1>22, AfterPlans, Heads DEF Construct, AttachedRuns, At
  <2>. QED BY <2>5, <2>6, <2>7 DEF RunInv
<1>23. ASSUME ConstructThrows PROVE RunInv'
  <2>1. /\ m_piProcInfo \in Processes /\ At("construct")
        /\ UNCHANGED <<state, m_piProcInfo, m_bRunning>>
    BY <1>0, <1>23, AtPlans, InjectingStep DEF ConstructThrows, Opened, Doing, At
  <2>2. /\ gaveUp' \in {gaveUp, gaveUp \cup {"inject"}}
        /\ \A q \in Processes \ {m_piProcInfo} : suspends'[q] = suspends[q]
        /\ \A t \in ThreadIds :
             (t \notin threads[m_piProcInfo] \/ "inject" \notin gaveUp')
             => suspends'[m_piProcInfo][t] <= suspends[m_piProcInfo][t]
        /\ suspends' \in [Processes -> [ThreadIds -> Nat]]
    BY <1>0, <1>23, <2>1, InjectingStep, Injecting
  <2>3. Unpaused' => Unpaused /\ "inject" \notin gaveUp'
    BY <2>2 DEF Unpaused
  <2>4. /\ \A q \in Processes : threads[q] \subseteq threads'[q]
        /\ \A q \in Processes : state[q] = "absent" => threads'[q] = threads[q]
    <3>1. state[m_piProcInfo] = "absent" => threads' = threads
      BY <1>23 DEF ConstructThrows, ServerLoads
    <3>. QED BY <1>a, <1>23, <2>1, <3>1, InjectingStep
  <2>5. Counts'
    <3> SUFFICES ASSUME NEW q \in Processes
                 PROVE  /\ state[q] = "absent" => threads'[q] = {}
                        /\ state[q] # "exited" =>
                             \A t \in ThreadIds : /\ t \notin threads'[q] => suspends'[q][t] = 0
                                                  /\ Unpaused' => suspends'[q][t] <= 1
      BY <2>1 DEF Counts
    <3>1. state[q] = "absent" => threads'[q] = {}
      BY <1>0, <2>4 DEF Counts
    <3>2. ASSUME state[q] # "exited", NEW t \in ThreadIds
          PROVE  /\ t \notin threads'[q] => suspends'[q][t] = 0
                 /\ Unpaused' => suspends'[q][t] <= 1
      <4>1. /\ suspends[q][t] \in Nat /\ suspends'[q][t] \in Nat
            /\ t \notin threads[q] => suspends[q][t] = 0
            /\ Unpaused => suspends[q][t] <= 1
        BY <1>0, <1>a, <2>2, <3>2 DEF Counts
      <4>2. CASE q = m_piProcInfo
        BY <2>2, <2>3, <2>4, <4>1, <4>2
      <4>3. CASE q # m_piProcInfo
        BY <2>2, <2>3, <2>4, <4>1, <4>3
      <4>. QED BY <4>2, <4>3
    <3>. QED BY <3>1, <3>2
  <2>6. FlagAndCounts'
    <3>1. ~At("pausing") /\ ~At("pausing")' /\ ~At("resuming")'
      BY <1>0, <1>23, <2>1, AfterFail DEF ConstructThrows, At
    <3>2. ASSUME Unpaused', state[m_piProcInfo] = "alive", m_bRunning
          PROVE  \A t \in ThreadIds : suspends'[m_piProcInfo][t] = 0
      <4>1. \A t \in ThreadIds : suspends[m_piProcInfo][t] = 0
        BY <1>0, <2>1, <2>3, <3>1, <3>2 DEF FlagAndCounts, AllRun
      <4>2. \A t \in ThreadIds : suspends'[m_piProcInfo][t] \in Nat
        BY <2>1, <2>2
      <4>. QED BY <2>2, <2>3, <3>2, <4>1, <4>2
    <3>. QED BY <2>1, <3>1, <3>2 DEF FlagAndCounts, AllRun
  <2>7. AttachedRuns'
    BY <1>0, <1>23, AfterFail DEF ConstructThrows, AttachedRuns, At
  <2>. QED BY <2>5, <2>6, <2>7 DEF RunInv
<1>24. ASSUME BeginSend PROVE RunInv'
  <2>1. Counts'
    BY <1>0, <1>24 DEF BeginSend, Counts, Unpaused, processes, history
  <2>2. FlagAndCounts'
    <3>1. /\ UNCHANGED <<m_bRunning, m_piProcInfo, state, suspends, gaveUp>>
          /\ ~At("pausing")
      BY <1>24 DEF BeginSend, flags, object, processes, history, At
    <3>2. ~At("pausing")' /\ ~At("resuming")'
      <4>1. todo' \in {One("sending"), Two("sending", "injected"), One("injected"), <<>>}
        BY <1>0, <1>24, PlannedSend, AfterPlans DEF BeginSend, Succeed
      <4>. QED BY <4>1, Heads DEF At
    <3>. QED BY <1>0, <3>1, <3>2 DEF FlagAndCounts, AllRun, Unpaused
  <2>3. AttachedRuns'
    BY <1>0, <1>24, AtPlans DEF BeginSend, AttachedRuns, object, processes
  <2>. QED BY <2>1, <2>2, <2>3 DEF RunInv
<1>25. ASSUME SendIntercept PROVE RunInv'
  <2>1. Counts'
    BY <1>0, <1>25 DEF SendIntercept, Counts, Unpaused, history
  <2>2. FlagAndCounts'
    BY <1>0, <1>25 DEF SendIntercept, FlagAndCounts, Unpaused, AllRun, At, flags, user, history
  <2>3. AttachedRuns'
    BY <1>25 DEF SendIntercept, AttachedRuns, At, user
  <2>. QED BY <2>1, <2>2, <2>3 DEF RunInv
<1>26. ASSUME SendDone PROVE RunInv'
  <2>1. Counts'
    BY <1>0, <1>26 DEF SendDone, Counts, Unpaused, processes, history
  <2>2. FlagAndCounts'
    BY <1>0, <1>26, AfterPlans, Heads
    DEF SendDone, FlagAndCounts, Unpaused, AllRun, At, flags, object, processes, history
  <2>3. AttachedRuns'
    BY <1>0, <1>26, AfterPlans DEF SendDone, AttachedRuns, object, processes
  <2>. QED BY <2>1, <2>2, <2>3 DEF RunInv
<1>27. ASSUME Kill PROVE RunInv'
  <2>1. Counts'
    BY <1>0, <1>a, <1>27 DEF Kill, Counts, Unpaused, history
  <2>2. FlagAndCounts'
    BY <1>a, <1>27 DEF Kill, FlagAndCounts, history
  <2>3. AttachedRuns'
    BY <1>0, <1>27, AfterPlans DEF Kill, AttachedRuns
  <2>. QED BY <2>1, <2>2, <2>3 DEF RunInv
<1>28. ASSUME KillFails PROVE RunInv'
  <2>1. Counts'
    BY <1>0, <1>28 DEF KillFails, Counts, Unpaused, processes, history
  <2>2. FlagAndCounts'
    BY <1>28 DEF KillFails, FlagAndCounts, flags, object, processes, history
  <2>3. AttachedRuns'
    BY <1>0, <1>28, AfterFail DEF KillFails, AttachedRuns, At, object, processes
  <2>. QED BY <2>1, <2>2, <2>3 DEF RunInv
<1>29. ASSUME NEW i \in 1..Len(monitors), MonitorReads(i) PROVE RunInv'
  <2>1. Counts'
    BY <1>0, <1>29 DEF MonitorReads, Counts, Unpaused, processes, history
  <2>2. FlagAndCounts'
    BY <1>0, <1>29,  AtPlans
    DEF MonitorReads, FlagAndCounts, Unpaused, AllRun, At, flags, object, user, processes, history
  <2>3. AttachedRuns'
    BY <1>0, <1>29,  AtPlans DEF MonitorReads, AttachedRuns, AllRun, At, object, user, processes
  <2>. QED BY <2>1, <2>2, <2>3 DEF RunInv
<1>30. ASSUME NEW i \in 1..Len(monitors), MonitorWakes(i) PROVE RunInv'
  <2>1. Counts'
    BY <1>0, <1>30 DEF MonitorWakes, MonitorGoes, Counts, Unpaused, processes, history
  <2>2. FlagAndCounts'
    BY <1>0, <1>30,  AtPlans
    DEF MonitorWakes, MonitorGoes, FlagAndCounts, Unpaused, At, object, user, processes, history
  <2>3. AttachedRuns'
    BY <1>0, <1>30,  AtPlans
    DEF MonitorWakes, MonitorGoes, AttachedRuns, AllRun, At, object, user, processes
  <2>. QED BY <2>1, <2>2, <2>3 DEF RunInv
<1>31. ASSUME NEW i \in 1..Len(monitors), MonitorUnready(i) PROVE RunInv'
  <2>1. Counts'
    BY <1>0, <1>31 DEF MonitorUnready, MonitorGoes, Counts, Unpaused, processes, history
  <2>2. FlagAndCounts'
    BY <1>0, <1>31,  AtPlans
    DEF MonitorUnready, MonitorGoes, FlagAndCounts, Unpaused, AllRun, At, object, user, processes,
        history
  <2>3. AttachedRuns'
    BY <1>0, <1>31,  AtPlans
    DEF MonitorUnready, MonitorGoes, AttachedRuns, AllRun, At, object, user, processes
  <2>. QED BY <2>1, <2>2, <2>3 DEF RunInv
<1>32. ASSUME NEW i \in 1..Len(monitors), MonitorUninjected(i) PROVE RunInv'
  <2>1. Counts'
    BY <1>0, <1>32 DEF MonitorUninjected, MonitorGoes, Counts, Unpaused, processes, history
  <2>2. FlagAndCounts'
    BY <1>0, <1>32,  AtPlans
    DEF MonitorUninjected, MonitorGoes, FlagAndCounts, Unpaused, AllRun, At, object, user,
        processes, history
  <2>3. AttachedRuns'
    BY <1>0, <1>32,  AtPlans
    DEF MonitorUninjected, MonitorGoes, AttachedRuns, AllRun, At, object, user, processes
  <2>. QED BY <2>1, <2>2, <2>3 DEF RunInv
<1>33. ASSUME NEW p \in Processes, Exits(p) PROVE RunInv'
  <2>1. Counts'
    BY <1>0, <1>a, <1>33 DEF Exits, Counts, Unpaused
  <2>2. FlagAndCounts'
    BY <1>0, <1>33,  AtPlans DEF Exits, FlagAndCounts, Unpaused, AllRun, At, flags, object, user
  <2>3. AttachedRuns'
    BY <1>0, <1>33,  AtPlans DEF Exits, AttachedRuns, AllRun, At, object, user
  <2>. QED BY <2>1, <2>2, <2>3 DEF RunInv
<1>34. ASSUME NEW p \in Processes, WorkerStarts(p) PROVE RunInv'
  <2>1. Counts'
    BY <1>0, <1>34 DEF WorkerStarts, Runs, Counts, Unpaused, history
  <2>2. FlagAndCounts'
    BY <1>0, <1>34,  AtPlans
    DEF WorkerStarts, Runs, FlagAndCounts, Unpaused, AllRun, At, flags, object, user, history
  <2>3. AttachedRuns'
    BY <1>0, <1>34,  AtPlans DEF WorkerStarts, Runs, AttachedRuns, AllRun, At, object, user
  <2>. QED BY <2>1, <2>2, <2>3 DEF RunInv
<1>35. ASSUME NEW p \in Processes, WorkerExits(p) PROVE RunInv'
  <2>1. Counts'
    BY <1>0, <1>35 DEF WorkerExits, Counts, Unpaused, history
  <2>2. FlagAndCounts'
    BY <1>0, <1>35,  AtPlans
    DEF WorkerExits, FlagAndCounts, Unpaused, AllRun, At, flags, object, user, history
  <2>3. AttachedRuns'
    BY <1>0, <1>35,  AtPlans DEF WorkerExits, AttachedRuns, AllRun, At, object, user
  <2>. QED BY <2>1, <2>2, <2>3 DEF RunInv
<1>36. ASSUME ServerBlocks PROVE RunInv'
  BY <1>0, <1>36
  DEF ServerBlocks, RunInv, Counts, FlagAndCounts, AttachedRuns, AllRun, Unpaused, At, flags,
      object, user, history
<1>37. CASE UNCHANGED vars
  BY <1>37 DEF RunInv, Counts, FlagAndCounts, AttachedRuns, AllRun, Unpaused, At, vars
<1>. QED BY <1>1, <1>2, <1>3, <1>4, <1>5, <1>6, <1>7, <1>8, <1>9, <1>10, <1>11, <1>12, <1>13,
            <1>14, <1>15, <1>16, <1>17, <1>18, <1>19, <1>20, <1>21, <1>22, <1>23, <1>24, <1>25,
            <1>26, <1>27, <1>28, <1>29, <1>30, <1>31, <1>32, <1>33, <1>34, <1>35, <1>36, <1>37
         DEF Next, UserCalls, Routine, Monitor, ProcessStep

\* The invariants hold at first: nothing is attached, ...
LEMMA InitSingle == Init => SingleUse
<1> SUFFICES ASSUME Init PROVE SingleUse
  OBVIOUS
<1>1. /\ opens = 0 /\ monitors = <<>> /\ todo = <<>> /\ taken = {} /\ m_heatNGapp = NoProcess
      /\ ~m_bReady /\ ~m_bRunning /\ ~m_bInjected
      /\ m_piProcInfo = NoProcess /\ m_hProcess = NoProcess
  BY DEF Init
<1>2. \A p \in Processes : \A f \in Functions : installed[p][f] = 0
  BY DEF Init
<1>3. Unopened /\ Serving
  BY <1>1, <1>2 DEF Unopened, Serving
<1>4. Watching
  BY <1>1 DEF Watching, At
<1>. QED BY <1>1, <1>3, <1>4 DEF SingleUse

\* ... nothing redirected, ...
LEMMA InitIntercept == Init => InterceptInv
<1> SUFFICES ASSUME Init PROVE InterceptInv
  OBVIOUS
<1>1. /\ todo = <<>> /\ call = "none" /\ ~m_bReady /\ ~destroyed
      /\ \A p \in Processes, f \in Functions : installed[p][f] = 0
  BY DEF Init
<1>2. DetachGoesOn /\ Killed /\ PatchedOnce
  BY <1>1 DEF DetachGoesOn, Killed, PatchedOnce, At
<1>3. Marked /\ Sent
  BY <1>1 DEF Marked, Sent, Doing, At
<1>. QED BY <1>2, <1>3 DEF InterceptInv

\* ... and a process that starts suspended is not said to run.
LEMMA InitRun == Init => RunInv
<1> SUFFICES ASSUME Init PROVE RunInv
  OBVIOUS
<1>1. todo = <<>> /\ m_piProcInfo = NoProcess
  BY DEF Init
<1>2. ASSUME NEW p \in Processes
      PROVE  /\ state[p] = "absent" => threads[p] = {}
             /\ \A t \in ThreadIds : /\ t \notin threads[p] => suspends[p][t] = 0
                                     /\ suspends[p][t] <= 1
  <2>1. threads[p] = IF state[p] = "absent" THEN {} ELSE {"main"}
    BY DEF Init
  <2>2. \A t \in ThreadIds : suspends[p][t] = IF p \in fresh /\ t = "main" THEN 1 ELSE 0
    BY DEF Init
  <2>3. p \in fresh => state[p] = "alive"
    BY DEF Init
  <2>. QED BY <2>1, <2>2, <2>3
<1>3. Counts
  BY <1>2 DEF Counts
<1>4. FlagAndCounts /\ AttachedRuns
  BY <1>1, ConstAssumption DEF FlagAndCounts, AttachedRuns, At
<1>. QED BY <1>3, <1>4 DEF RunInv

-----------------------------------------------------------------------------
(* The theorems.  The object is used for one process only: detachFromApp     *)
(* leaves flags of the process it detaches from behind, and what the object  *)
(* says of the next one need not be true.                                    *)

\* No function of a process is ever redirected a second time, whatever is
\* paused, injected, detached or intercepted in whatever order, unless a detach
\* has given up after marking the list unsent.
THEOREM NeverPatchedTwice == ASSUME ~Reuse PROVE Spec => []PatchedOnce
<1>1. Init => TypeInv /\ SingleUse /\ InterceptInv
  BY InitType, InitSingle, InitIntercept
<1>2. TypeInv /\ SingleUse /\ InterceptInv /\ [Next]_vars => (TypeInv /\ SingleUse /\ InterceptInv)'
  BY NextType, NextSingle, NextIntercept
<1>3. InterceptInv => PatchedOnce
  BY DEF InterceptInv
<1>. QED BY <1>1, <1>2, <1>3, PTL DEF Spec

\* Between calls, everything on the list of an injected object has been sent.
THEOREM AllSent == ASSUME ~Reuse PROVE Spec => []NothingPending
<1>1. Init => TypeInv /\ SingleUse /\ InterceptInv
  BY InitType, InitSingle, InitIntercept
<1>2. TypeInv /\ SingleUse /\ InterceptInv /\ [Next]_vars => (TypeInv /\ SingleUse /\ InterceptInv)'
  BY NextType, NextSingle, NextIntercept
<1>3. ASSUME TypeInv, InterceptInv PROVE NothingPending
  <2>1. Planned /\ Sent
    BY <1>3 DEF TypeInv, InterceptInv
  <2>2. SUFFICES ASSUME todo = <<>>, m_bReady, m_bInjected, InUse(m_piProcInfo), "detach" \notin gaveUp
                 PROVE  Pending = {}
    BY DEF NothingPending
  <2>3. CASE call = "destroy"
    <3>1. destroyed
      BY <2>1, <2>2, <2>3, Heads DEF Planned
    <3>2. Len(m_ciIntercepts) = 0
      BY <2>1, <3>1 DEF Sent
    <3>. QED BY <3>2 DEF Pending
  <2>4. CASE call # "destroy"
    BY <2>1, <2>2, <2>4 DEF Sent, Usable, Doing, Detached
  <2>. QED BY <2>3, <2>4
<1>. QED BY <1>1, <1>2, <1>3, PTL DEF Spec

\* Between calls, m_bRunning is set only if every thread of the process runs,
\* unless a pause has given up half-way, or an injection has left a thread
\* suspended because its resume walk gave up before it.
THEOREM FlagMeansResumed == ASSUME ~Reuse PROVE Spec => []RunningMeansResumed
<1>1. Init => TypeInv /\ SingleUse /\ RunInv
  BY InitType, InitSingle, InitRun
<1>2. TypeInv /\ SingleUse /\ RunInv /\ [Next]_vars => (TypeInv /\ SingleUse /\ RunInv)'
  BY NextType, NextSingle, NextRun
<1>3. ASSUME TypeInv, RunInv PROVE RunningMeansResumed
  <2>1. SUFFICES ASSUME todo = <<>>, m_bRunning, InUse(m_piProcInfo), {"pause", "inject"} \cap gaveUp = {},
                        NEW t \in threads[m_piProcInfo]
                 PROVE  suspends[m_piProcInfo][t] = 0
    BY DEF RunningMeansResumed
  <2>2. m_piProcInfo \in Processes /\ state[m_piProcInfo] = "alive"
        /\ threads[m_piProcInfo] \subseteq ThreadIds
    <3>1. m_piProcInfo \in Processes \cup {NoProcess} /\ threads \in [Processes -> SUBSET ThreadIds]
      BY <1>3 DEF TypeInv, TypeOK
    <3>. QED BY <2>1, <3>1 DEF InUse
  <2>3. ~At("pausing")
    BY <2>1 DEF At
  <2>. QED BY <1>3, <2>1, <2>2, <2>3 DEF RunInv, FlagAndCounts, AllRun, Unpaused
<1>. QED BY <1>1, <1>2, <1>3, PTL DEF Spec
=============================================================================
