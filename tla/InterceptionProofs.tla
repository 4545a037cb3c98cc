------------------------- MODULE InterceptionProofs -------------------------
(***************************************************************************)
(* Proofs about how a function is intercepted.                              *)
(*                                                                          *)
(* The first part is about InterceptStubs: the stubs, the RAS and the       *)
(* counter, for every set of threads, functions and sites, every RAS size   *)
(* and every nesting depth.                                                 *)
(*                                                                          *)
(* The second part is about HeaderCopy: the copy of a function's header     *)
(* that the caller stub runs, for every function, every page and both       *)
(* platforms.                                                               *)
(***************************************************************************)
EXTENDS InterceptStubs, HeaderCopy, FiniteSetTheorems, SequenceTheorems,
        WellFoundedInduction, TLAPS

-----------------------------------------------------------------------------
(* Sequences of frames. *)

(* A pushed frame leaves the earlier positions alone. *)
LEMMA PushedSeq ==
  ASSUME NEW S, NEW s \in Seq(S), NEW f \in S
  PROVE  /\ Append(s, f) \in Seq(S)
         /\ Len(Append(s, f)) = Len(s) + 1
         /\ \A i \in 1..Len(s) : Append(s, f)[i] = s[i]
         /\ Append(s, f)[Len(s) + 1] = f
  BY AppendProperties

(* A popped frame leaves the earlier positions alone. *)
LEMMA PoppedSeq ==
  ASSUME NEW S, NEW s \in Seq(S), s # <<>>
  PROVE  /\ Len(s) \in Nat \ {0}
         /\ SubSeq(s, 1, Len(s) - 1) \in Seq(S)
         /\ Len(SubSeq(s, 1, Len(s) - 1)) = Len(s) - 1
         /\ \A i \in 1..(Len(s) - 1) : SubSeq(s, 1, Len(s) - 1)[i] = s[i]
  <1>1. Len(s) \in Nat /\ Len(s) # 0
    BY EmptySeq, LenProperties
  <1>2. \A i \in 1..(Len(s) - 1) : s[i] \in S
    BY <1>1, ElementOfSeq
  <1>3. 1 \in Int /\ Len(s) - 1 \in Int
    BY <1>1
  <1> DEFINE n == Len(s) - 1
  <1>4. /\ SubSeq(s, 1, n) \in Seq(S)
        /\ Len(SubSeq(s, 1, n)) = IF 1 <= n THEN n - 1 + 1 ELSE 0
        /\ \A i \in 1..(n - 1 + 1) : SubSeq(s, 1, n)[i] = s[1 + i - 1]
    BY <1>2, <1>3, SubSeqProperties
  <1>5. n \in Nat /\ n - 1 + 1 = n
    BY <1>1
  <1>6. \A i \in 1..n : 1 + i - 1 = i
    BY <1>5
  <1>7. Len(SubSeq(s, 1, n)) = n
    BY <1>4, <1>5
  <1>8. QED
    BY <1>1, <1>4, <1>5, <1>6, <1>7

(* Changing one thread's value keeps a per-thread variable's type. *)
LEMMA ExceptType ==
  ASSUME NEW S, NEW T, NEW g \in [S -> T], NEW x \in S, NEW v \in T
  PROVE  [g EXCEPT ![x] = v] \in [S -> T]
  OBVIOUS

-----------------------------------------------------------------------------
(* How many stub frames there are, and the rank of each. *)

(* The stub frames of a stack are finitely many, so they can be counted. *)
LEMMA StubFramesFinite ==
  ASSUME NEW s \in Seq(Frame)
  PROVE  /\ IsFiniteSet(StubFrames(s))
         /\ Cardinality(StubFrames(s)) \in Nat
         /\ Cardinality(StubFrames(s)) <= Len(s)
         /\ \A i \in StubFrames(s) :
              /\ Rank(s, i) \in Nat
              /\ Rank(s, i) < Cardinality(StubFrames(s))
  <1>1. IsFiniteSet(1..Len(s))
    BY FS_Interval, LenProperties
  <1>2. /\ IsFiniteSet(StubFrames(s)) /\ Cardinality(StubFrames(s)) \in Nat
        /\ Cardinality(StubFrames(s)) <= Len(s)
    <2>1. Len(s) \in Nat /\ Cardinality(1..Len(s)) = Len(s)
      <3>1. Len(s) \in Nat
        BY LenProperties
      <3>2. Cardinality(1..Len(s)) = IF 1 > Len(s) THEN 0 ELSE Len(s) - 1 + 1
        BY <3>1, FS_Interval
      <3>3. QED
        BY <3>1, <3>2
    <2>2. StubFrames(s) \subseteq 1..Len(s)
      BY DEF StubFrames
    <2>3. QED
      BY <1>1, <2>1, <2>2, FS_Subset, FS_CardinalityType
  <1>3. ASSUME NEW i \in StubFrames(s)
        PROVE  Rank(s, i) \in Nat /\ Rank(s, i) < Cardinality(StubFrames(s))
    <2> DEFINE L == {j \in StubFrames(s) : j < i}
    <2>1. i \in Nat
      BY LenProperties DEF StubFrames
    <2>2. L \subseteq StubFrames(s) \ {i}
      BY <2>1
    <2>3. /\ IsFiniteSet(StubFrames(s) \ {i})
          /\ Cardinality(StubFrames(s) \ {i}) = Cardinality(StubFrames(s)) - 1
      BY <1>2, FS_RemoveElement
    <2>4. Cardinality(L) \in Nat /\ Cardinality(L) <= Cardinality(StubFrames(s) \ {i})
      BY <2>2, <2>3, FS_Subset, FS_CardinalityType
    <2>5. QED
      BY <1>2, <2>3, <2>4 DEF Rank
  <1>4. QED
    BY <1>2, <1>3

(* Pushing a frame: a stub frame gets the next rank, the others keep theirs. *)
LEMMA StubFramesPush ==
  ASSUME NEW s \in Seq(Frame), NEW f \in Frame
  PROVE  LET u == Append(s, f) IN
         /\ StubFrames(u) = StubFrames(s) \cup
                            IF Stub(f) THEN {Len(s) + 1} ELSE {}
         /\ Cardinality(StubFrames(u)) =
              Cardinality(StubFrames(s)) + IF Stub(f) THEN 1 ELSE 0
         /\ \A i \in StubFrames(s) : Rank(u, i) = Rank(s, i)
         /\ Stub(f) => Rank(u, Len(s) + 1) = Cardinality(StubFrames(s))
  <1> DEFINE u == Append(s, f)
  <1>1. Len(s) \in Nat
    BY LenProperties
  <1>2. /\ Len(u) = Len(s) + 1
        /\ \A i \in 1..Len(s) : u[i] = s[i]
        /\ u[Len(s) + 1] = f
    BY PushedSeq
  <1> HIDE DEF u
  <1>3. StubFrames(u) = StubFrames(s) \cup IF Stub(f) THEN {Len(s) + 1} ELSE {}
    <2>1. ASSUME NEW i \in 1..(Len(s) + 1)
          PROVE  i \in 1..Len(s) \/ i = Len(s) + 1
      BY <1>1
    <2>2. QED
      BY <1>1, <1>2, <2>1 DEF StubFrames
  <1>4. Len(s) + 1 \notin StubFrames(s)
    BY <1>1 DEF StubFrames
  <1>5. Cardinality(StubFrames(u)) =
          Cardinality(StubFrames(s)) + IF Stub(f) THEN 1 ELSE 0
    <2>1. CASE Stub(f)
      <3>1. StubFrames(u) = StubFrames(s) \cup {Len(s) + 1}
        BY <1>3, <2>1
      <3>2. Cardinality(StubFrames(u)) = Cardinality(StubFrames(s)) + 1
        BY <1>4, <3>1, StubFramesFinite, FS_AddElement
      <3>3. QED
        BY <2>1, <3>2
    <2>2. CASE ~Stub(f)
      <3>1. StubFrames(u) = StubFrames(s)
        BY <1>3, <2>2
      <3>2. QED
        BY <2>2, <3>1, StubFramesFinite
    <2>3. QED
      BY <2>1, <2>2
  <1>6. ASSUME NEW i \in StubFrames(s)
        PROVE  Rank(u, i) = Rank(s, i)
    <2>1. {j \in StubFrames(u) : j < i} = {j \in StubFrames(s) : j < i}
      BY <1>1, <1>3 DEF StubFrames
    <2>2. QED
      BY <2>1 DEF Rank
  <1>7. ASSUME Stub(f)
        PROVE  Rank(u, Len(s) + 1) = Cardinality(StubFrames(s))
    <2>1. {j \in StubFrames(u) : j < Len(s) + 1} = StubFrames(s)
      BY <1>1, <1>3, <1>7 DEF StubFrames
    <2>2. QED
      BY <2>1 DEF Rank
  <1>8. QED
    BY <1>3, <1>5, <1>6, <1>7 DEF u

(* Popping a frame: a stub frame had the highest rank, the others keep theirs. *)
LEMMA StubFramesPop ==
  ASSUME NEW s \in Seq(Frame), s # <<>>
  PROVE  LET u == SubSeq(s, 1, Len(s) - 1)
             f == s[Len(s)] IN
         /\ StubFrames(u) = StubFrames(s) \ {Len(s)}
         /\ Cardinality(StubFrames(u)) =
              Cardinality(StubFrames(s)) - IF Stub(f) THEN 1 ELSE 0
         /\ \A i \in StubFrames(u) : Rank(u, i) = Rank(s, i)
         /\ Stub(f) => Rank(s, Len(s)) = Cardinality(StubFrames(s)) - 1
  <1> DEFINE u == SubSeq(s, 1, Len(s) - 1)
             f == s[Len(s)]
  <1>1. /\ Len(s) \in Nat \ {0}
        /\ Len(u) = Len(s) - 1
        /\ \A i \in 1..(Len(s) - 1) : u[i] = s[i]
    BY PoppedSeq
  <1> HIDE DEF u
  <1>2. StubFrames(u) = StubFrames(s) \ {Len(s)}
    BY <1>1 DEF StubFrames
  <1>3. Stub(f) <=> Len(s) \in StubFrames(s)
    BY <1>1 DEF StubFrames
  <1>4. Cardinality(StubFrames(u)) =
          Cardinality(StubFrames(s)) - IF Stub(f) THEN 1 ELSE 0
    <2>1. CASE Stub(f)
      BY <1>2, <1>3, <2>1, StubFramesFinite, FS_RemoveElement
    <2>2. CASE ~Stub(f)
      <3>1. StubFrames(u) = StubFrames(s)
        BY <1>2, <1>3, <2>2
      <3>2. QED
        BY <2>2, <3>1, StubFramesFinite
    <2>3. QED
      BY <2>1, <2>2
  <1>5. ASSUME NEW i \in StubFrames(u)
        PROVE  Rank(u, i) = Rank(s, i)
    <2>1. {j \in StubFrames(u) : j < i} = {j \in StubFrames(s) : j < i}
      BY <1>1, <1>2 DEF StubFrames
    <2>2. QED
      BY <2>1 DEF Rank
  <1>6. ASSUME Stub(f)
        PROVE  Rank(s, Len(s)) = Cardinality(StubFrames(s)) - 1
    <2>1. {j \in StubFrames(s) : j < Len(s)} = StubFrames(u)
      BY <1>1, <1>2 DEF StubFrames
    <2>2. QED
      BY <1>4, <1>6, <2>1 DEF Rank
  <1>7. QED
    BY <1>2, <1>4, <1>5, <1>6 DEF u

-----------------------------------------------------------------------------
(* RASMirrorsStubs, thread by thread: stack s, RAS top p, RAS and heap m.    *)
(* A word holds the address that its stub pushed, or foreign data once past  *)
(* the page.                                                                 *)

IndexOf(p) == IF p = NoRAS THEN 0 ELSE p

Holds(m, k, r) == m[k] = r \/ (k >= RASSlots /\ m[k] = NoSite)

Mirror(s, p, m) ==
  /\ IndexOf(p) = Cardinality(StubFrames(s))
  /\ \A i \in StubFrames(s) : Holds(m, Rank(s, i), s[i].ret)

Tops == Nat \cup {NoRAS}
RASHeap == [HeapWords -> Sites \cup {NoSite}]

(* A direct call leaves the RAS in line with the stubs of the stack. *)
LEMMA MirrorPushDirect ==
  ASSUME NEW s \in Seq(Frame), NEW f \in Frame, NEW p, NEW m,
         ~Stub(f), Mirror(s, p, m)
  PROVE  Mirror(Append(s, f), p, m)
  <1>1. \A i \in StubFrames(s) : Append(s, f)[i] = s[i]
    BY PushedSeq DEF StubFrames
  <1>2. /\ StubFrames(Append(s, f)) = StubFrames(s)
        /\ \A i \in StubFrames(s) : Rank(Append(s, f), i) = Rank(s, i)
    BY StubFramesPush
  <1>3. QED
    BY <1>1, <1>2 DEF Mirror

(* A stub that pushes its return address keeps the RAS in line, on its page  *)
(* or past it.                                                               *)
LEMMA MirrorPushStub ==
  ASSUME NEW s \in Seq(Frame), NEW f \in Frame,
         NEW p \in Tops, NEW m \in RASHeap,
         Stub(f), Mirror(s, p, m), IndexOf(p) \in HeapWords
  PROVE  Mirror(Append(s, f), IndexOf(p) + 1, [m EXCEPT ![IndexOf(p)] = f.ret])
  <1> DEFINE u == Append(s, f)
             k == Cardinality(StubFrames(s))
             n == [m EXCEPT ![k] = f.ret]
  <1>1. IndexOf(p) = k /\ k \in HeapWords /\ k \in Nat
    BY StubFramesFinite DEF Mirror
  <1>2. /\ StubFrames(u) = StubFrames(s) \cup {Len(s) + 1}
        /\ Cardinality(StubFrames(u)) = k + 1
        /\ \A i \in StubFrames(s) : Rank(u, i) = Rank(s, i)
        /\ Rank(u, Len(s) + 1) = k
    BY StubFramesPush
  <1>3. /\ \A i \in StubFrames(s) : u[i] = s[i]
        /\ u[Len(s) + 1] = f
    BY PushedSeq DEF StubFrames
  <1>4. ASSUME NEW i \in StubFrames(s)
        PROVE  Holds(n, Rank(u, i), u[i].ret)
    <2>1. Rank(s, i) \in HeapWords /\ Rank(s, i) # k
      BY <1>1, StubFramesFinite, ConstAssumption DEF HeapWords
    <2>2. n[Rank(s, i)] = m[Rank(s, i)]
      BY <2>1 DEF RASHeap
    <2>3. QED
      BY <1>2, <1>3, <2>2 DEF Mirror, Holds
  <1>5. Holds(n, k, f.ret)
    BY <1>1 DEF RASHeap, Holds
  <1>6. IndexOf(k + 1) = k + 1
    BY <1>1 DEF IndexOf, NoRAS
  <1>7. \A i \in StubFrames(u) : Holds(n, Rank(u, i), u[i].ret)
    BY <1>2, <1>3, <1>4, <1>5
  <1>8. QED
    BY <1>1, <1>2, <1>6, <1>7 DEF Mirror

(* A direct return leaves the RAS in line. *)
LEMMA MirrorPopDirect ==
  ASSUME NEW s \in Seq(Frame), s # <<>>, NEW p, NEW m,
         ~Stub(s[Len(s)]), Mirror(s, p, m)
  PROVE  Mirror(SubSeq(s, 1, Len(s) - 1), p, m)
  <1> DEFINE u == SubSeq(s, 1, Len(s) - 1)
  <1>1. /\ Len(s) \in Nat \ {0}
        /\ \A i \in 1..(Len(s) - 1) : u[i] = s[i]
    BY PoppedSeq
  <1>2. /\ StubFrames(u) = StubFrames(s) \ {Len(s)}
        /\ Cardinality(StubFrames(u)) = Cardinality(StubFrames(s))
        /\ \A i \in StubFrames(u) : Rank(u, i) = Rank(s, i)
    BY StubFramesPop, StubFramesFinite
  <1>3. \A i \in StubFrames(u) : i \in StubFrames(s) /\ i \in 1..(Len(s) - 1)
    BY <1>1, <1>2 DEF StubFrames
  <1>4. QED
    BY <1>1, <1>2, <1>3 DEF Mirror

(* The address a stub takes from the RAS is its own caller's, unless foreign *)
(* code has written the word.                                                *)
LEMMA MirrorPopStub ==
  ASSUME NEW s \in Seq(Frame), s # <<>>, NEW p \in Tops, NEW m,
         Stub(s[Len(s)]), Mirror(s, p, m)
  PROVE  /\ p \in Nat \ {0} /\ p = Cardinality(StubFrames(s))
         /\ Holds(m, p - 1, s[Len(s)].ret)
         /\ Mirror(SubSeq(s, 1, Len(s) - 1), p - 1, m)
  <1> DEFINE u == SubSeq(s, 1, Len(s) - 1)
  <1>1. /\ Len(s) \in Nat \ {0}
        /\ \A i \in 1..(Len(s) - 1) : u[i] = s[i]
    BY PoppedSeq
  <1>2. /\ StubFrames(u) = StubFrames(s) \ {Len(s)}
        /\ Cardinality(StubFrames(u)) = Cardinality(StubFrames(s)) - 1
        /\ \A i \in StubFrames(u) : Rank(u, i) = Rank(s, i)
        /\ Rank(s, Len(s)) = Cardinality(StubFrames(s)) - 1
    BY StubFramesPop
  <1>3. Cardinality(StubFrames(u)) \in Nat /\ Cardinality(StubFrames(s)) \in Nat
    BY PoppedSeq, StubFramesFinite
  <1>4. p = Cardinality(StubFrames(s)) /\ p \in Nat \ {0}
    BY <1>2, <1>3 DEF Mirror, IndexOf, NoRAS, Tops
  <1>5. Len(s) \in StubFrames(s)
    BY <1>1 DEF StubFrames
  <1>6. Holds(m, p - 1, s[Len(s)].ret)
    BY <1>2, <1>4, <1>5 DEF Mirror
  <1>7. \A i \in StubFrames(u) : i \in StubFrames(s) /\ i \in 1..(Len(s) - 1)
    BY <1>1, <1>2 DEF StubFrames
  <1>8. IndexOf(p - 1) = Cardinality(StubFrames(u))
    BY <1>2, <1>4 DEF IndexOf, NoRAS
  <1>9. Mirror(u, p - 1, m)
    BY <1>1, <1>2, <1>7, <1>8 DEF Mirror
  <1>10. QED
    BY <1>4, <1>6, <1>9

(* Foreign code that writes past the page spoils no word that is not its own. *)
LEMMA MirrorHeapWrite ==
  ASSUME NEW s \in Seq(Frame), NEW p, NEW m \in RASHeap, NEW k \in HeapWords,
         k >= RASSlots, Mirror(s, p, m)
  PROVE  Mirror(s, p, [m EXCEPT ![k] = NoSite])
  <1>1. ASSUME NEW i \in StubFrames(s)
        PROVE  Holds([m EXCEPT ![k] = NoSite], Rank(s, i), s[i].ret)
    <2>1. CASE Rank(s, i) = k
      BY <2>1 DEF Holds, RASHeap
    <2>2. CASE Rank(s, i) # k
      BY <2>2 DEF Mirror, Holds, RASHeap
    <2>3. QED
      BY <2>1, <2>2
  <1>2. QED
    BY <1>1 DEF Mirror

-----------------------------------------------------------------------------
(* The first inductive invariant: the types and the RAS hold together,       *)
(* since a pop finds a word at all only because every push is matched.       *)

RASInv == TypeOK /\ RASMirrorsStubs

(* RASMirrorsStubs holds when each thread's RAS mirrors its stack. *)
LEMMA MirrorPerThread ==
  RASMirrorsStubs <=> \A t \in Threads : Mirror(stack[t], rasPtr[t], slot[t])
  BY DEF RASMirrorsStubs, RASIndex, Mirror, IndexOf, Holds

(* A non-empty set of naturals has a least element. *)
LEMMA LeastNatural ==
  ASSUME NEW M \in SUBSET Nat, M # {}
  PROVE  \E i \in M : \A j \in M : i <= j
  <1> DEFINE LT == {ss \in Nat \X Nat : ss[1] < ss[2]}
  <1>1. IsWellFoundedOn(LT, Nat)
    BY NatLessThanWellFounded DEF OpToRel
  <1>2. PICK i \in M : \A j \in M : ~(<<j, i>> \in LT)
    <2> HIDE DEF LT
    <2>1. QED
      BY <1>1, WFMin
  <1>3. \A j \in M : ~(j < i)
    BY <1>2
  <1>4. \A j \in M : i <= j
    BY <1>3
  <1>5. QED
    BY <1>4

(* getInterceptByName returns a recorded intercept: that of the function it  *)
(* is asked for, or one that was recorded before that function's own.        *)
LEMMA LookupFinds ==
  ASSUME NEW f, intercepts \in Seq(Install), intercepts # <<>>
  PROVE  /\ Lookup(f) \in 1..Len(intercepts)
         /\ OwnOrEarlier(Lookup(f), f)
  <1>1. Len(intercepts) \in Nat \ {0}
    BY EmptySeq, LenProperties
  <1>2. CASE Matches(f) = {}
    BY <1>1, <1>2 DEF Lookup, Matches, OwnOrEarlier
  <1>3. CASE Matches(f) # {}
    <2>1. Matches(f) \in SUBSET Nat
      BY <1>1 DEF Matches
    <2>2. \E i \in Matches(f) : \A j \in Matches(f) : i <= j
      BY <1>3, <2>1, LeastNatural
    <2>3. Lookup(f) \in Matches(f)
      BY <1>3, <2>2 DEF Lookup
    <2>4. QED
      BY <2>3 DEF Matches, OwnOrEarlier
  <1>4. QED
    BY <1>2, <1>3

(* What a static holds is a recorded intercept. *)
LEMMA CallerType ==
  ASSUME TypeOK, NEW f \in Functions, caller[f] # NoCaller
  PROVE  /\ caller[f] \in 1..Len(intercepts)
         /\ intercepts[caller[f]] \in Install
         /\ intercepts[caller[f]].fn \in Functions
  <1>1. caller[f] \in 1..Len(intercepts)
    <2>1. Len(intercepts) \in Nat
      BY LenProperties DEF TypeOK
    <2>2. caller[f] \in 0..Len(intercepts) /\ caller[f] # 0
      BY DEF TypeOK, NoCaller
    <2>3. QED
      BY <2>1, <2>2
  <1>2. intercepts[caller[f]] \in Install
    BY <1>1, ElementOfSeq DEF TypeOK
  <1>3. QED
    BY <1>1, <1>2 DEF Install

(* A call by a stub keeps the invariant of the calling thread. *)
LEMMA StubCall ==
  ASSUME RASInv, NEW t \in Threads, NEW v \in {"replacement", "original"},
         NEW f \in Functions, NEW s \in Sites,
         Push(t, v, f, s), PushRA(t, s)
  PROVE  /\ stack' \in [Threads -> Seq(Frame)]
         /\ rasPtr' \in [Threads -> Tops]
         /\ slot' \in [Threads -> RASHeap]
         /\ RASMirrorsStubs'
  <1> DEFINE fr == [via |-> v, fn |-> f, ret |-> s, off |-> off[t]]
  <1>1. fr \in Frame /\ Stub(fr) /\ fr.ret = s
    BY DEF RASInv, TypeOK, Frame, Stub
  <1>2. /\ stack[t] \in Seq(Frame)
        /\ rasPtr[t] \in Tops
        /\ slot[t] \in RASHeap
        /\ RASIndex(t) = IndexOf(rasPtr[t])
        /\ Mirror(stack[t], rasPtr[t], slot[t])
    BY MirrorPerThread DEF RASInv, TypeOK, RASHeap, Tops, RASIndex, IndexOf
  <1>2a. IndexOf(rasPtr[t]) \in HeapWords
    <2>1. Len(stack[t]) < MaxDepth /\ Len(stack[t]) \in Nat
      BY <1>2, LenProperties DEF Push
    <2>2. IndexOf(rasPtr[t]) = Cardinality(StubFrames(stack[t]))
      BY <1>2 DEF Mirror
    <2>3. QED
      BY <1>2, <2>1, <2>2, StubFramesFinite, ConstAssumption DEF HeapWords
  <1>3. Append(stack[t], fr) \in Seq(Frame)
    BY <1>1, <1>2, PushedSeq
  <1>4. stack' = [stack EXCEPT ![t] = Append(stack[t], fr)]
    BY DEF Push, RASInv, TypeOK
  <1>5. rasPtr' = [rasPtr EXCEPT ![t] = IndexOf(rasPtr[t]) + 1]
    BY <1>2 DEF PushRA, RASInv, TypeOK
  <1>6. slot' = [slot EXCEPT ![t] = [slot[t] EXCEPT ![IndexOf(rasPtr[t])] = s]]
    BY <1>2 DEF PushRA, RASInv, TypeOK
  <1>7. /\ IndexOf(rasPtr[t]) + 1 \in Tops
        /\ [slot[t] EXCEPT ![IndexOf(rasPtr[t])] = s] \in RASHeap
    BY <1>2, <1>2a DEF Tops, HeapWords, RASHeap
  <1>8. /\ stack' \in [Threads -> Seq(Frame)]
        /\ rasPtr' \in [Threads -> Tops]
        /\ slot' \in [Threads -> RASHeap]
    BY <1>3, <1>4, <1>5, <1>6, <1>7 DEF RASInv, TypeOK, RASHeap, Tops
  <1>9. Mirror(stack'[t], rasPtr'[t], slot'[t])
    <2>1. Mirror(Append(stack[t], fr), IndexOf(rasPtr[t]) + 1,
                 [slot[t] EXCEPT ![IndexOf(rasPtr[t])] = fr.ret])
      BY <1>1, <1>2, <1>2a, MirrorPushStub
    <2>2. QED
      BY <1>1, <1>4, <1>5, <1>6, <2>1 DEF RASInv, TypeOK
  <1>10. ASSUME NEW x \in Threads, x # t
         PROVE  Mirror(stack'[x], rasPtr'[x], slot'[x])
    BY <1>4, <1>5, <1>6, <1>10, MirrorPerThread DEF RASInv, TypeOK
  <1>11. QED
    BY <1>8, <1>9, <1>10, MirrorPerThread DEF RASMirrorsStubs, RASIndex, Mirror, IndexOf, Holds

(* A call that is not made by a stub does not touch the RAS. *)
LEMMA DirectCall ==
  ASSUME RASInv, NEW t \in Threads, NEW f \in Functions, NEW s \in Sites,
         Push(t, "direct", f, s), UNCHANGED <<rasPtr, slot>>
  PROVE  stack' \in [Threads -> Seq(Frame)] /\ RASMirrorsStubs'
  <1> DEFINE fr == [via |-> "direct", fn |-> f, ret |-> s, off |-> off[t]]
  <1>1. fr \in Frame /\ ~Stub(fr)
    BY DEF RASInv, TypeOK, Frame, Stub
  <1>2. stack[t] \in Seq(Frame) /\ Mirror(stack[t], rasPtr[t], slot[t])
    BY MirrorPerThread DEF RASInv, TypeOK
  <1>3. stack' = [stack EXCEPT ![t] = Append(stack[t], fr)]
    BY DEF Push, RASInv, TypeOK
  <1>4. Append(stack[t], fr) \in Seq(Frame)
    BY <1>1, <1>2, PushedSeq
  <1>5. Mirror(Append(stack[t], fr), rasPtr[t], slot[t])
    BY <1>1, <1>2, MirrorPushDirect
  <1>6. \A x \in Threads : Mirror(stack'[x], rasPtr'[x], slot'[x])
    BY <1>3, <1>5, MirrorPerThread DEF RASInv, TypeOK
  <1>7. QED
    BY <1>3, <1>4, <1>6 DEF RASInv, TypeOK, RASMirrorsStubs, RASIndex, Mirror, IndexOf, Holds

(* A return through a stub goes to the stub's own caller. *)
LEMMA StubReturn ==
  ASSUME RASInv, NEW t \in Threads, NEW v \in {"replacement", "original"},
         Returning(t, v), ReturnThroughRAS(t)
  PROVE  /\ stack' \in [Threads -> Seq(Frame)]
         /\ rasPtr' \in [Threads -> Tops]
         /\ resumed' = [resumed EXCEPT ![t] = Top(t).ret]
         /\ RASMirrorsStubs'
  <1> DEFINE u == SubSeq(stack[t], 1, Len(stack[t]) - 1)
  <1>1. /\ stack[t] \in Seq(Frame) /\ stack[t] # <<>>
        /\ rasPtr[t] \in Tops
        /\ Stub(stack[t][Len(stack[t])])
        /\ Mirror(stack[t], rasPtr[t], slot[t])
    BY MirrorPerThread DEF RASInv, TypeOK, Returning, Stub, Top, Tops
  <1>2. /\ rasPtr[t] \in Nat \ {0}
        /\ slot[t][rasPtr[t] - 1] = Top(t).ret
        /\ Mirror(u, rasPtr[t] - 1, slot[t])
    BY <1>1, MirrorPopStub DEF Top, Holds, ReturnThroughRAS, TopLost
  <1>3. u \in Seq(Frame)
    BY <1>1, PoppedSeq
  <1>4. /\ stack' = [stack EXCEPT ![t] = u]
        /\ rasPtr' = [rasPtr EXCEPT ![t] = rasPtr[t] - 1]
        /\ slot' = slot
        /\ resumed' = [resumed EXCEPT ![t] = Top(t).ret]
    BY <1>2 DEF Returning, Pop, ReturnThroughRAS, RASInv, TypeOK
  <1>5. rasPtr[t] - 1 \in Tops
    BY <1>2 DEF Tops
  <1>6. \A x \in Threads : Mirror(stack'[x], rasPtr'[x], slot'[x])
    BY <1>2, <1>4, MirrorPerThread DEF RASInv, TypeOK
  <1>7. QED
    BY <1>3, <1>4, <1>5, <1>6
    DEF RASInv, TypeOK, RASMirrorsStubs, RASIndex, Mirror, IndexOf, Holds, Tops

(* A direct return does not touch the RAS either. *)
LEMMA DirectReturn ==
  ASSUME RASInv, NEW t \in Threads, Returning(t, "direct"),
         UNCHANGED <<rasPtr, slot>>
  PROVE  stack' \in [Threads -> Seq(Frame)] /\ RASMirrorsStubs'
  <1> DEFINE u == SubSeq(stack[t], 1, Len(stack[t]) - 1)
  <1>1. /\ stack[t] \in Seq(Frame) /\ stack[t] # <<>>
        /\ ~Stub(stack[t][Len(stack[t])])
        /\ Mirror(stack[t], rasPtr[t], slot[t])
    BY MirrorPerThread DEF RASInv, TypeOK, Returning, Stub, Top
  <1>2. Mirror(u, rasPtr[t], slot[t]) /\ u \in Seq(Frame)
    BY <1>1, MirrorPopDirect, PoppedSeq
  <1>3. stack' = [stack EXCEPT ![t] = u]
    BY DEF Returning, Pop, RASInv, TypeOK
  <1>4. \A x \in Threads : Mirror(stack'[x], rasPtr'[x], slot'[x])
    BY <1>2, <1>3, MirrorPerThread DEF RASInv, TypeOK
  <1>5. QED
    BY <1>2, <1>3, <1>4 DEF RASInv, TypeOK, RASMirrorsStubs, RASIndex, Mirror, IndexOf, Holds

(* The innermost pending call of a thread is a frame. *)
LEMMA TopType ==
  ASSUME TypeOK, NEW t \in Threads, stack[t] # <<>>
  PROVE  Top(t) \in Frame /\ Top(t).ret \in Sites /\ Top(t).off \in Nat
  <1>1. stack[t] \in Seq(Frame) /\ Len(stack[t]) \in Nat \ {0}
    BY PoppedSeq DEF TypeOK
  <1>2. Top(t) \in Frame
    BY <1>1, ElementOfSeq DEF Top
  <1>3. QED
    BY <1>2 DEF Frame

(* Only stacks and RASes matter to the mirror. *)
LEMMA SameRAS ==
  ASSUME RASMirrorsStubs, UNCHANGED <<stack, rasPtr, slot>>
  PROVE  RASMirrorsStubs'
  BY DEF RASMirrorsStubs, RASIndex

(* Enabling undoes a disable: the counter of the thread's own disables was   *)
(* positive.                                                                 *)
LEMMA EnableUndoes ==
  ASSUME TypeOK, NEW t \in Threads, EnableInterception(t)
  PROVE  off[t] \in Nat \ {0} /\ flag[t] \in Int
  <1>1. off[t] \in Nat /\ flag[t] \in Int
    BY DEF TypeOK
  <1>2. CASE stack[t] = <<>>
    BY <1>1, <1>2 DEF EnableInterception
  <1>3. CASE stack[t] # <<>>
    <2>1. Top(t).off \in Nat /\ off[t] > Top(t).off
      BY <1>3, TopType DEF EnableInterception
    <2>2. QED
      BY <1>1, <2>1
  <1>4. QED
    BY <1>2, <1>3

\* A thread's step that ends the AUT.
Dies(t) == \/ NoMemoryForRAS(t) \/ LoseTheWay(t)
           \/ \E f \in Functions : NoOriginal(t, f)

(* No thread has called anything yet: the empty RASes mirror empty stacks. *)
LEMMA RASInvInit == Init => RASInv
  <1> SUFFICES ASSUME Init PROVE RASInv
    OBVIOUS
  <1>1. StubFrames(<<>>) = {}
    BY DEF StubFrames
  <1>2. Cardinality(StubFrames(<<>>)) = 0
    BY <1>1, FS_EmptySet
  <1>3. TypeOK
    <2>1. Len(<<>>) = 0 /\ 0 \in 0..0
      BY EmptySeq
    <2>2. /\ caller \in [Functions -> 0..Len(intercepts)]
          /\ looked \in [Threads -> 0..Len(intercepts)]
      BY <2>1 DEF Init, NoCaller
    <2>3. QED
      BY <2>2, ConstAssumption DEF Init, TypeOK, NoRAS
  <1>4. RASMirrorsStubs
    BY <1>1, <1>2 DEF Init, RASMirrorsStubs, RASIndex
  <1>5. QED
    BY <1>3, <1>4 DEF RASInv

(* Every step of a thread and of the server keeps the RAS in line. *)
LEMMA RASInvStep == RASInv /\ [Next]_vars => RASInv'
  <1> SUFFICES ASSUME RASInv, [Next]_vars
               PROVE  RASInv'
    OBVIOUS
  <1> USE DEF RASInv
  <1>1. ASSUME NEW t \in Threads, NEW f \in Functions, NEW s \in Sites,
               CallDirect(t, f, s)
        PROVE  RASInv'
    BY <1>1, DirectCall DEF CallDirect, TypeOK, serverVars, callerVars
  <1>2. ASSUME NEW t \in Threads, NEW f \in Functions, NEW s \in Sites,
               CallReplacement(t, f, s)
        PROVE  RASInv'
    <2>1. flag' \in [Threads -> Int]
      <3>1. flag \in [Threads -> Int] /\ flag' = [flag EXCEPT ![t] = 1]
        BY <1>2 DEF CallReplacement, SetInIntercept, TypeOK
      <3>2. QED
        BY <3>1, ExceptType
    <2>2. /\ stack' \in [Threads -> Seq(Frame)]
          /\ rasPtr' \in [Threads -> Tops]
          /\ slot' \in [Threads -> RASHeap]
          /\ RASMirrorsStubs'
      BY <1>2, StubCall DEF CallReplacement
    <2>3. QED
      BY <1>2, <2>1, <2>2 DEF CallReplacement, RASHeap, Tops, TypeOK, serverVars, callerVars
  <1>3. ASSUME NEW t \in Threads, NEW f \in Functions, NEW s \in Sites,
               CallOriginalReentrant(t, f, s)
        PROVE  RASInv'
    <2>1. intercepts[caller[f]].fn \in Functions
      BY <1>3, CallerType DEF CallOriginalReentrant
    <2>2. flag' \in [Threads -> Int]
      <3>1. flag \in [Threads -> Int] /\ flag' = [flag EXCEPT ![t] = 0]
        BY <1>3 DEF CallOriginalReentrant, SetInIntercept, TypeOK
      <3>2. QED
        BY <3>1, ExceptType
    <2>3. /\ stack' \in [Threads -> Seq(Frame)]
          /\ rasPtr' \in [Threads -> Tops]
          /\ slot' \in [Threads -> RASHeap]
          /\ RASMirrorsStubs'
      BY <1>3, <2>1, StubCall DEF CallOriginalReentrant
    <2>4. QED
      BY <1>3, <2>2, <2>3 DEF CallOriginalReentrant, RASHeap, Tops, TypeOK, serverVars, callerVars
  <1>4. ASSUME NEW t \in Threads, NEW f \in Functions, NEW s \in Sites,
               CallOriginalPlain(t, f, s)
        PROVE  RASInv'
    <2>1. intercepts[caller[f]].fn \in Functions
      BY <1>4, CallerType DEF CallOriginalPlain
    <2>2. QED
      BY <1>4, <2>1, DirectCall DEF CallOriginalPlain, TypeOK, serverVars, callerVars
  <1>5. ASSUME NEW t \in Threads, ReturnDirect(t)
        PROVE  RASInv'
    <2>1. Top(t).ret \in Sites
      BY <1>5, TopType DEF ReturnDirect, Returning
    <2>2. QED
      BY <1>5, <2>1, DirectReturn DEF ReturnDirect, TypeOK, serverVars, callerVars
  <1>6. ASSUME NEW t \in Threads, ReturnFromReplacement(t)
        PROVE  RASInv'
    <2>1. Top(t).ret \in Sites
      BY <1>6, TopType DEF ReturnFromReplacement, Returning
    <2>2. flag' \in [Threads -> Int]
      <3>1. flag \in [Threads -> Int] /\ flag' = [flag EXCEPT ![t] = 0]
        BY <1>6 DEF ReturnFromReplacement, SetInIntercept, TypeOK
      <3>2. QED
        BY <3>1, ExceptType
    <2>3. /\ stack' \in [Threads -> Seq(Frame)]
          /\ rasPtr' \in [Threads -> Tops]
          /\ resumed' = [resumed EXCEPT ![t] = Top(t).ret]
          /\ RASMirrorsStubs'
      BY <1>6, StubReturn DEF ReturnFromReplacement
    <2>4. slot' = slot
      BY <1>6 DEF ReturnFromReplacement, ReturnThroughRAS
    <2>5. QED
      BY <1>6, <2>1, <2>2, <2>3, <2>4 DEF ReturnFromReplacement, Tops, TypeOK, serverVars, callerVars
  <1>7. ASSUME NEW t \in Threads, ReturnFromOriginal(t)
        PROVE  RASInv'
    <2>1. Top(t).ret \in Sites
      BY <1>7, TopType DEF ReturnFromOriginal, Returning
    <2>2. flag' \in [Threads -> Int]
      <3>1. flag \in [Threads -> Int] /\ flag' = [flag EXCEPT ![t] = 1]
        BY <1>7 DEF ReturnFromOriginal, SetInIntercept, TypeOK
      <3>2. QED
        BY <3>1, ExceptType
    <2>3. /\ stack' \in [Threads -> Seq(Frame)]
          /\ rasPtr' \in [Threads -> Tops]
          /\ resumed' = [resumed EXCEPT ![t] = Top(t).ret]
          /\ RASMirrorsStubs'
      BY <1>7, StubReturn DEF ReturnFromOriginal
    <2>4. slot' = slot
      BY <1>7 DEF ReturnFromOriginal, ReturnThroughRAS
    <2>5. QED
      BY <1>7, <2>1, <2>2, <2>3, <2>4 DEF ReturnFromOriginal, Tops, TypeOK, serverVars, callerVars
  <1>8. ASSUME NEW t \in Threads, DisableInterception(t)
        PROVE  RASInv'
    <2>1. RASMirrorsStubs'
      BY <1>8, SameRAS DEF DisableInterception
    <2>2. off[t] \in Nat /\ flag[t] \in Int
      BY DEF TypeOK
    <2>3. flag' \in [Threads -> Int] /\ off' \in [Threads -> Nat]
      <3>1. /\ flag \in [Threads -> Int] /\ flag' = [flag EXCEPT ![t] = flag[t] + 1]
            /\ off \in [Threads -> Nat] /\ off' = [off EXCEPT ![t] = off[t] + 1]
        BY <1>8 DEF DisableInterception, TypeOK
      <3>2. flag[t] + 1 \in Int /\ off[t] + 1 \in Nat
        BY <2>2
      <3>3. QED
        BY <3>1, <3>2, ExceptType
    <2>4. QED
      BY <1>8, <2>1, <2>3 DEF DisableInterception, TypeOK, serverVars, callerVars
  <1>9. ASSUME NEW t \in Threads, EnableInterception(t)
        PROVE  RASInv'
    <2>1. RASMirrorsStubs'
      BY <1>9, SameRAS DEF EnableInterception
    <2>2. off[t] \in Nat \ {0} /\ flag[t] \in Int
      BY <1>9, EnableUndoes
    <2>3. flag' \in [Threads -> Int] /\ off' \in [Threads -> Nat]
      <3>1. /\ flag \in [Threads -> Int] /\ flag' = [flag EXCEPT ![t] = flag[t] - 1]
            /\ off \in [Threads -> Nat] /\ off' = [off EXCEPT ![t] = off[t] - 1]
        BY <1>9 DEF EnableInterception, TypeOK
      <3>2. flag[t] - 1 \in Int /\ off[t] - 1 \in Nat
        BY <2>2
      <3>3. QED
        BY <3>1, <3>2, ExceptType
    <2>4. QED
      BY <1>9, <2>1, <2>3 DEF EnableInterception, TypeOK, serverVars, callerVars
  <1>10. ASSUME NEW t \in Threads, Dies(t)
         PROVE  RASInv'
    <2>1. /\ UNCHANGED <<threadVars, serverVars, callerVars>>
          /\ crash' \in {"null RAS", "wild return", "no intercept"}
      BY <1>10 DEF Dies, NoMemoryForRAS, LoseTheWay, NoOriginal, Die
    <2>2. RASMirrorsStubs'
      BY <2>1, SameRAS DEF threadVars
    <2>3. QED
      BY <2>1, <2>2 DEF TypeOK, threadVars, serverVars, callerVars
  <1>11. ASSUME NEW f \in Functions, NEW reentrant \in BOOLEAN, Redirect(f, reentrant)
         PROVE  RASInv'
    <2>1. RASMirrorsStubs'
      BY <1>11, SameRAS DEF Redirect, threadVars
    <2>2. QED
      BY <1>11, <2>1 DEF Redirect, TypeOK, Install, threadVars, callerVars
  <1>12. CASE Register
    <2>1. installing \in Install /\ intercepts \in Seq(Install)
      BY <1>12 DEF Register, TypeOK
    <2>2. /\ intercepts' \in Seq(Install)
          /\ Len(intercepts) \in Nat
          /\ Len(intercepts') = Len(intercepts) + 1
      BY <1>12, <2>1, AppendProperties, LenProperties DEF Register
    <2>3. RASMirrorsStubs'
      BY <1>12, SameRAS DEF Register, threadVars
    <2>4. 0..Len(intercepts) \subseteq 0..Len(intercepts')
      BY <2>2
    <2>5. /\ caller' \in [Functions -> 0..Len(intercepts')]
          /\ looked' \in [Threads -> 0..Len(intercepts')]
      BY <1>12, <2>4 DEF Register, TypeOK, callerVars
    <2>6. QED
      BY <1>12, <2>2, <2>3, <2>5 DEF Register, TypeOK, threadVars
  <1>13. CASE UNCHANGED vars
    <2>1. RASMirrorsStubs'
      BY <1>13, SameRAS DEF vars
    <2>2. QED
      BY <1>13, <2>1 DEF vars, TypeOK
  <1>14. ASSUME NEW t \in Threads, NEW f \in Functions, LookCallerUp(t, f)
         PROVE  RASInv'
    <2>1. RASMirrorsStubs'
      BY <1>14, SameRAS DEF LookCallerUp, threadVars
    <2>2. Lookup(f) \in 0..Len(intercepts)
      <3>1. Lookup(f) \in 1..Len(intercepts) /\ Len(intercepts) \in Nat
        BY <1>14, LookupFinds, LenProperties DEF LookCallerUp, TypeOK
      <3>2. QED
        BY <3>1
    <2>3. looked' \in [Threads -> 0..Len(intercepts)]
      BY <1>14, <2>2, ExceptType DEF LookCallerUp, TypeOK
    <2>4. QED
      BY <1>14, <2>1, <2>3 DEF LookCallerUp, TypeOK, threadVars, serverVars
  <1>15. ASSUME NEW t \in Threads, NEW f \in Functions, StoreCaller(t, f)
         PROVE  RASInv'
    <2>1. RASMirrorsStubs'
      BY <1>15, SameRAS DEF StoreCaller, threadVars
    <2>2. /\ caller' = [caller EXCEPT ![f] = looked[t]]
          /\ looked' = [looked EXCEPT ![t] = 0]
          /\ looked[t] \in 0..Len(intercepts) /\ 0 \in 0..Len(intercepts)
      <3>1. Len(intercepts) \in Nat
        BY LenProperties DEF TypeOK
      <3>2. looked[t] \in 0..Len(intercepts)
        BY DEF TypeOK
      <3>3. 0 \in 0..Len(intercepts)
        BY <3>1
      <3>4. QED
        BY <1>15, <3>2, <3>3 DEF StoreCaller, NoCaller
    <2>3. /\ caller' \in [Functions -> 0..Len(intercepts)]
          /\ looked' \in [Threads -> 0..Len(intercepts)]
      BY <2>2, ExceptType DEF TypeOK
    <2>4. QED
      BY <1>15, <2>1, <2>3 DEF StoreCaller, TypeOK, threadVars, serverVars
  <1>16. ASSUME NEW t \in Threads, NEW k \in HeapWords, WriteHeap(t, k)
         PROVE  RASInv'
    <2>1. slot[t] \in RASHeap
      BY DEF TypeOK, RASHeap
    <2>2. slot' = [slot EXCEPT ![t] = [slot[t] EXCEPT ![k] = NoSite]]
      BY <1>16 DEF WriteHeap, TypeOK
    <2>3. \A x \in Threads : Mirror(stack'[x], rasPtr'[x], slot'[x])
      <3>1. Mirror(stack[t], rasPtr[t], [slot[t] EXCEPT ![k] = NoSite])
        BY <1>16, <2>1, MirrorHeapWrite, MirrorPerThread DEF WriteHeap, TypeOK
      <3>2. QED
        BY <1>16, <2>2, <3>1, MirrorPerThread DEF WriteHeap, TypeOK
    <2>4. RASMirrorsStubs'
      BY <2>3 DEF RASMirrorsStubs, RASIndex, Mirror, IndexOf, Holds
    <2>5. slot' \in [Threads -> RASHeap]
      <3>1. [slot[t] EXCEPT ![k] = NoSite] \in RASHeap
        BY <2>1 DEF RASHeap
      <3>2. slot \in [Threads -> RASHeap]
        BY DEF TypeOK, RASHeap
      <3>3. QED
        BY <2>2, <3>1, <3>2, ExceptType
    <2>6. QED
      BY <1>16, <2>4, <2>5 DEF WriteHeap, RASHeap, TypeOK, serverVars, callerVars
  <1>17. QED
    BY <1>1, <1>2, <1>3, <1>4, <1>5, <1>6, <1>7, <1>8, <1>9, <1>10, <1>11,
       <1>12, <1>13, <1>14, <1>15, <1>16
    DEF Next, AUTStep, ThreadStep, ServerStep, Dies

(* The types and the mirrored RAS hold together in every reachable state. *)
THEOREM RASInvariant == Spec => []RASInv
  BY RASInvInit, RASInvStep, PTL DEF Spec

(* Every variable keeps its type; in particular a static holds a caller stub *)
(* of the list or none, however its lookup went.                             *)
THEOREM TypeCorrect == Spec => []TypeOK
  <1>1. RASInv => TypeOK
    BY DEF RASInv
  <1>2. QED
    BY <1>1, RASInvariant, PTL

(* The RAS holds exactly the return addresses of the stubs on the stack. *)
THEOREM RASMirrors == Spec => []RASMirrorsStubs
  <1>1. RASInv => RASMirrorsStubs
    BY DEF RASInv
  <1>2. QED
    BY <1>1, RASInvariant, PTL

-----------------------------------------------------------------------------
(* The second inductive invariant: the counter.  The context of position i   *)
(* of a stack is decided by the innermost stub frame below i.                *)

InnermostBelow(s, k, i) ==
  /\ k \in 1..(i - 1)
  /\ Stub(s[k])
  /\ \A j \in (k + 1)..(i - 1) : ~Stub(s[j])

ReplBelow(s, i) == \E k \in 1..(i - 1) :
  InnermostBelow(s, k, i) /\ s[k].via = "replacement"

(* Replacement stubs are entered from unshielded code, caller stubs from     *)
(* replacement code, and both with no disable outstanding; and a position    *)
(* with stub frames below it has an innermost one.                           *)
Nested(s) ==
  /\ \A i \in 1..Len(s) :
       /\ s[i].via = "replacement" => ~ReplBelow(s, i) /\ s[i].off = 0
       /\ s[i].via = "original" => ReplBelow(s, i) /\ s[i].off = 0
  /\ \A i \in 1..(Len(s) + 1) :
       (\E k \in 1..(i - 1) : Stub(s[k])) => \E k \in 1..(i - 1) : InnermostBelow(s, k, i)

CounterInv ==
  /\ CounterMatchesContext
  /\ \A t \in Threads : Nested(stack[t])

(* A stub frame on top decides whether its thread runs replacement code. *)
LEMMA ContextOfTop ==
  ASSUME NEW s \in Seq(Frame)
  PROVE  InReplacement(s) <=> ReplBelow(s, Len(s) + 1)
  <1>1. Len(s) \in Nat /\ (Len(s) + 1) - 1 = Len(s)
    BY LenProperties
  <1>2. QED
    BY <1>1 DEF InReplacement, ReplBelow, InnermostStub, InnermostBelow

(* Positions below a change have the context they had. *)
LEMMA SameBelow ==
  ASSUME NEW s, NEW u, NEW i \in Nat, \A j \in 1..(i - 1) : u[j] = s[j]
  PROVE  /\ ReplBelow(u, i) <=> ReplBelow(s, i)
         /\ \A k \in 1..(i - 1) : InnermostBelow(u, k, i) <=> InnermostBelow(s, k, i)
         /\ (\E k \in 1..(i - 1) : Stub(u[k])) <=> (\E k \in 1..(i - 1) : Stub(s[k]))
  <1>1. ASSUME NEW k \in 1..(i - 1)
        PROVE  InnermostBelow(u, k, i) <=> InnermostBelow(s, k, i)
    <2>1. \A j \in (k + 1)..(i - 1) : u[j] = s[j]
      OBVIOUS
    <2>2. QED
      BY <2>1 DEF InnermostBelow
  <1>2. QED
    BY <1>1 DEF ReplBelow

(* The context after a call: a stub frame decides, a direct call inherits. *)
LEMMA ContextPush ==
  ASSUME NEW s \in Seq(Frame), NEW f \in Frame
  PROVE  InReplacement(Append(s, f)) <=>
           \/ f.via = "replacement"
           \/ f.via = "direct" /\ InReplacement(s)
  <1> DEFINE u == Append(s, f)
             n == Len(s)
  <1>1. /\ n \in Nat
        /\ Len(u) = n + 1
        /\ \A i \in 1..n : u[i] = s[i]
        /\ u[n + 1] = f
    BY PushedSeq, LenProperties
  <1> HIDE DEF u, n
  <1>2. f.via \in {"direct", "replacement", "original"}
    BY DEF Frame
  <1>3. CASE f.via = "direct"
    <2>1. ~Stub(f)
      BY <1>3 DEF Stub
    <2>2. ASSUME NEW k \in 1..n
          PROVE  InnermostStub(u, k) <=> InnermostStub(s, k)
      <3>1. \A j \in (k + 1)..(n + 1) : j \in (k + 1)..n \/ j = n + 1
        BY <1>1
      <3>2. \A j \in (k + 1)..n : u[j] = s[j]
        BY <1>1
      <3>3. QED
        BY <1>1, <2>1, <3>1, <3>2 DEF InnermostStub, n
    <2>3. ~InnermostStub(u, n + 1)
      BY <1>1, <2>1 DEF InnermostStub
    <2>4. \A k \in 1..(n + 1) : k \in 1..n \/ k = n + 1
      BY <1>1
    <2>5. InReplacement(u) <=> InReplacement(s)
      BY <1>1, <2>2, <2>3, <2>4 DEF InReplacement, n
    <2>6. QED
      BY <1>3, <2>5 DEF u
  <1>4. CASE f.via # "direct"
    <2>1. InnermostStub(u, n + 1)
      BY <1>1, <1>4 DEF InnermostStub, Stub
    <2>2. ASSUME NEW k \in 1..(n + 1), InnermostStub(u, k)
          PROVE  k = n + 1
      BY <1>1, <1>4, <2>2 DEF InnermostStub, Stub
    <2>3. InReplacement(u) <=> f.via = "replacement"
      BY <1>1, <2>1, <2>2 DEF InReplacement
    <2>4. QED
      BY <1>4, <2>3 DEF u
  <1>5. QED
    BY <1>3, <1>4

(* The context after a return is the one below the frame that returned. *)
LEMMA ContextPop ==
  ASSUME NEW s \in Seq(Frame), s # <<>>
  PROVE  LET u == SubSeq(s, 1, Len(s) - 1)
             f == s[Len(s)] IN
         /\ InReplacement(u) <=> ReplBelow(s, Len(s))
         /\ f.via = "direct" => (InReplacement(u) <=> InReplacement(s))
         /\ f.via = "replacement" => InReplacement(s)
         /\ f.via = "original" => ~InReplacement(s)
  <1> DEFINE u == SubSeq(s, 1, Len(s) - 1)
             f == s[Len(s)]
             n == Len(s) - 1
  <1>1. /\ n \in Nat
        /\ Len(s) = n + 1
        /\ u \in Seq(Frame)
        /\ Len(u) = n
        /\ \A i \in 1..n : u[i] = s[i]
    BY PoppedSeq
  <1> HIDE DEF u, n
  <1>2. InReplacement(u) <=> ReplBelow(s, Len(s))
    <2>1. InReplacement(u) <=> ReplBelow(u, n + 1)
      BY <1>1, ContextOfTop
    <2>2. n + 1 \in Nat /\ \A j \in 1..((n + 1) - 1) : u[j] = s[j]
      BY <1>1
    <2>3. ReplBelow(u, n + 1) <=> ReplBelow(s, n + 1)
      BY <2>2, SameBelow
    <2>4. QED
      BY <1>1, <2>1, <2>3
  <1>3. ASSUME f.via = "direct"
        PROVE  InReplacement(u) <=> InReplacement(s)
    <2>1. ~Stub(s[n + 1])
      BY <1>1, <1>3 DEF Stub
    <2>2. ASSUME NEW k \in 1..n
          PROVE  InnermostStub(u, k) <=> InnermostStub(s, k)
      <3>1. \A j \in (k + 1)..(n + 1) : j \in (k + 1)..n \/ j = n + 1
        BY <1>1
      <3>2. \A j \in (k + 1)..n : u[j] = s[j]
        BY <1>1
      <3>3. QED
        BY <1>1, <2>1, <3>1, <3>2 DEF InnermostStub
    <2>3. ~InnermostStub(s, n + 1)
      BY <2>1 DEF InnermostStub
    <2>4. \A k \in 1..(n + 1) : k \in 1..n \/ k = n + 1
      BY <1>1
    <2>5. QED
      BY <1>1, <2>2, <2>3, <2>4 DEF InReplacement
  <1>4. ASSUME f.via # "direct"
        PROVE  InReplacement(s) <=> f.via = "replacement"
    <2>1. InnermostStub(s, n + 1)
      BY <1>1, <1>4 DEF InnermostStub, Stub
    <2>2. ASSUME NEW k \in 1..(n + 1), InnermostStub(s, k)
          PROVE  k = n + 1
      BY <1>1, <1>4, <2>2 DEF InnermostStub, Stub
    <2>3. QED
      BY <1>1, <2>1, <2>2 DEF InReplacement
  <1>5. QED
    BY <1>2, <1>3, <1>4 DEF u

(* A call keeps replacements separated by caller stubs, if a replacement
   is entered only outside replacement code. *)
LEMMA NestedPush ==
  ASSUME NEW s \in Seq(Frame), NEW f \in Frame, Nested(s),
         f.via = "replacement" => ~InReplacement(s) /\ f.off = 0,
         f.via = "original" => InReplacement(s) /\ f.off = 0
  PROVE  Nested(Append(s, f))
  <1> DEFINE u == Append(s, f)
             n == Len(s)
  <1>1. /\ n \in Nat
        /\ Len(u) = n + 1
        /\ \A i \in 1..n : u[i] = s[i]
        /\ u[n + 1] = f
    BY PushedSeq, LenProperties
  <1>2. InReplacement(s) <=> ReplBelow(s, n + 1)
    BY ContextOfTop
  <1> HIDE DEF u, n
  <1>3. ASSUME NEW i \in 1..(n + 1)
        PROVE  /\ ReplBelow(u, i) <=> ReplBelow(s, i)
               /\ \A k \in 1..(i - 1) : InnermostBelow(u, k, i) <=> InnermostBelow(s, k, i)
               /\ (\E k \in 1..(i - 1) : Stub(u[k])) <=> (\E k \in 1..(i - 1) : Stub(s[k]))
    <2>1. i \in Nat /\ \A j \in 1..(i - 1) : u[j] = s[j]
      BY <1>1
    <2>2. QED
      BY <2>1, SameBelow
  <1>4. ASSUME NEW i \in 1..(n + 1)
        PROVE  /\ u[i].via = "replacement" => ~ReplBelow(u, i) /\ u[i].off = 0
               /\ u[i].via = "original" => ReplBelow(u, i) /\ u[i].off = 0
    <2>1. CASE i \in 1..n
      BY <1>1, <1>3, <2>1 DEF Nested, n
    <2>2. CASE i = n + 1
      BY <1>1, <1>2, <1>3, <2>2
    <2>3. QED
      BY <1>1, <2>1, <2>2
  <1>5. ASSUME NEW i \in 1..(n + 2), \E k \in 1..(i - 1) : Stub(u[k])
        PROVE  \E k \in 1..(i - 1) : InnermostBelow(u, k, i)
    <2>1. CASE i \in 1..(n + 1)
      BY <1>3, <1>5, <2>1 DEF Nested, n
    <2>2. CASE i = n + 2 /\ Stub(f)
      <3>1. InnermostBelow(u, n + 1, n + 2)
        BY <1>1, <2>2 DEF InnermostBelow
      <3>2. QED
        BY <1>1, <2>2, <3>1
    <2>3. CASE i = n + 2 /\ ~Stub(f)
      <3>1. PICK k \in 1..(i - 1) : Stub(u[k])
        BY <1>5
      <3>2. k \in 1..((n + 1) - 1)
        BY <1>1, <2>3, <3>1
      <3>3. \E j \in 1..((n + 1) - 1) : Stub(s[j])
        BY <1>1, <3>1, <3>2
      <3>4. n + 1 \in 1..(n + 1)
        BY <1>1
      <3>5. PICK m \in 1..((n + 1) - 1) : InnermostBelow(s, m, n + 1)
        BY <3>3, <3>4 DEF Nested, n
      <3>6. InnermostBelow(u, m, n + 1)
        BY <1>3, <3>4, <3>5
      <3>7. \A j \in (m + 1)..((n + 2) - 1) : j \in (m + 1)..((n + 1) - 1) \/ j = n + 1
        BY <1>1
      <3>8. InnermostBelow(u, m, n + 2)
        BY <1>1, <2>3, <3>6, <3>7 DEF InnermostBelow
      <3>9. QED
        BY <1>1, <2>3, <3>5, <3>8
    <2>4. QED
      BY <1>1, <2>1, <2>2, <2>3
  <1>6. QED
    BY <1>1, <1>4, <1>5 DEF Nested, u

(* A return keeps replacements separated by caller stubs. *)
LEMMA NestedPop ==
  ASSUME NEW s \in Seq(Frame), s # <<>>, Nested(s)
  PROVE  Nested(SubSeq(s, 1, Len(s) - 1))
  <1> DEFINE u == SubSeq(s, 1, Len(s) - 1)
             n == Len(s) - 1
  <1>1. /\ n \in Nat
        /\ Len(s) = n + 1
        /\ Len(u) = n
        /\ \A i \in 1..n : u[i] = s[i]
    BY PoppedSeq
  <1> HIDE DEF u, n
  <1>2. ASSUME NEW i \in 1..(n + 1)
        PROVE  /\ ReplBelow(u, i) <=> ReplBelow(s, i)
               /\ \A k \in 1..(i - 1) : InnermostBelow(u, k, i) <=> InnermostBelow(s, k, i)
               /\ (\E k \in 1..(i - 1) : Stub(u[k])) <=> (\E k \in 1..(i - 1) : Stub(s[k]))
    <2>1. i \in Nat /\ \A j \in 1..(i - 1) : u[j] = s[j]
      BY <1>1
    <2>2. QED
      BY <2>1, SameBelow
  <1>3. ASSUME NEW i \in 1..n
        PROVE  /\ u[i].via = "replacement" => ~ReplBelow(u, i) /\ u[i].off = 0
               /\ u[i].via = "original" => ReplBelow(u, i) /\ u[i].off = 0
    BY <1>1, <1>2 DEF Nested
  <1>4. ASSUME NEW i \in 1..(n + 1), \E k \in 1..(i - 1) : Stub(u[k])
        PROVE  \E k \in 1..(i - 1) : InnermostBelow(u, k, i)
    BY <1>1, <1>2, <1>4 DEF Nested
  <1>5. QED
    BY <1>1, <1>3, <1>4 DEF Nested, u

-----------------------------------------------------------------------------
(* CounterInv, thread by thread. *)

Counted(s, n, d) == n = d + IF InReplacement(s) THEN 1 ELSE 0

(* CounterMatchesContext holds when each thread's counter is right. *)
LEMMA CounterPerThread ==
  CounterInv <=> \A t \in Threads : Counted(stack[t], flag[t], off[t]) /\ Nested(stack[t])
  BY DEF CounterInv, CounterMatchesContext, Counted

(* A step that changes only thread t's stack, counter and disables. *)
LEMMA CounterStep ==
  ASSUME TypeOK, CounterInv, NEW t \in Threads, NEW s, NEW n, NEW d,
         stack' = [stack EXCEPT ![t] = s],
         flag' = [flag EXCEPT ![t] = n],
         off' = [off EXCEPT ![t] = d],
         Counted(s, n, d), Nested(s)
  PROVE  CounterInv'
  <1>1. \A x \in Threads : Counted(stack'[x], flag'[x], off'[x]) /\ Nested(stack'[x])
    BY CounterPerThread DEF TypeOK
  <1>2. QED
    BY <1>1 DEF CounterInv, CounterMatchesContext, Counted

(* Initially no counter is set and nothing is on a stack. *)
LEMMA CounterInvInit == Init => CounterInv
  <1>1. ~InReplacement(<<>>)
    BY DEF InReplacement
  <1>2. Nested(<<>>)
    BY DEF Nested
  <1>3. QED
    BY <1>1, <1>2 DEF Init, CounterInv, CounterMatchesContext

(* Pushing a frame of thread t and writing v to its counter. *)
LEMMA CounterCall ==
  ASSUME TypeOK, CounterInv, NEW t \in Threads,
         NEW v \in {"direct", "replacement", "original"},
         NEW f \in Functions, NEW s \in Sites, Push(t, v, f, s), UNCHANGED off,
         \/ v = "direct" /\ UNCHANGED flag
         \/ v = "replacement" /\ flag[t] = 0 /\ SetInIntercept(t, 1)
         \/ /\ v = "original" /\ InReplacement(stack[t]) /\ off[t] = 0
            /\ SetInIntercept(t, 0)
  PROVE  CounterInv'
  <1> DEFINE fr == [via |-> v, fn |-> f, ret |-> s, off |-> off[t]]
             u == Append(stack[t], fr)
             n == IF v = "direct" THEN flag[t] ELSE IF v = "replacement" THEN 1 ELSE 0
  <1>1. /\ stack[t] \in Seq(Frame) /\ off[t] \in Nat /\ flag[t] \in Int
        /\ fr \in Frame /\ fr.via = v /\ fr.off = off[t]
    BY DEF TypeOK, Frame
  <1>2. /\ stack' = [stack EXCEPT ![t] = u]
        /\ flag' = [flag EXCEPT ![t] = n]
        /\ off' = [off EXCEPT ![t] = off[t]]
    BY DEF Push, SetInIntercept, TypeOK
  <1>3. Counted(stack[t], flag[t], off[t]) /\ Nested(stack[t])
    BY CounterPerThread
  <1>4. InReplacement(u) <=> v = "replacement" \/ (v = "direct" /\ InReplacement(stack[t]))
    BY <1>1, ContextPush
  <1>5. v = "replacement" => ~InReplacement(stack[t]) /\ off[t] = 0
    BY <1>1, <1>3 DEF Counted
  <1>6. Nested(u)
    BY <1>1, <1>3, <1>5, NestedPush
  <1>7. Counted(u, n, off[t])
    BY <1>1, <1>3, <1>4, <1>5 DEF Counted
  <1> HIDE DEF u, n, fr
  <1>8. QED
    BY <1>2, <1>6, <1>7, CounterStep

(* Popping the frame of a thread that has undone its disables. *)
LEMMA CounterReturn ==
  ASSUME TypeOK, CounterInv, NEW t \in Threads,
         NEW v \in {"direct", "replacement", "original"},
         Returning(t, v), UNCHANGED off,
         \/ v = "direct" /\ UNCHANGED flag
         \/ v = "replacement" /\ SetInIntercept(t, 0)
         \/ v = "original" /\ SetInIntercept(t, 1)
  PROVE  CounterInv'
  <1> DEFINE u == SubSeq(stack[t], 1, Len(stack[t]) - 1)
             n == IF v = "direct" THEN flag[t] ELSE IF v = "replacement" THEN 0 ELSE 1
  <1>1. /\ stack[t] \in Seq(Frame) /\ stack[t] # <<>>
        /\ Len(stack[t]) \in 1..Len(stack[t])
        /\ stack[t][Len(stack[t])].via = v
        /\ stack[t][Len(stack[t])].off = off[t]
        /\ off[t] \in Nat /\ flag[t] \in Int
    <2>1. stack[t] \in Seq(Frame) /\ off[t] \in Nat /\ flag[t] \in Int
      BY DEF TypeOK
    <2>2. stack[t] # <<>> /\ Top(t).via = v /\ off[t] = Top(t).off
      BY DEF Returning
    <2>3. Len(stack[t]) \in Nat \ {0}
      BY <2>1, <2>2, PoppedSeq
    <2>4. QED
      BY <2>1, <2>2, <2>3 DEF Top
  <1>2. /\ stack' = [stack EXCEPT ![t] = u]
        /\ flag' = [flag EXCEPT ![t] = n]
        /\ off' = [off EXCEPT ![t] = off[t]]
    BY DEF Returning, Pop, SetInIntercept, TypeOK
  <1>3. Counted(stack[t], flag[t], off[t]) /\ Nested(stack[t])
    BY CounterPerThread
  <1>4. /\ InReplacement(u) <=> ReplBelow(stack[t], Len(stack[t]))
        /\ v = "direct" => (InReplacement(u) <=> InReplacement(stack[t]))
    BY <1>1, ContextPop
  <1>5. /\ v = "replacement" => ~ReplBelow(stack[t], Len(stack[t])) /\ off[t] = 0
        /\ v = "original" => ReplBelow(stack[t], Len(stack[t])) /\ off[t] = 0
    BY <1>1, <1>3 DEF Nested
  <1>6. Nested(u)
    BY <1>1, <1>3, NestedPop
  <1>7. Counted(u, n, off[t])
    BY <1>1, <1>3, <1>4, <1>5 DEF Counted
  <1> HIDE DEF u, n
  <1>8. QED
    BY <1>2, <1>6, <1>7, CounterStep

(* Steps that touch neither stacks nor counters. *)
LEMMA SameCounters ==
  ASSUME CounterInv, UNCHANGED <<stack, flag, off>>
  PROVE  CounterInv'
  BY DEF CounterInv, CounterMatchesContext

(* Every step keeps every counter equal to its thread's context, if no
   replacement calls its original with a disable outstanding. *)
LEMMA CounterInvStep ==
  ASSUME SpanningDisables = FALSE, TypeOK, CounterInv, [Next]_vars
  PROVE  CounterInv'
  <1>1. ASSUME NEW t \in Threads, NEW f \in Functions, NEW s \in Sites,
               CallDirect(t, f, s)
        PROVE  CounterInv'
    BY <1>1, CounterCall DEF CallDirect
  <1>2. ASSUME NEW t \in Threads, NEW f \in Functions, NEW s \in Sites,
               CallReplacement(t, f, s)
        PROVE  CounterInv'
    BY <1>2, CounterCall DEF CallReplacement
  <1>3. ASSUME NEW t \in Threads, NEW f \in Functions, NEW s \in Sites,
               CallOriginalReentrant(t, f, s)
        PROVE  CounterInv'
    <2>1. intercepts[caller[f]].fn \in Functions
      BY <1>3, CallerType DEF CallOriginalReentrant
    <2>2. InReplacement(stack[t])
      BY <1>3 DEF CallOriginalReentrant, Replaces, InReplacement
    <2>3. QED
      BY <1>3, <2>1, <2>2, CounterCall DEF CallOriginalReentrant
  <1>4. ASSUME NEW t \in Threads, NEW f \in Functions, NEW s \in Sites,
               CallOriginalPlain(t, f, s)
        PROVE  CounterInv'
    <2>1. intercepts[caller[f]].fn \in Functions
      BY <1>4, CallerType DEF CallOriginalPlain
    <2>2. QED
      BY <1>4, <2>1, CounterCall DEF CallOriginalPlain
  <1>5. ASSUME NEW t \in Threads, ReturnDirect(t)
        PROVE  CounterInv'
    BY <1>5, CounterReturn DEF ReturnDirect
  <1>6. ASSUME NEW t \in Threads, ReturnFromReplacement(t)
        PROVE  CounterInv'
    BY <1>6, CounterReturn DEF ReturnFromReplacement
  <1>7. ASSUME NEW t \in Threads, ReturnFromOriginal(t)
        PROVE  CounterInv'
    BY <1>7, CounterReturn DEF ReturnFromOriginal
  <1>8. ASSUME NEW t \in Threads, DisableInterception(t)
        PROVE  CounterInv'
    <2>1. Counted(stack[t], flag[t], off[t]) /\ Nested(stack[t])
      BY CounterPerThread
    <2>2. off[t] \in Nat /\ flag[t] \in Int
      BY DEF TypeOK
    <2>3. Counted(stack[t], flag[t] + 1, off[t] + 1)
      BY <2>1, <2>2 DEF Counted
    <2>4. /\ stack' = [stack EXCEPT ![t] = stack[t]]
          /\ flag' = [flag EXCEPT ![t] = flag[t] + 1]
          /\ off' = [off EXCEPT ![t] = off[t] + 1]
      BY <1>8 DEF DisableInterception, TypeOK
    <2>5. QED
      BY <2>1, <2>3, <2>4, CounterStep
  <1>9. ASSUME NEW t \in Threads, EnableInterception(t)
        PROVE  CounterInv'
    <2>1. Counted(stack[t], flag[t], off[t]) /\ Nested(stack[t])
      BY CounterPerThread
    <2>2. off[t] \in Nat \ {0} /\ flag[t] \in Int
      BY <1>9, EnableUndoes
    <2>3. Counted(stack[t], flag[t] - 1, off[t] - 1)
      BY <2>1, <2>2 DEF Counted
    <2>4. /\ stack' = [stack EXCEPT ![t] = stack[t]]
          /\ flag' = [flag EXCEPT ![t] = flag[t] - 1]
          /\ off' = [off EXCEPT ![t] = off[t] - 1]
      BY <1>9 DEF EnableInterception, TypeOK
    <2>5. QED
      BY <2>1, <2>3, <2>4, CounterStep
  <1>10. ASSUME NEW t \in Threads, Dies(t)
         PROVE  CounterInv'
    BY <1>10, SameCounters DEF Dies, NoMemoryForRAS, LoseTheWay, NoOriginal, Die, threadVars
  <1>11. ASSUME NEW f \in Functions, NEW reentrant \in BOOLEAN, Redirect(f, reentrant)
         PROVE  CounterInv'
    BY <1>11, SameCounters DEF Redirect, threadVars
  <1>12. CASE Register
    BY <1>12, SameCounters DEF Register, threadVars
  <1>13. CASE UNCHANGED vars
    BY <1>13, SameCounters DEF vars
  <1>14. ASSUME NEW t \in Threads, NEW f \in Functions,
                LookCallerUp(t, f) \/ StoreCaller(t, f)
         PROVE  CounterInv'
    BY <1>14, SameCounters DEF LookCallerUp, StoreCaller, threadVars
  <1>15. ASSUME NEW t \in Threads, NEW k \in HeapWords, WriteHeap(t, k)
         PROVE  CounterInv'
    BY <1>15, SameCounters DEF WriteHeap
  <1>16. QED
    BY <1>1, <1>2, <1>3, <1>4, <1>5, <1>6, <1>7, <1>8, <1>9, <1>10, <1>11,
       <1>12, <1>13, <1>14, <1>15
    DEF Next, AUTStep, ThreadStep, ServerStep, Dies

(* If no replacement calls its original while it holds a disable, the        *)
(* counter always equals the thread's disables plus one in replacement code. *)
THEOREM CounterCorrect ==
  ASSUME SpanningDisables = FALSE
  PROVE  Spec => []CounterMatchesContext
  <1>1. TypeOK /\ CounterInv /\ [Next]_vars => CounterInv'
    BY CounterInvStep
  <1>2. CounterInv => CounterMatchesContext
    BY DEF CounterInv
  <1>3. QED
    BY <1>1, <1>2, CounterInvInit, TypeCorrect, PTL DEF Spec

(* Under the same assumption replacement code never runs observed. *)
THEOREM Shielded ==
  ASSUME SpanningDisables = FALSE
  PROVE  Spec => []ReplacementIsShielded
  <1>1. TypeOK /\ CounterMatchesContext => ReplacementIsShielded
    <2> SUFFICES ASSUME TypeOK, CounterMatchesContext, NEW t \in Threads,
                        InReplacement(stack[t])
                 PROVE  flag[t] # 0
      BY DEF ReplacementIsShielded
    <2>1. off[t] \in Nat /\ flag[t] = off[t] + 1
      BY DEF TypeOK, CounterMatchesContext
    <2>2. QED
      BY <2>1
  <1>2. QED
    BY <1>1, TypeCorrect, CounterCorrect, PTL

(* A replacement is re-entered only through a caller stub. *)
THEOREM Reentrance ==
  ASSUME SpanningDisables = FALSE
  PROVE  Spec => []ProtectedReentrance
  <1>1. TypeOK /\ CounterInv => ProtectedReentrance
    <2> SUFFICES ASSUME TypeOK, CounterInv, NEW t \in Threads,
                        NEW i \in 1..Len(stack[t]), NEW k \in 1..Len(stack[t]),
                        i < k,
                        stack[t][i].via = "replacement",
                        stack[t][k].via = "replacement"
                 PROVE  \E j \in (i + 1)..(k - 1) : stack[t][j].via = "original"
      BY DEF ProtectedReentrance
    <2> DEFINE s == stack[t]
    <2>1. s \in Seq(Frame) /\ Len(s) \in Nat /\ Nested(s)
      BY LenProperties DEF TypeOK, CounterInv
    <2> HIDE DEF s
    <2>2. /\ i \in 1..(k - 1) /\ k \in 1..(Len(s) + 1) /\ k \in 1..Len(s)
          /\ s[i].via = "replacement" /\ s[k].via = "replacement"
      BY <2>1 DEF s
    <2>3. Stub(s[i])
      BY <2>2 DEF Stub
    <2>4. PICK m \in 1..(k - 1) : InnermostBelow(s, m, k)
      BY <2>1, <2>2, <2>3 DEF Nested
    <2>5. ~ReplBelow(s, k)
      BY <2>1, <2>2 DEF Nested
    <2>6. s[m].via # "replacement" /\ s[m].via # "direct"
      BY <2>4, <2>5 DEF ReplBelow, InnermostBelow, Stub
    <2>7. s[m] \in Frame
      BY <2>1, <2>2, <2>4, ElementOfSeq
    <2>8. s[m].via = "original"
      BY <2>6, <2>7 DEF Frame
    <2>9. ~(m < i)
      BY <2>2, <2>3, <2>4 DEF InnermostBelow
    <2>10. m # i
      BY <2>2, <2>6
    <2>11. QED
      BY <2>2, <2>4, <2>8, <2>9, <2>10 DEF s
  <1>2. TypeOK /\ CounterInv /\ [Next]_vars => CounterInv'
    BY CounterInvStep
  <1>3. QED
    BY <1>1, <1>2, CounterInvInit, TypeCorrect, PTL DEF Spec

-----------------------------------------------------------------------------
(* The stubs implement plain calls and returns. *)

Callers(s) == [i \in 1..Len(s) |-> s[i].ret]

(* Pushing a frame appends its return site to the callers. *)
LEMMA CallersPush ==
  ASSUME NEW s \in Seq(Frame), NEW f \in Frame
  PROVE  Callers(Append(s, f)) = Append(Callers(s), f.ret)
  <1>1. /\ Len(s) \in Nat
        /\ Len(Append(s, f)) = Len(s) + 1
        /\ \A i \in 1..Len(s) : Append(s, f)[i] = s[i]
        /\ Append(s, f)[Len(s) + 1] = f
    BY PushedSeq, LenProperties
  <1>2. \A i \in 1..Len(s) : s[i].ret \in Sites
    <2>1. \A i \in 1..Len(s) : s[i] \in Frame
      BY ElementOfSeq
    <2>2. QED
      BY <2>1 DEF Frame
  <1>3. Callers(s) \in Seq(Sites) /\ Len(Callers(s)) = Len(s)
    BY <1>1, <1>2, IsASeq DEF Callers
  <1>4. f.ret \in Sites
    BY DEF Frame
  <1>5. /\ Append(Callers(s), f.ret) \in Seq(Sites)
        /\ Len(Append(Callers(s), f.ret)) = Len(s) + 1
        /\ \A i \in 1..Len(s) : Append(Callers(s), f.ret)[i] = Callers(s)[i]
        /\ Append(Callers(s), f.ret)[Len(s) + 1] = f.ret
    BY <1>3, <1>4, AppendProperties
  <1>6. \A i \in 1..Len(Append(s, f)) : Append(s, f)[i].ret \in Sites
    BY <1>1, <1>2, <1>4
  <1>7. /\ Callers(Append(s, f)) \in Seq(Sites)
        /\ Len(Callers(Append(s, f))) = Len(s) + 1
    BY <1>1, <1>6, IsASeq DEF Callers
  <1>8. \A i \in 1..(Len(s) + 1) :
          Callers(Append(s, f))[i] = Append(Callers(s), f.ret)[i]
    BY <1>1, <1>5 DEF Callers
  <1>9. QED
    BY <1>5, <1>7, <1>8, SeqEqual

(* Popping a frame drops the last caller. *)
LEMMA CallersPop ==
  ASSUME NEW s \in Seq(Frame), s # <<>>
  PROVE  /\ Callers(s) # <<>>
         /\ Callers(s)[Len(Callers(s))] = s[Len(s)].ret
         /\ Callers(SubSeq(s, 1, Len(s) - 1)) =
              SubSeq(Callers(s), 1, Len(Callers(s)) - 1)
  <1> DEFINE u == SubSeq(s, 1, Len(s) - 1)
             c == Callers(s)
             d == SubSeq(c, 1, Len(c) - 1)
  <1>1. /\ Len(s) \in Nat \ {0}
        /\ u \in Seq(Frame)
        /\ Len(u) = Len(s) - 1
        /\ \A i \in 1..(Len(s) - 1) : u[i] = s[i]
    BY PoppedSeq
  <1>2. \A i \in 1..Len(s) : s[i].ret \in Sites
    <2>1. \A i \in 1..Len(s) : s[i] \in Frame
      BY ElementOfSeq
    <2>2. QED
      BY <2>1 DEF Frame
  <1>3. c \in Seq(Sites) /\ Len(c) = Len(s)
    BY <1>1, <1>2, IsASeq DEF Callers
  <1>4. c # <<>>
    BY <1>1, <1>3
  <1>5. /\ d \in Seq(Sites)
        /\ Len(d) = Len(s) - 1
        /\ \A i \in 1..(Len(s) - 1) : d[i] = c[i]
    BY <1>3, <1>4, PoppedSeq
  <1>6. \A i \in 1..(Len(s) - 1) : u[i].ret \in Sites
    BY <1>1, <1>2
  <1>7. Callers(u) \in Seq(Sites) /\ Len(Callers(u)) = Len(s) - 1
    BY <1>1, <1>6, IsASeq DEF Callers
  <1>8. \A i \in 1..(Len(s) - 1) : Callers(u)[i] = d[i]
    BY <1>1, <1>5 DEF Callers
  <1>9. Callers(u) = d
    BY <1>5, <1>7, <1>8, SeqEqual
  <1>10. c[Len(c)] = s[Len(s)].ret
    BY <1>1, <1>3 DEF Callers
  <1>11. QED
    BY <1>4, <1>9, <1>10

CallersOf == [t \in Threads |-> Callers(stack[t])]

(* A pushed frame is a call, as seen from the call sites. *)
LEMMA CallStep ==
  ASSUME TypeOK, NEW t \in Threads,
         NEW v \in {"direct", "replacement", "original"},
         NEW f \in Functions, NEW s \in Sites,
         Push(t, v, f, s), UNCHANGED resumed
  PROVE  CR!Next
  <1> DEFINE fr == [via |-> v, fn |-> f, ret |-> s, off |-> off[t]]
  <1>1. stack[t] \in Seq(Frame) /\ fr \in Frame /\ fr.ret = s
    BY DEF TypeOK, Frame
  <1>2. stack' = [stack EXCEPT ![t] = Append(stack[t], fr)]
    BY DEF Push, TypeOK
  <1>3. Callers(Append(stack[t], fr)) = Append(Callers(stack[t]), s)
    BY <1>1, CallersPush
  <1> HIDE DEF fr
  <1>4. CallersOf' = [CallersOf EXCEPT ![t] = Append(Callers(stack[t]), s)]
    BY <1>2, <1>3 DEF CallersOf, TypeOK
  <1>5. CR!Call(t, s)
    BY <1>4 DEF CR!Call, CallersOf, Callers
  <1>6. QED
    BY <1>5 DEF CR!Next

(* A popped frame is a return, if it goes where the frame says. *)
LEMMA ReturnStep ==
  ASSUME TypeOK, NEW t \in Threads, stack[t] # <<>>, Pop(t),
         resumed' = [resumed EXCEPT ![t] = Top(t).ret]
  PROVE  CR!Next
  <1> DEFINE u == SubSeq(stack[t], 1, Len(stack[t]) - 1)
             c == Callers(stack[t])
  <1>1. stack[t] \in Seq(Frame)
    BY DEF TypeOK
  <1>2. stack' = [stack EXCEPT ![t] = u]
    BY DEF Pop, TypeOK
  <1>3. /\ c # <<>>
        /\ c[Len(c)] = Top(t).ret
        /\ Callers(u) = SubSeq(c, 1, Len(c) - 1)
    BY <1>1, CallersPop DEF Top
  <1> HIDE DEF u, c
  <1>4. CallersOf' = [CallersOf EXCEPT ![t] = SubSeq(c, 1, Len(c) - 1)]
    BY <1>2, <1>3 DEF CallersOf, TypeOK
  <1>5. CR!Return(t)
    BY <1>3, <1>4 DEF CR!Return, CallersOf, Callers, c
  <1>6. QED
    BY <1>5 DEF CR!Next

(* Every step of the stubs is a call, a return or invisible.  The counter    *)
(* invariant is not needed: whatever the threads disable, control never      *)
(* goes astray.                                                              *)
LEMMA TransparentStep ==
  ASSUME RASInv, [Next]_vars
  PROVE  [CR!Next]_(CR!vars)
  <1>0. TypeOK
    BY DEF RASInv
  <1>1. ASSUME NEW t \in Threads, NEW f \in Functions, NEW s \in Sites,
               CallDirect(t, f, s) \/ CallReplacement(t, f, s)
        PROVE  CR!Next
    BY <1>0, <1>1, CallStep DEF CallDirect, CallReplacement
  <1>2. ASSUME NEW t \in Threads, NEW f \in Functions, NEW s \in Sites,
               CallOriginalReentrant(t, f, s) \/ CallOriginalPlain(t, f, s)
        PROVE  CR!Next
    <2>1. intercepts[caller[f]].fn \in Functions
      BY <1>0, <1>2, CallerType DEF CallOriginalReentrant, CallOriginalPlain
    <2>2. QED
      BY <1>0, <1>2, <2>1, CallStep DEF CallOriginalReentrant, CallOriginalPlain
  <1>3. ASSUME NEW t \in Threads, ReturnDirect(t)
        PROVE  CR!Next
    BY <1>0, <1>3, ReturnStep DEF ReturnDirect, Returning
  <1>4. ASSUME NEW t \in Threads, ReturnFromReplacement(t)
        PROVE  CR!Next
    <2>1. Returning(t, "replacement") /\ ReturnThroughRAS(t)
      BY <1>4 DEF ReturnFromReplacement
    <2>2. resumed' = [resumed EXCEPT ![t] = Top(t).ret]
      BY <2>1, StubReturn
    <2>3. QED
      BY <1>0, <2>1, <2>2, ReturnStep DEF Returning
  <1>5. ASSUME NEW t \in Threads, ReturnFromOriginal(t)
        PROVE  CR!Next
    <2>1. Returning(t, "original") /\ ReturnThroughRAS(t)
      BY <1>5 DEF ReturnFromOriginal
    <2>2. resumed' = [resumed EXCEPT ![t] = Top(t).ret]
      BY <2>1, StubReturn
    <2>3. QED
      BY <1>0, <2>1, <2>2, ReturnStep DEF Returning
  <1>6. ASSUME UNCHANGED <<stack, resumed>>
        PROVE  UNCHANGED CR!vars
    BY <1>6 DEF CR!vars
  <1>7. ASSUME NEW t \in Threads,
               DisableInterception(t) \/ EnableInterception(t)
        PROVE  UNCHANGED <<stack, resumed>>
    BY <1>7 DEF DisableInterception, EnableInterception
  <1>8. ASSUME NEW t \in Threads, Dies(t)
        PROVE  UNCHANGED <<stack, resumed>>
    BY <1>8 DEF Dies, NoMemoryForRAS, LoseTheWay, NoOriginal, Die, threadVars
  <1>9. ASSUME NEW f \in Functions, NEW reentrant \in BOOLEAN, Redirect(f, reentrant)
        PROVE  UNCHANGED <<stack, resumed>>
    BY <1>9 DEF Redirect, threadVars
  <1>10. CASE Register
    BY <1>6, <1>10 DEF Register, threadVars
  <1>11. CASE UNCHANGED vars
    BY <1>6, <1>11 DEF vars
  <1>12. ASSUME NEW t \in Threads, NEW f \in Functions,
                LookCallerUp(t, f) \/ StoreCaller(t, f)
         PROVE  UNCHANGED <<stack, resumed>>
    BY <1>12 DEF LookCallerUp, StoreCaller, threadVars
  <1>13. ASSUME NEW t \in Threads, NEW k \in HeapWords, WriteHeap(t, k)
         PROVE  UNCHANGED <<stack, resumed>>
    BY <1>13 DEF WriteHeap
  <1>14. QED
    BY <1>1, <1>2, <1>3, <1>4, <1>5, <1>6, <1>7, <1>8, <1>9, <1>10, <1>11,
       <1>12, <1>13
    DEF Next, AUTStep, ThreadStep, ServerStep, Dies

(* Interception is transparent: every intercepted run is a run of plain      *)
(* calls and returns.                                                        *)
THEOREM Transparency == Spec => Transparent
  <1>1. Init => CR!Init
    <2> SUFFICES ASSUME Init PROVE CR!Init
      OBVIOUS
    <2>1. \A t \in Threads : [i \in 1..Len(stack[t]) |-> stack[t][i].ret] = <<>>
      BY DEF Init
    <2>2. QED
      BY <2>1 DEF Init, CR!Init
  <1>2. RASInv /\ [Next]_vars => [CR!Next]_(CR!vars)
    BY TransparentStep
  <1>3. QED
    BY <1>1, <1>2, RASInvariant, PTL DEF Spec, Transparent, CR!Spec
-----------------------------------------------------------------------------
(* How far the page of the RAS carries. *)

(* A word behind the page that changes to an address has just been pushed,   *)
(* by a thread with more pending stubs than the page has slots.              *)
LEMMA PushedPastPage ==
  ASSUME RASInv, [Next]_vars, NEW t \in Threads, NEW k \in HeapWords,
         k >= RASSlots, slot'[t][k] # slot[t][k], slot'[t][k] # NoSite
  PROVE  Overrun(t)'
  <1>1. RASInv'
    BY RASInvStep
  <1>2. \E x \in Threads, s \in Sites : PushRA(x, s)
    <2>1. slot' # slot
      OBVIOUS
    <2>2. ASSUME NEW x \in Threads, NEW j \in HeapWords, WriteHeap(x, j)
          PROVE  FALSE
      <3>1. slot \in [Threads -> RASHeap]
        BY DEF RASInv, TypeOK, RASHeap
      <3>2. slot' = [slot EXCEPT ![x][j] = NoSite]
        BY <2>2 DEF WriteHeap
      <3>3. QED
        BY <3>1, <3>2 DEF RASHeap
    <2>3. ASSUME NEW x \in Threads, NEW f \in Functions, NEW s \in Sites,
                 \/ CallDirect(x, f, s) \/ CallReplacement(x, f, s)
                 \/ CallOriginalReentrant(x, f, s) \/ CallOriginalPlain(x, f, s)
          PROVE  PushRA(x, s)
      BY <2>1, <2>3 DEF CallDirect, CallReplacement, CallOriginalReentrant,
         CallOriginalPlain
    <2>4. ASSUME NEW x \in Threads, NEW f \in Functions,
                 LookCallerUp(x, f) \/ StoreCaller(x, f)
          PROVE  FALSE
      BY <2>1, <2>4 DEF LookCallerUp, StoreCaller, threadVars
    <2>5. ASSUME NEW x \in Threads, Dies(x)
          PROVE  FALSE
      BY <2>1, <2>5 DEF Dies, NoMemoryForRAS, LoseTheWay, NoOriginal, Die, threadVars
    <2>6. ASSUME NEW x \in Threads,
                 \/ ReturnDirect(x) \/ ReturnFromReplacement(x) \/ ReturnFromOriginal(x)
                 \/ DisableInterception(x) \/ EnableInterception(x)
          PROVE  FALSE
      BY <2>1, <2>6 DEF ReturnDirect, ReturnFromReplacement, ReturnFromOriginal,
         ReturnThroughRAS, DisableInterception, EnableInterception
    <2>7. ASSUME \/ \E f \in Functions, reentrant \in BOOLEAN : Redirect(f, reentrant)
                 \/ Register \/ UNCHANGED vars
          PROVE  FALSE
      BY <2>1, <2>7 DEF Redirect, Register, vars, threadVars
    <2>8. QED
      BY <2>2, <2>3, <2>4, <2>5, <2>6, <2>7
      DEF Next, AUTStep, ThreadStep, ServerStep, Dies
  <1>3. PICK x \in Threads, s \in Sites : PushRA(x, s)
    BY <1>2
  <1>4. /\ slot \in [Threads -> RASHeap] /\ rasPtr \in [Threads -> Tops]
        /\ slot' = [slot EXCEPT ![x][RASIndex(x)] = s]
        /\ rasPtr' = [rasPtr EXCEPT ![x] = RASIndex(x) + 1]
    BY <1>3 DEF RASInv, TypeOK, RASHeap, Tops, PushRA
  <1>5. x = t /\ k = RASIndex(t)
    BY <1>4 DEF RASHeap
  <1>6. rasPtr'[t] = k + 1
    BY <1>4, <1>5
  <1>7. k \in Nat
    BY ConstAssumption DEF HeapWords
  <1>8. IndexOf(rasPtr'[t]) = k + 1
    BY <1>6, <1>7 DEF IndexOf, NoRAS
  <1>9. IndexOf(rasPtr'[t]) = Cardinality(StubFrames(stack'[t]))
    BY <1>1 DEF RASInv, RASMirrorsStubs, RASIndex, IndexOf
  <1>10. QED
    BY <1>7, <1>8, <1>9, ConstAssumption DEF Overrun

(* A thread that returns to foreign data had pushed past its page. *)
LEMMA LostPastPage ==
  ASSUME RASInv, NEW t \in Threads, LoseTheWay(t)
  PROVE  Overrun(t)
  <1>1. /\ stack[t] \in Seq(Frame) /\ stack[t] # <<>>
        /\ Stub(stack[t][Len(stack[t])])
        /\ rasPtr[t] \in Tops
        /\ slot[t][rasPtr[t] - 1] = NoSite
        /\ Mirror(stack[t], rasPtr[t], slot[t])
    BY MirrorPerThread DEF RASInv, TypeOK, Tops, LoseTheWay, TopLost, Top
  <1>2. /\ rasPtr[t] \in Nat /\ rasPtr[t] = Cardinality(StubFrames(stack[t]))
        /\ Holds(slot[t], rasPtr[t] - 1, stack[t][Len(stack[t])].ret)
    BY <1>1, MirrorPopStub
  <1>3. stack[t][Len(stack[t])].ret # NoSite
    BY <1>1, TopType, ConstAssumption DEF RASInv, Top
  <1>4. rasPtr[t] - 1 >= RASSlots
    BY <1>1, <1>2, <1>3 DEF Holds
  <1>5. QED
    BY <1>2, <1>4, ConstAssumption DEF Overrun

(* No other step of a thread is a wild return. *)
LEMMA OnlyLost ==
  ASSUME NEW t \in Threads, ThreadStep(t), crash' # crash, crash' = "wild return"
  PROVE  LoseTheWay(t)
  <1>1. ASSUME NEW f \in Functions, NEW s \in Sites,
               \/ CallDirect(t, f, s) \/ CallReplacement(t, f, s)
               \/ CallOriginalReentrant(t, f, s) \/ CallOriginalPlain(t, f, s)
        PROVE  crash' = crash
    BY <1>1 DEF CallDirect, CallReplacement, CallOriginalReentrant, CallOriginalPlain
  <1>2. ASSUME NEW f \in Functions, LookCallerUp(t, f) \/ NoOriginal(t, f)
        PROVE  crash' = crash \/ crash' = "no intercept"
    BY <1>2 DEF LookCallerUp, NoOriginal, Die
  <1>3. ASSUME \/ ReturnDirect(t) \/ ReturnFromReplacement(t) \/ ReturnFromOriginal(t)
               \/ DisableInterception(t) \/ EnableInterception(t)
        PROVE  crash' = crash
    BY <1>3 DEF ReturnDirect, ReturnFromReplacement, ReturnFromOriginal,
       DisableInterception, EnableInterception
  <1>4. NoMemoryForRAS(t) => crash' = "null RAS"
    BY DEF NoMemoryForRAS, Die
  <1>5. QED
    BY <1>1, <1>2, <1>3, <1>4 DEF ThreadStep

(* However the threads call and whoever writes the heap, the missing bounds  *)
(* check of writePushRAtoRAS does harm only to an AUT that nests more stubs  *)
(* than the page has slots.                                                  *)
THEOREM Harmless == Spec => PageSuffices
  <1> DEFINE Suffices ==
        /\ \A t \in Threads, k \in HeapWords :
             (k >= RASSlots /\ slot'[t][k] # slot[t][k] /\ slot'[t][k] # NoSite)
             => Overrun(t)'
        /\ crash' # crash /\ crash' = "wild return" => \E t \in Threads : Overrun(t)
  <1>1. RASInv /\ [Next]_vars => Suffices
    <2> SUFFICES ASSUME RASInv, [Next]_vars
                 PROVE  Suffices
      OBVIOUS
    <2>1. ASSUME crash' # crash, crash' = "wild return"
          PROVE  \E t \in Threads : Overrun(t)
      <3>1. PICK t \in Threads : AUTStep(t)
        BY <2>1 DEF Next, ServerStep, Redirect, Register, vars
      <3>2. ThreadStep(t)
        BY <2>1, <3>1 DEF AUTStep, StoreCaller, WriteHeap
      <3>3. LoseTheWay(t)
        BY <2>1, <3>2, OnlyLost
      <3>4. QED
        BY <3>3, LostPastPage
    <2>2. QED
      BY <2>1, PushedPastPage
  <1>2. QED
    BY <1>1, RASInvariant, PTL DEF Spec, PageSuffices

-----------------------------------------------------------------------------
(* Which original a caller stub runs.  The invariant is about the pointers   *)
(* on their way: what a static holds, what a thread is about to store, and   *)
(* what the stub frames were entered through.                                *)

StaticsOwn ==
  /\ \A f \in Functions : caller[f] # NoCaller => OwnOrEarlier(caller[f], f)
  /\ \A t \in Threads, f \in Functions :
       looked[t] # NoCaller /\ Replaces(t, f) => OwnOrEarlier(looked[t], f)

OwnFrame(s, i, k) ==
  (/\ Encloses(s, i, k)
   /\ s[i].via = "replacement"
   /\ s[k].via = "original")
  => \E n \in 1..Len(intercepts) :
       /\ s[k].fn = intercepts[n].fn
       /\ OwnOrEarlier(n, s[i].fn)

OwnStack(s) == \A i, k \in 1..Len(s) : OwnFrame(s, i, k)

OwnInv == StaticsOwn /\ OwnOriginal

(* A thread runs the replacement of one function at a time: the innermost    *)
(* stub frame is unique.                                                     *)
LEMMA ReplacesOne ==
  ASSUME TypeOK, NEW t \in Threads, NEW f, NEW g, Replaces(t, f), Replaces(t, g)
  PROVE  f = g
  <1>1. stack[t] \in Seq(Frame) /\ Len(stack[t]) \in Nat
    BY LenProperties DEF TypeOK
  <1>2. PICK i \in 1..Len(stack[t]) : InnermostStub(stack[t], i) /\ stack[t][i].fn = f
    BY DEF Replaces
  <1>3. PICK j \in 1..Len(stack[t]) : InnermostStub(stack[t], j) /\ stack[t][j].fn = g
    BY DEF Replaces
  <1>4. ~(i < j)
    BY <1>1, <1>2, <1>3 DEF InnermostStub
  <1>5. ~(j < i)
    BY <1>1, <1>2, <1>3 DEF InnermostStub
  <1>6. i = j
    BY <1>1, <1>4, <1>5
  <1>7. QED
    BY <1>2, <1>3, <1>6

(* An intercept that is recorded later changes nothing for the earlier ones. *)
LEMMA OwnStable ==
  ASSUME TypeOK, Register
  PROVE  /\ Len(intercepts) \in Nat /\ Len(intercepts') = Len(intercepts) + 1
         /\ \A n \in 1..Len(intercepts) : intercepts'[n] = intercepts[n]
         /\ \A n \in 1..Len(intercepts), f \in Functions :
               OwnOrEarlier(n, f) => OwnOrEarlier(n, f)'
  <1>1. /\ intercepts \in Seq(Install) /\ installing \in Install
        /\ intercepts' = Append(intercepts, installing)
    BY DEF TypeOK, Register
  <1>2. /\ Len(intercepts) \in Nat /\ Len(intercepts') = Len(intercepts) + 1
        /\ \A n \in 1..Len(intercepts) : intercepts'[n] = intercepts[n]
    BY <1>1, AppendProperties, LenProperties
  <1>3. QED
    BY <1>2 DEF OwnOrEarlier

(* The frame that a call pushes is right, and the earlier ones stay right. *)
LEMMA OwnPush ==
  ASSUME TypeOK, NEW t \in Threads, OwnStack(stack[t]), NEW fr \in Frame,
         fr.via = "original" =>
           \A f \in Functions : Replaces(t, f) =>
             \E n \in 1..Len(intercepts) : fr.fn = intercepts[n].fn /\ OwnOrEarlier(n, f)
  PROVE  OwnStack(Append(stack[t], fr))
  <1> DEFINE s == stack[t]
             u == Append(s, fr)
  <1>1. s \in Seq(Frame) /\ Len(s) \in Nat
    BY LenProperties DEF TypeOK
  <1>2. /\ Len(u) = Len(s) + 1
        /\ \A i \in 1..Len(s) : u[i] = s[i]
        /\ u[Len(s) + 1] = fr
    BY <1>1, PushedSeq
  <1> HIDE DEF u
  <1>3. ASSUME NEW i \in 1..Len(u), NEW k \in 1..Len(u), Encloses(u, i, k),
               u[i].via = "replacement", u[k].via = "original"
        PROVE  \E n \in 1..Len(intercepts) :
                 u[k].fn = intercepts[n].fn /\ OwnOrEarlier(n, u[i].fn)
    <2>1. i \in 1..Len(s) /\ i < k /\ u[i] = s[i]
      BY <1>1, <1>2, <1>3 DEF Encloses
    <2>2. CASE k \in 1..Len(s)
      <3>1. \A j \in (i + 1)..(k - 1) : u[j] = s[j]
        BY <1>1, <1>2, <2>1, <2>2
      <3>2. Encloses(s, i, k) /\ u[k] = s[k]
        BY <1>2, <1>3, <2>1, <2>2, <3>1 DEF Encloses
      <3>3. QED
        BY <1>3, <2>1, <2>2, <3>2 DEF OwnStack, OwnFrame
    <2>3. CASE k = Len(s) + 1
      <3>1. \A j \in (i + 1)..Len(s) : u[j] = s[j]
        BY <1>1, <1>2, <2>1
      <3>2. InnermostStub(s, i)
        BY <1>1, <1>3, <2>1, <2>3, <3>1 DEF Encloses, InnermostStub
      <3>3. s[i] \in Frame
        BY <1>1, <2>1, ElementOfSeq
      <3>4. s[i].fn \in Functions /\ Replaces(t, s[i].fn)
        BY <1>3, <2>1, <3>2, <3>3 DEF Frame, Replaces
      <3>5. QED
        BY <1>2, <1>3, <2>1, <2>3, <3>4
    <2>4. QED
      BY <1>1, <1>2, <2>2, <2>3
  <1>4. QED
    BY <1>3 DEF OwnStack, OwnFrame, u

(* A return leaves the earlier frames right. *)
LEMMA OwnPop ==
  ASSUME NEW s \in Seq(Frame), s # <<>>, OwnStack(s)
  PROVE  OwnStack(SubSeq(s, 1, Len(s) - 1))
  <1> DEFINE u == SubSeq(s, 1, Len(s) - 1)
  <1>1. /\ Len(s) \in Nat \ {0} /\ Len(u) = Len(s) - 1
        /\ \A i \in 1..(Len(s) - 1) : u[i] = s[i]
    BY PoppedSeq
  <1> HIDE DEF u
  <1>2. ASSUME NEW i \in 1..Len(u), NEW k \in 1..Len(u), Encloses(u, i, k)
        PROVE  Encloses(s, i, k) /\ u[i] = s[i] /\ u[k] = s[k]
    <2>1. u[i] = s[i] /\ u[k] = s[k] /\ \A j \in (i + 1)..(k - 1) : u[j] = s[j]
      BY <1>1
    <2>2. QED
      BY <1>2, <2>1 DEF Encloses
  <1>3. ASSUME NEW i \in 1..Len(u), NEW k \in 1..Len(u)
        PROVE  OwnFrame(u, i, k)
    <2>1. OwnFrame(s, i, k)
      BY <1>1 DEF OwnStack
    <2>2. QED
      BY <1>2, <2>1 DEF OwnFrame
  <1>4. QED
    BY <1>3 DEF OwnStack, u

(* A call keeps the pointers and the frames right. *)
LEMMA OwnCall ==
  ASSUME TypeOK, OwnInv, NEW t \in Threads, NEW v \in {"direct", "replacement", "original"},
         NEW g \in Functions, NEW s \in Sites,
         Push(t, v, g, s), UNCHANGED <<serverVars, callerVars>>, looked[t] = NoCaller,
         v = "original" =>
           \A f \in Functions : Replaces(t, f) =>
             \E n \in 1..Len(intercepts) : g = intercepts[n].fn /\ OwnOrEarlier(n, f)
  PROVE  OwnInv'
  <1> DEFINE fr == [via |-> v, fn |-> g, ret |-> s, off |-> off[t]]
  <1>1. fr \in Frame /\ fr.via = v /\ fr.fn = g
    BY DEF TypeOK, Frame
  <1>2. stack' = [stack EXCEPT ![t] = Append(stack[t], fr)]
    BY DEF Push, TypeOK
  <1>3. OwnStack(Append(stack[t], fr))
    BY <1>1, OwnPush DEF OwnInv, OwnOriginal, OwnStack, OwnFrame
  <1>3a. \A x \in Threads : OwnStack(stack[x])
    BY DEF OwnInv, OwnOriginal, OwnStack, OwnFrame
  <1> HIDE DEF fr
  <1>4. \A x \in Threads : OwnStack(stack'[x])
    BY <1>2, <1>3, <1>3a DEF TypeOK
  <1>5. intercepts' = intercepts /\ caller' = caller /\ looked' = looked
    BY DEF serverVars, callerVars
  <1>6. OwnOriginal'
    <2>1. \A n, f : OwnOrEarlier(n, f)' <=> OwnOrEarlier(n, f)
      BY <1>5 DEF OwnOrEarlier
    <2>2. QED
      BY <1>4, <1>5, <2>1 DEF OwnOriginal, OwnStack, OwnFrame
  <1>7. \A x \in Threads : looked[x] # NoCaller => stack'[x] = stack[x]
    BY <1>2 DEF TypeOK
  <1>8. StaticsOwn'
    BY <1>5, <1>7 DEF OwnInv, StaticsOwn, OwnOrEarlier, Replaces
  <1>9. QED
    BY <1>6, <1>8 DEF OwnInv

(* So does a return. *)
LEMMA OwnReturn ==
  ASSUME TypeOK, OwnInv, NEW t \in Threads, stack[t] # <<>>, Pop(t),
         UNCHANGED <<serverVars, callerVars>>, looked[t] = NoCaller
  PROVE  OwnInv'
  <1> DEFINE u == SubSeq(stack[t], 1, Len(stack[t]) - 1)
  <1>1. stack' = [stack EXCEPT ![t] = u]
    BY DEF Pop, TypeOK
  <1>2. stack[t] \in Seq(Frame) /\ OwnStack(stack[t])
    BY DEF TypeOK, OwnInv, OwnOriginal, OwnStack, OwnFrame
  <1>3. OwnStack(u)
    BY <1>2, OwnPop
  <1>3a. \A x \in Threads : OwnStack(stack[x])
    BY DEF OwnInv, OwnOriginal, OwnStack, OwnFrame
  <1> HIDE DEF u
  <1>4. \A x \in Threads : OwnStack(stack'[x])
    BY <1>1, <1>3, <1>3a DEF TypeOK
  <1>5. intercepts' = intercepts /\ caller' = caller /\ looked' = looked
    BY DEF serverVars, callerVars
  <1>6. OwnOriginal'
    <2>1. \A n, f : OwnOrEarlier(n, f)' <=> OwnOrEarlier(n, f)
      BY <1>5 DEF OwnOrEarlier
    <2>2. QED
      BY <1>4, <1>5, <2>1 DEF OwnOriginal, OwnStack, OwnFrame
  <1>7. \A x \in Threads : looked[x] # NoCaller => stack'[x] = stack[x]
    BY <1>1 DEF TypeOK
  <1>8. StaticsOwn'
    BY <1>5, <1>7 DEF OwnInv, StaticsOwn, OwnOrEarlier, Replaces
  <1>9. QED
    BY <1>6, <1>8 DEF OwnInv

(* Steps that touch neither stacks nor pointers nor the list. *)
LEMMA OwnSame ==
  ASSUME OwnInv, UNCHANGED <<stack, intercepts, caller, looked>>
  PROVE  OwnInv'
  BY DEF OwnInv, StaticsOwn, OwnOriginal, OwnOrEarlier, Replaces

(* Every step keeps the pointers and the frames right. *)
LEMMA OwnInvStep ==
  ASSUME TypeOK, OwnInv, [Next]_vars
  PROVE  OwnInv'
  <1>1. ASSUME NEW t \in Threads, looked[t] = NoCaller, NEW f \in Functions, NEW s \in Sites,
               CallDirect(t, f, s) \/ CallReplacement(t, f, s)
        PROVE  OwnInv'
    BY <1>1, OwnCall DEF CallDirect, CallReplacement
  <1>2. ASSUME NEW t \in Threads, looked[t] = NoCaller, NEW f \in Functions, NEW s \in Sites,
               CallOriginalReentrant(t, f, s) \/ CallOriginalPlain(t, f, s)
        PROVE  OwnInv'
    <2>1. /\ Replaces(t, f) /\ caller[f] # NoCaller
          /\ \E v \in {"direct", "original"} : Push(t, v, intercepts[caller[f]].fn, s)
          /\ UNCHANGED <<serverVars, callerVars>>
      BY <1>2 DEF CallOriginalReentrant, CallOriginalPlain
    <2>2. /\ caller[f] \in 1..Len(intercepts)
          /\ intercepts[caller[f]].fn \in Functions
          /\ OwnOrEarlier(caller[f], f)
      BY <2>1, CallerType DEF OwnInv, StaticsOwn
    <2>3. ASSUME NEW g \in Functions, Replaces(t, g)
          PROVE  \E n \in 1..Len(intercepts) :
                   /\ intercepts[caller[f]].fn = intercepts[n].fn
                   /\ OwnOrEarlier(n, g)
      BY <2>1, <2>2, <2>3, ReplacesOne
    <2>4. QED
      BY <1>2, <2>1, <2>2, <2>3, OwnCall
  <1>3. ASSUME NEW t \in Threads, looked[t] = NoCaller,
               ReturnDirect(t) \/ ReturnFromReplacement(t) \/ ReturnFromOriginal(t)
        PROVE  OwnInv'
    BY <1>3, OwnReturn DEF ReturnDirect, ReturnFromReplacement, ReturnFromOriginal, Returning
  <1>4. ASSUME NEW t \in Threads,
               DisableInterception(t) \/ EnableInterception(t) \/ Dies(t)
        PROVE  OwnInv'
    BY <1>4, OwnSame DEF DisableInterception, EnableInterception, Dies, NoMemoryForRAS,
       LoseTheWay, NoOriginal, Die, threadVars, serverVars, callerVars
  <1>5. ASSUME NEW t \in Threads, NEW f \in Functions, LookCallerUp(t, f)
        PROVE  OwnInv'
    <2>1. OwnOrEarlier(Lookup(f), f)
      BY <1>5, LookupFinds DEF LookCallerUp, TypeOK
    <2>2. /\ stack' = stack /\ intercepts' = intercepts /\ caller' = caller
          /\ looked' = [looked EXCEPT ![t] = Lookup(f)]
      BY <1>5 DEF LookCallerUp, threadVars, serverVars
    <2>3. ASSUME NEW x \in Threads, NEW g \in Functions,
                 looked'[x] # NoCaller, Replaces(x, g)
          PROVE  OwnOrEarlier(looked'[x], g)
      <3>1. CASE x = t
        <4>1. g = f
          BY <1>5, <2>3, <3>1, ReplacesOne DEF LookCallerUp
        <4>2. QED
          BY <2>1, <2>2, <3>1, <4>1 DEF TypeOK
      <3>2. CASE x # t
        <4>1. looked'[x] = looked[x]
          BY <2>2, <3>2 DEF TypeOK
        <4>2. QED
          BY <2>3, <4>1 DEF OwnInv, StaticsOwn
      <3>3. QED
        BY <3>1, <3>2
    <2>4. QED
      BY <2>2, <2>3 DEF OwnInv, StaticsOwn, OwnOriginal, OwnOrEarlier, Replaces
  <1>6. ASSUME NEW t \in Threads, looked[t] # NoCaller, NEW f \in Functions,
               StoreCaller(t, f)
        PROVE  OwnInv'
    <2>1. OwnOrEarlier(looked[t], f)
      BY <1>6 DEF StoreCaller, OwnInv, StaticsOwn
    <2>2. /\ stack' = stack /\ intercepts' = intercepts
          /\ caller' = [caller EXCEPT ![f] = looked[t]]
          /\ looked' = [looked EXCEPT ![t] = NoCaller]
      BY <1>6 DEF StoreCaller, threadVars, serverVars
    <2>3. \A g \in Functions : caller'[g] # NoCaller => OwnOrEarlier(caller'[g], g)
      BY <2>1, <2>2 DEF OwnInv, StaticsOwn, TypeOK
    <2>4. \A x \in Threads : looked'[x] # NoCaller => looked'[x] = looked[x]
      BY <2>2 DEF TypeOK
    <2>5. \A n, g : OwnOrEarlier(n, g)' <=> OwnOrEarlier(n, g)
      BY <2>2 DEF OwnOrEarlier
    <2>6. StaticsOwn'
      <3>1. \A x \in Threads, g \in Functions : Replaces(x, g)' <=> Replaces(x, g)
        BY <2>2 DEF Replaces
      <3>2. QED
        BY <2>3, <2>4, <2>5, <3>1 DEF OwnInv, StaticsOwn
    <2>7. OwnOriginal'
      BY <2>2, <2>5 DEF OwnInv, OwnOriginal
    <2>8. QED
      BY <2>6, <2>7 DEF OwnInv
  <1>7. ASSUME NEW t \in Threads, NEW k \in HeapWords, WriteHeap(t, k)
        PROVE  OwnInv'
    BY <1>7, OwnSame DEF WriteHeap, serverVars, callerVars
  <1>8. ASSUME NEW f \in Functions, NEW reentrant \in BOOLEAN, Redirect(f, reentrant)
        PROVE  OwnInv'
    BY <1>8, OwnSame DEF Redirect, threadVars, callerVars
  <1>9. CASE Register
    <2>1. stack' = stack /\ caller' = caller /\ looked' = looked
      BY <1>9 DEF Register, threadVars, callerVars
    <2>2. /\ Len(intercepts) \in Nat /\ Len(intercepts') = Len(intercepts) + 1
          /\ \A n \in 1..Len(intercepts) : intercepts'[n] = intercepts[n]
          /\ \A n \in 1..Len(intercepts), f \in Functions :
               OwnOrEarlier(n, f) => OwnOrEarlier(n, f)'
      BY <1>9, OwnStable
    <2>3. /\ \A f \in Functions : caller[f] # NoCaller => caller[f] \in 1..Len(intercepts)
          /\ \A t \in Threads : looked[t] # NoCaller => looked[t] \in 1..Len(intercepts)
      <3>1. /\ \A f \in Functions : caller[f] \in 0..Len(intercepts)
            /\ \A t \in Threads : looked[t] \in 0..Len(intercepts)
        BY DEF TypeOK
      <3>2. QED
        BY <2>2, <3>1 DEF NoCaller
    <2>4. StaticsOwn'
      <3>1. \A f \in Functions : caller[f] # NoCaller => OwnOrEarlier(caller[f], f)'
        BY <2>1, <2>2, <2>3 DEF OwnInv, StaticsOwn, OwnOrEarlier
      <3>2. \A t \in Threads, f \in Functions :
              looked[t] # NoCaller /\ Replaces(t, f) => OwnOrEarlier(looked[t], f)'
        BY <2>1, <2>2, <2>3 DEF OwnInv, StaticsOwn, OwnOrEarlier
      <3>3. QED
        BY <2>1, <3>1, <3>2 DEF StaticsOwn, Replaces
    <2>5. OwnOriginal'
      <3>1. SUFFICES ASSUME NEW t \in Threads,
                            NEW i \in 1..Len(stack[t]), NEW k \in 1..Len(stack[t]),
                            Encloses(stack[t], i, k),
                            stack[t][i].via = "replacement", stack[t][k].via = "original"
                     PROVE  \E n \in 1..Len(intercepts') :
                              /\ stack[t][k].fn = intercepts'[n].fn
                              /\ OwnOrEarlier(n, stack[t][i].fn)'
        BY <2>1 DEF OwnOriginal
      <3>2. PICK n \in 1..Len(intercepts) :
              /\ stack[t][k].fn = intercepts[n].fn
              /\ OwnOrEarlier(n, stack[t][i].fn)
        BY <3>1 DEF OwnInv, OwnOriginal
      <3>3. n \in 1..Len(intercepts') /\ intercepts'[n] = intercepts[n]
        BY <2>2
      <3>4. OwnOrEarlier(n, stack[t][i].fn)'
        BY <2>1, <2>2, <3>2, <3>3 DEF OwnOrEarlier
      <3>5. QED
        BY <3>2, <3>3, <3>4
    <2>6. QED
      BY <2>4, <2>5 DEF OwnInv
  <1>10. CASE UNCHANGED vars
    BY <1>10, OwnSame DEF vars
  <1>11. ASSUME NEW t \in Threads, looked[t] = NoCaller, ThreadStep(t)
         PROVE  OwnInv'
    <2>1. CASE \E f \in Functions, s \in Sites :
                 \/ CallDirect(t, f, s) \/ CallReplacement(t, f, s)
                 \/ CallOriginalReentrant(t, f, s) \/ CallOriginalPlain(t, f, s)
      BY <1>1, <1>2, <1>11, <2>1
    <2>2. CASE \E f \in Functions : LookCallerUp(t, f) \/ NoOriginal(t, f)
      BY <1>4, <1>5, <2>2 DEF Dies
    <2>3. CASE ReturnDirect(t) \/ ReturnFromReplacement(t) \/ ReturnFromOriginal(t)
      BY <1>3, <1>11, <2>3
    <2>4. CASE \/ DisableInterception(t) \/ EnableInterception(t)
               \/ NoMemoryForRAS(t) \/ LoseTheWay(t)
      BY <1>4, <2>4 DEF Dies
    <2>5. QED
      BY <1>11, <2>1, <2>2, <2>3, <2>4 DEF ThreadStep
  <1>12. ASSUME NEW t \in Threads, AUTStep(t)
         PROVE  OwnInv'
    BY <1>6, <1>7, <1>11, <1>12 DEF AUTStep
  <1>13. CASE ServerStep
    BY <1>8, <1>9, <1>13 DEF ServerStep
  <1>14. QED
    BY <1>10, <1>12, <1>13 DEF Next

(* A caller stub runs the original of the function that is replaced, or of   *)
(* one whose intercept was recorded before: for any number of threads that   *)
(* race for the static, and however much later it is used.                   *)
THEOREM RunsOwnOriginal == Spec => []OwnOriginal
  <1>1. Init => OwnInv
    <2>1. Len(<<>>) = 0
      BY EmptySeq
    <2>2. \A i, k \in 1..0 : FALSE
      OBVIOUS
    <2>3. QED
      BY <2>1, <2>2 DEF Init, OwnInv, StaticsOwn, OwnOriginal
  <1>2. TypeOK /\ OwnInv /\ [Next]_vars => OwnInv'
    BY OwnInvStep
  <1>3. OwnInv => OwnOriginal
    BY DEF OwnInv
  <1>4. QED
    BY <1>1, <1>2, <1>3, TypeCorrect, PTL DEF Spec

-----------------------------------------------------------------------------
(***************************************************************************)
(* HeaderCopy.                                                              *)
(*                                                                          *)
(* The invariant has three parts.  Written: the copy is a strip of pieces,  *)
(* it fits on its page, decoding stays in step with the function, and the   *)
(* last piece jumps back.                                                   *)
(* Faithful: every piece of a regular function's copy stands for what the   *)
(* instruction that it means does.  OnCourse: the processor is at a piece   *)
(* or at what is left of the function, and the flag is lost only where      *)
(* nobody tests it.                                                         *)
(***************************************************************************)

\* What is written: instructions of the processor and what is none.
Pieces == [op : Ops \cup {"bytes", "jmpRet", "callShifted"}, at : Int,
           len : 1..26, disp : Int, means : Int]

\* Pieces written one behind the other from address d on.
Strip(c, d) ==
  /\ c \in Seq(Pieces)
  /\ \A n \in 1..Len(c) :
       /\ c[n].at = IF n = 1 THEN d ELSE c[n - 1].at + c[n - 1].len
       /\ c[n].op \in Short => c[n].disp \in 0..255
       /\ d <= c[n].at
       /\ c[n].at + c[n].len <= c[Len(c)].at + c[Len(c)].len
       /\ \A m \in 1..(n - 1) : c[m].at + c[m].len <= c[n].at

CopyTypes ==
  /\ x64 \in BOOLEAN /\ code \in Codes /\ base \in Pages
  /\ phase \in {"copying", "copied", "running", "failed"}
  /\ src \in 0..27 /\ pc \in Int
  /\ flags \in {"z", "nz"} /\ meant \in {"z", "nz"}
  /\ Strip(copy, base)

\* Decoding stays in step with the function, or has left its end behind.
InStep ==
  Decodable => \/ src \in DOMAIN code
               \/ \E a \in DOMAIN code : code[a].op \in Ends /\ a < src

\* What is copied so far fits on the page.
Fits == phase = "copying" => EndOf(copy) <= base + 78 * src

\* The last piece, once everything is copied, is the jump back.
EndsWithJumpBack ==
  phase # "copying" =>
    /\ SIZE_OF_JMP <= src /\ copy # <<>>
    /\ Distant =>
         LET back == copy[Len(copy)] IN
         /\ back.op = IF x64 THEN "jmpRet" ELSE "jmp32"
         /\ Target(back, back.at) = src /\ back.means = src

-----------------------------------------------------------------------------
(* What the pieces of a regular function stand for.  c is the copy, s where     *)
(* decoding goes on, l the number of pieces without the jump back.             *)

After(c, s, n) == IF n < Len(c) THEN c[n + 1].means ELSE s

StandsForTheSame(p, after) ==
  LET o == code[p.means] IN
  /\ p.means \in Header /\ p.op = o.op
  /\ p.op \in {"plain", "cmp", "indirect", "ret", "call", "rip"}
  /\ p.op \in {"call", "rip"} => Target(p, p.at) = Target(o, p.means)
  /\ after = p.means + o.len

StandsForAJump(p, after) ==
  LET o == code[p.means] IN
  /\ ~x64 /\ p.means \in Header
  /\ \/ p.op = "jcc32" /\ o.op \in Jcc
     \/ p.op = "jmp32" /\ o.op \in {"jmp8", "jmp32"}
  /\ Target(p, p.at) = Target(o, p.means)
  /\ after = p.means + o.len

StandsForARet(p) ==
  p.means \in Header /\ p.op = "retImm" /\ code[p.means].op = "retImm"

\* The rest of a ret's operand has been copied, or is what comes next.
RestOfRet(c, s, l, n) ==
  \/ n < l /\ c[n + 1].op = "bytes"
  \/ n = Len(c) /\ s < SIZE_OF_JMP /\ s \notin DOMAIN code

StandsForALoop(p, q, r) ==
  LET o == code[p.means] IN
  /\ p.means \in Header /\ p.op = "loop8" /\ o.op = "loop8"
  /\ q.op = "jmp8" /\ q.means = p.means + o.len
  /\ r.op = "jmp32" /\ r.means = Target(o, p.means)
  /\ Target(p, p.at) = r.at

SkipsAJump(p, q, after) ==
  /\ p.op = "jmp8" /\ Target(p, p.at) = q.at + q.len
  /\ p.means \in DOMAIN code /\ after = p.means

JumpsOn(p) == p.op = "jmp32" /\ p.means \in Targets /\ Target(p, p.at) = p.means

IsNoInstruction(p) == p.op = "bytes" /\ p.means \notin DOMAIN code

Stands(c, s, l, n) ==
  \/ StandsForTheSame(c[n], After(c, s, n))
  \/ StandsForAJump(c[n], After(c, s, n))
  \/ StandsForARet(c[n]) /\ RestOfRet(c, s, l, n)
  \/ n + 2 <= l /\ StandsForALoop(c[n], c[n + 1], c[n + 2])
  \/ n + 1 <= l /\ SkipsAJump(c[n], c[n + 1], After(c, s, n + 1))
  \/ JumpsOn(c[n])
  \/ IsNoInstruction(c[n])

Faithful ==
  Regular =>
    LET l == IF phase = "copying" THEN Len(copy) ELSE Len(copy) - 1 IN
    /\ EndOf(copy) <= base + IF phase = "copying" THEN 9 * src ELSE 300
    /\ After(copy, src, 0) = 0
    /\ \A n \in 1..l : Stands(copy, src, l, n)

-----------------------------------------------------------------------------
(* Where the processor can be when it runs a regular function.                 *)

Places == DOMAIN code \cup Targets \cup {Exit}

\* Where the header goes.
Reached == Header \cup Targets \cup
           {b \in DOMAIN code : \E a \in Header : a + code[a].len = b}

\* Being at q is being at address "to" of the function.
Arrives(q, to) ==
  \/ \E n \in 1..Len(copy) : /\ q = copy[n].at /\ to = copy[n].means
                             /\ copy[n].op # "bytes" /\ to \in Reached
  \/ q = to /\ q \in Places \ Overwritten

OnTrack == (phase = "running" /\ Regular) => \E to \in Places : Arrives(pc, to)

\* On Win64 the jump back loses the flag, and nobody tests it.
Tested(q) == q \in DOMAIN code \ Header /\ code[q].op \in Jcc

FlagKept ==
  \/ flags = meant
  \/ phase = "running" /\ (Regular => x64 /\ ~Tested(pc))


\* The constants that are numbers.
LEMMA Numbers == Pages \subseteq Int /\ Reach \in Nat /\ Exit \in Int /\ Crash \in Int
BY CodeAssumption

\* The place an instruction refers to is kept or, on Win64, comes back whole
\* when it is in reach.
LEMMA DWordWhole ==
  ASSUME x64 \in BOOLEAN, NEW n \in Int,
         x64 => -(Reach + 1) <= n /\ n <= Reach
  PROVE  DWord(n) = n
<1>1. CASE ~x64
  BY <1>1 DEF DWord
<1>2. CASE x64
  <2> DEFINE a == n + Reach + 1
             k == 2 * (Reach + 1)
  <2>1. a \in Nat /\ k \in Nat /\ a < k /\ 0 < k
    BY <1>2, Numbers
  <2>2. a % k = a
    <3> HIDE DEF a, k
    <3> QED BY <2>1
  <2> QED BY <1>2, <2>2, Numbers DEF DWord
<1> QED BY <1>1, <1>2

\* A displacement of 32 bits is an integer.
LEMMA DWordType ==
  ASSUME x64 \in BOOLEAN, NEW n \in Int
  PROVE  DWord(n) \in Int
<1> DEFINE a == n + Reach + 1
           k == 2 * (Reach + 1)
<1>1. a \in Int /\ k \in Nat /\ 0 < k
  BY Numbers
<1>2. a % k \in Int
  <2> HIDE DEF a, k
  <2> QED BY <1>1
<1> QED BY <1>2, Numbers DEF DWord

-----------------------------------------------------------------------------
(* Functions. *)

Instructions == [op : Ops \cup {"bytes"}, len : 1..15, disp : Int]

\* What the instructions of a function are and where they end.
LEMMA CodeType ==
  ASSUME code \in Codes
  PROVE  /\ DOMAIN code \subseteq Nat /\ 0 \in DOMAIN code /\ Exit \notin DOMAIN code
         /\ \A a \in DOMAIN code :
              /\ code[a] \in Instructions /\ code[a].op # "bytes"
              /\ code[a].op \in Short => code[a].disp \in 0..255
              /\ code[a].op = "retImm" => code[a].len = 3
              /\ code[a].op \notin Ends => a + code[a].len \in DOMAIN code
<1>1. \A a \in DOMAIN code : code[a].op \in Ops
  BY CodeAssumption
<1>2. "bytes" \notin Ops
  BY DEF Ops, Relative, Branches, Short
<1> QED BY <1>1, <1>2, CodeAssumption DEF Instructions

\* copyNextOpcode decodes an instruction of the function, or bytes of no instruction.
LEMMA DecodedType ==
  ASSUME code \in Codes, src \in Nat, NEW i \in At(src)
  PROVE  /\ i \in Instructions
         /\ i.op \in Short => i.disp \in 0..255
         /\ src \notin DOMAIN code => i.op = "bytes"
         /\ src \in DOMAIN code => i = code[src]
         /\ Decoded(i) \in 1..19
<1>1. CASE src \in DOMAIN code
  <2>1. i = code[src]
    BY <1>1 DEF At
  <2>2. i \in Instructions /\ (i.op \in Short => i.disp \in 0..255)
    BY <2>1, <1>1, CodeType
  <2> QED BY <2>1, <2>2, <1>1 DEF Decoded, Instructions
<1>2. CASE src \notin DOMAIN code
  <2>1. /\ i \in [op : {"bytes"}, len : 1..2, disp : {0}]
    BY <1>2 DEF At
  <2> QED BY <2>1, <1>2 DEF Decoded, Instructions, Short
<1> QED BY <1>1, <1>2

\* An instruction refers to an integer.
LEMMA TargetType ==
  ASSUME NEW a \in Int, NEW i, i.len \in Int, i.disp \in Int
  PROVE  Target(i, a) \in Int
BY DEF Target, Signed

-----------------------------------------------------------------------------
(* Strips of pieces. *)

\* What a handler writes with these arguments is a piece.
LEMMA PieceType ==
  ASSUME NEW op \in Ops \cup {"bytes", "jmpRet", "callShifted"}, NEW at \in Int,
         NEW len \in 1..26, NEW disp \in Int, NEW means \in Int
  PROVE  Piece(op, at, len, disp, means) \in Pieces
BY DEF Piece, Pieces

\* The fields of a piece.
LEMMA PieceFields ==
  ASSUME NEW p \in Pieces
  PROVE  p.at \in Int /\ p.len \in 1..26 /\ p.len \in Nat /\ p.disp \in Int /\ p.means \in Int
<1>1. p.at \in Int /\ p.len \in 1..26 /\ p.disp \in Int /\ p.means \in Int
  BY DEF Pieces
<1> QED BY <1>1

\* One piece is a strip.
LEMMA StripOne ==
  ASSUME NEW d \in Int, NEW p \in Pieces, p.at = d,
         p.op \in Short => p.disp \in 0..255
  PROVE  Strip(<<p>>, d) /\ <<p>> # <<>>
BY DEF Strip, Pieces

\* Three pieces behind each other are a strip.
LEMMA StripThree ==
  ASSUME NEW d \in Int, NEW p \in Pieces, NEW q \in Pieces, NEW r \in Pieces,
         p.at = d, q.at = p.at + p.len, r.at = q.at + q.len,
         \A i \in {p, q, r} : i.op \in Short => i.disp \in 0..255
  PROVE  Strip(<<p, q, r>>, d) /\ <<p, q, r>> # <<>>
<1> DEFINE c == <<p, q, r>>
<1>0. c \in Seq(Pieces) /\ Len(c) = 3 /\ c # <<>>
  OBVIOUS
<1>1. c[1] = p /\ c[2] = q /\ c[3] = r
  OBVIOUS
<1>2. /\ p.at \in Int /\ q.at \in Int /\ r.at \in Int
      /\ p.len \in 1..26 /\ q.len \in 1..26 /\ r.len \in 1..26
      /\ p.op \in Short => p.disp \in 0..255
      /\ q.op \in Short => q.disp \in 0..255
      /\ r.op \in Short => r.disp \in 0..255
  BY DEF Pieces
<1>3. ASSUME NEW n \in 1..3
      PROVE  /\ c[n].at = IF n = 1 THEN d ELSE c[n - 1].at + c[n - 1].len
             /\ c[n].op \in Short => c[n].disp \in 0..255
             /\ d <= c[n].at
             /\ c[n].at + c[n].len <= c[3].at + c[3].len
             /\ \A m \in 1..(n - 1) : c[m].at + c[m].len <= c[n].at
  <2>1. n = 1 \/ n = 2 \/ n = 3
    OBVIOUS
  <2> HIDE DEF c
  <2>2. CASE n = 1
    BY <2>2, <1>1, <1>2
  <2>3. CASE n = 2
    BY <2>3, <1>1, <1>2
  <2>4. CASE n = 3
    <3>1. ASSUME NEW m \in 1..2 PROVE c[m].at + c[m].len <= c[3].at
      <4>1. m = 1 \/ m = 2
        OBVIOUS
      <4> QED BY <4>1, <1>1, <1>2
    <3> QED BY <2>4, <3>1, <1>1, <1>2, SMTT(20)
  <2> QED BY <2>1, <2>2, <2>3, <2>4
<1> HIDE DEF c
<1>4. Strip(c, d) /\ c # <<>>
  BY <1>0, <1>3 DEF Strip
<1> QED BY <1>4 DEF c

\* Reading a sequence that another one was appended to.
LEMMA Appended ==
  ASSUME NEW S, NEW c \in Seq(S), NEW p \in Seq(S)
  PROVE  /\ c \o p \in Seq(S) /\ Len(c \o p) = Len(c) + Len(p)
         /\ \A n \in 1..Len(c) : (c \o p)[n] = c[n]
         /\ \A n \in 1..Len(p) : (c \o p)[Len(c) + n] = p[n]
BY ConcatProperties

\* The end of a strip is not before its start.
LEMMA EndType ==
  ASSUME base \in Int, NEW c, Strip(c, base)
  PROVE  EndOf(c) \in Int /\ base <= EndOf(c)
<1>1. CASE c = <<>>
  BY <1>1 DEF EndOf
<1>2. CASE c # <<>>
  <2>1. Len(c) \in 1..Len(c) /\ c[Len(c)] \in Pieces
    BY <1>2 DEF Strip
  <2>2. base <= c[Len(c)].at
    BY <2>1 DEF Strip
  <2>3. c[Len(c)].at \in Int /\ c[Len(c)].len \in Nat
    BY <2>1, PieceFields
  <2>4. EndOf(c) = c[Len(c)].at + c[Len(c)].len
    BY <1>2 DEF EndOf
  <2> HIDE <1>2
  <2> QED BY <2>2, <2>3, <2>4
<1> QED BY <1>1, <1>2

\* Pieces written at the end of a strip make a longer strip (pbDst moves on).
LEMMA AppendStrip ==
  ASSUME base \in Int, NEW c, NEW p,
         Strip(c, base), Strip(p, EndOf(c)), p # <<>>
  PROVE  /\ Strip(c \o p, base) /\ c \o p # <<>>
         /\ EndOf(c \o p) = p[Len(p)].at + p[Len(p)].len
<1> DEFINE k == Len(c)
           h == Len(p)
           e == c \o p
<1>0. c \in Seq(Pieces) /\ p \in Seq(Pieces)
  BY DEF Strip
<1>1. k \in Nat /\ h \in Nat /\ 1 <= h
  BY <1>0
<1>a. e \in Seq(Pieces) /\ Len(e) = k + h
  BY <1>0, Appended
<1>2. /\ \A n \in 1..k : e[n] = c[n]
      /\ \A n \in 1..h : e[k + n] = p[n]
  BY <1>0, Appended
<1>b. /\ \A n \in 1..k : c[n] \in Pieces
      /\ \A n \in 1..h : p[n] \in Pieces
  BY <1>0
<1>c. /\ \A n \in 1..k : c[n].at \in Int /\ c[n].len \in Nat
      /\ \A n \in 1..h : p[n].at \in Int /\ p[n].len \in Nat
  BY <1>b, PieceFields
<1>d. /\ \A n \in 1..k : /\ c[n].at = IF n = 1 THEN base ELSE c[n - 1].at + c[n - 1].len
                         /\ c[n].op \in Short => c[n].disp \in 0..255
                         /\ base <= c[n].at
                         /\ c[n].at + c[n].len <= c[k].at + c[k].len
                         /\ \A m \in 1..(n - 1) : c[m].at + c[m].len <= c[n].at
      /\ \A n \in 1..h : /\ p[n].at = IF n = 1 THEN EndOf(c) ELSE p[n - 1].at + p[n - 1].len
                         /\ p[n].op \in Short => p[n].disp \in 0..255
                         /\ EndOf(c) <= p[n].at
                         /\ p[n].at + p[n].len <= p[h].at + p[h].len
                         /\ \A m \in 1..(n - 1) : p[m].at + p[m].len <= p[n].at
  BY DEF Strip
<1>4. /\ EndOf(c) \in Int /\ base <= EndOf(c)
      /\ EndOf(c) = IF k = 0 THEN base ELSE c[k].at + c[k].len
  BY <1>0, EndType DEF EndOf
<1>5. e[k + h] = p[h] /\ e # <<>>
  BY <1>1, <1>2, <1>a
<1> HIDE DEF k, h, e
<1>6. ASSUME NEW n \in 1..(k + h)
      PROVE  /\ e[n].at = IF n = 1 THEN base ELSE e[n - 1].at + e[n - 1].len
             /\ e[n].op \in Short => e[n].disp \in 0..255
             /\ base <= e[n].at
             /\ e[n].at + e[n].len <= p[h].at + p[h].len
             /\ \A m \in 1..(n - 1) : e[m].at + e[m].len <= e[n].at
  <2>1. CASE n <= k
    <3>1. e[n] = c[n] /\ \A m \in 1..(n - 1) : e[m] = c[m]
      BY <1>1, <1>2, <2>1
    <3>2. c[k].at + c[k].len <= p[h].at /\ p[h].len \in Nat /\ p[h].at \in Int
      BY <1>1, <1>c, <1>d, <1>4, <2>1, SMTT(20)
    <3>3. n \in 1..k /\ k \in 1..k
      BY <1>1, <2>1
    <3>4. c[n].at \in Int /\ c[n].len \in Nat /\ c[k].at \in Int /\ c[k].len \in Nat
      BY <1>c, <3>3
    <3>5. e[n].at + e[n].len <= p[h].at + p[h].len
      <4>1. c[n].at + c[n].len <= c[k].at + c[k].len
        BY <1>d, <3>3
      <4>2. p[h].at + p[h].len \in Int /\ p[h].at <= p[h].at + p[h].len
        BY <3>2
      <4>3. e[n].at + e[n].len = c[n].at + c[n].len
        BY <3>1
      <4>4. c[n].at + c[n].len \in Int /\ c[k].at + c[k].len \in Int /\ p[h].at \in Int
        BY <3>2, <3>4
      <4>5. c[k].at + c[k].len <= p[h].at
        BY <3>2
      <4>6. c[n].at + c[n].len <= p[h].at + p[h].len
        <5> DEFINE u == c[n].at + c[n].len
                   v == c[k].at + c[k].len
                   w == p[h].at
                   x == p[h].at + p[h].len
        <5>1. u \in Int /\ v \in Int /\ w \in Int /\ x \in Int
          BY <4>2, <4>4
        <5>2. u <= v /\ v <= w /\ w <= x
          BY <4>1, <4>2, <4>5
        <5> HIDE DEF u, v, w, x
        <5>3. u <= x
          BY <5>1, <5>2
        <5> QED BY <5>3 DEF u, x
      <4> QED BY <4>3, <4>6
    <3>6. e[n].at = IF n = 1 THEN base ELSE e[n - 1].at + e[n - 1].len
      <4>1. n # 1 => n - 1 \in 1..(n - 1)
        BY <1>1
      <4> QED BY <1>d, <3>1, <3>3, <4>1
    <3> QED BY <1>d, <3>1, <3>3, <3>5, <3>6
  <2>2. CASE k < n
    <3> DEFINE q == n - k
    <3>1. q \in 1..h /\ n = k + q
      BY <1>1, <2>2
    <3>2. e[n] = p[q]
      BY <1>2, <3>1
    <3>3. e[n].at = IF n = 1 THEN base ELSE e[n - 1].at + e[n - 1].len
      <4>1. CASE q = 1
        <5>1. k # 0 => e[n - 1] = c[k] /\ n # 1
          BY <1>1, <1>2, <3>1, <4>1
        <5>2. k = 0 => n = 1
          BY <3>1, <4>1
        <5> QED BY <1>c, <1>d, <1>4, <3>1, <3>2, <4>1, <5>1, <5>2
      <4>2. CASE q # 1
        <5>1. q - 1 \in 1..h /\ n - 1 = k + (q - 1) /\ n # 1
          BY <1>1, <3>1, <4>2
        <5>2. e[n - 1] = p[q - 1]
          BY <1>2, <5>1
        <5> QED BY <1>c, <1>d, <3>1, <3>2, <4>2, <5>1, <5>2
      <4> QED BY <4>1, <4>2
    <3>4. ASSUME NEW m \in 1..(n - 1) PROVE e[m].at + e[m].len <= e[n].at
      <4>1. CASE m <= k
        <5>1. e[m] = c[m] /\ m \in 1..k /\ k # 0
          BY <1>1, <1>2, <4>1
        <5>2. c[m].at + c[m].len <= EndOf(c)
          BY <1>c, <1>d, <1>4, <5>1
        <5>3. EndOf(c) <= p[q].at /\ p[q].at \in Int /\ c[m].at \in Int /\ c[m].len \in Nat
          BY <1>c, <1>d, <3>1, <5>1
        <5> QED BY <1>4, <3>2, <5>1, <5>2, <5>3
      <4>2. CASE k < m
        <5>1. m - k \in 1..(q - 1) /\ m - k \in 1..h /\ m = k + (m - k)
          BY <1>1, <3>1, <4>2
        <5>2. e[m] = p[m - k]
          BY <1>2, <5>1
        <5> QED BY <1>c, <1>d, <3>1, <3>2, <5>1, <5>2
      <4> QED BY <1>1, <4>1, <4>2
    <3>5. base <= e[n].at /\ e[n].at + e[n].len <= p[h].at + p[h].len
      <4> base \in Int
        OBVIOUS
      <4>1. EndOf(c) <= p[q].at /\ p[q].at \in Int
        BY <1>c, <1>d, <3>1
      <4>2. p[q].at + p[q].len <= p[h].at + p[h].len
        BY <1>c, <1>d, <3>1
      <4> QED BY <1>4, <3>2, <4>1, <4>2
    <3>6. e[n].op \in Short => e[n].disp \in 0..255
      BY <1>c, <1>d, <3>1, <3>2
    <3> QED BY <3>3, <3>4, <3>5, <3>6
  <2> QED BY <1>1, <2>1, <2>2
<1>7. Strip(e, base)
  BY <1>a, <1>5, <1>6 DEF Strip
<1>8. EndOf(e) = p[h].at + p[h].len
  BY <1>a, <1>5 DEF EndOf
<1> QED BY <1>5, <1>7, <1>8 DEF e, h

-----------------------------------------------------------------------------
(* What the handlers write. *)

NearOps == {"jmp32", "jcc32", "call", "rip"}

\* The arguments that the handlers give to Near.
LEMMA NearArguments ==
  /\ "jmp32" \in NearOps /\ "jcc32" \in NearOps /\ "call" \in NearOps /\ "rip" \in NearOps
  /\ 2 \in 1..26 /\ 5 \in 1..26 /\ 6 \in 1..26 /\ 14 \in 1..26 /\ 26 \in 1..26
BY DEF NearOps

\* Near writes one piece.
LEMMA NearPiece ==
  ASSUME x64 \in BOOLEAN, NEW op \in NearOps,
         NEW at \in Int, NEW len \in 1..26, NEW to \in Int, NEW means \in Int
  PROVE  /\ Near(op, at, len, to, means) \in Pieces
         /\ Near(op, at, len, to, means).op = op
         /\ Near(op, at, len, to, means).at = at
         /\ Near(op, at, len, to, means).len = len
         /\ Near(op, at, len, to, means).means = means
         /\ op \notin Short
<1> DEFINE n == to - (at + len)
<1>1. n \in Int /\ DWord(n) \in Int
  BY DWordType
<1>2. op \in Ops /\ op \notin Short
  BY DEF NearOps, Ops, Relative, Branches, Short
<1>3. Near(op, at, len, to, means) =
        [op |-> op, at |-> at, len |-> len, disp |-> DWord(n), means |-> means]
  BY DEF Near, Piece
<1>4. Near(op, at, len, to, means) \in Pieces
  BY <1>1, <1>2, <1>3 DEF Pieces
<1> QED BY <1>2, <1>3, <1>4

\* On Win32 always, on Win64 within reach, the piece refers to the place asked for.
LEMMA NearTarget ==
  ASSUME x64 \in BOOLEAN, NEW op \in NearOps,
         NEW at \in Int, NEW len \in 1..26, NEW to \in Int, NEW means \in Int,
         x64 => to - (at + len) \in -(Reach + 1)..Reach
  PROVE  Target(Near(op, at, len, to, means), at) = to
<1> DEFINE n == to - (at + len)
<1>1. n \in Int
  OBVIOUS
<1>2. DWord(n) = n
  <2> HIDE DEF n
  <2>1. x64 => -(Reach + 1) <= n /\ n <= Reach
    BY <1>1, Numbers DEF n
  <2> QED BY <1>1, <2>1, DWordWhole
<1>3. Near(op, at, len, to, means) =
        [op |-> op, at |-> at, len |-> len, disp |-> n, means |-> means]
  BY <1>2 DEF Near, Piece
<1>4. op \notin Short
  BY DEF NearOps, Short
<1> QED BY <1>3, <1>4 DEF Target

\* Too far for a short jump.
FarApart(d, to) == to + 128 <= d + 5 \/ d + 132 <= to

\* writeJump of Win64 writes one piece; too far for a short jump it is the push and ret form,
\* which reaches every place.
LEMMA WriteJump64Piece ==
  ASSUME NEW d \in Int, NEW to \in Int, NEW means \in Int
  PROVE  \E p \in Pieces :
           /\ WriteJump64(d, to, means) = <<p>>
           /\ p.at = d /\ p.means = means
           /\ p.op \in Short => p.disp \in 0..255
           /\ FarApart(d, to) => p.op = "jmpRet" /\ Target(p, p.at) = to
<1> DEFINE distance == to - (d + 5)
           near == Piece("jmp8", d, 2, distance % 256, means)
           far == Piece("jmpRet", d, 26, to - (d + 26), means)
<1>1. distance \in Int /\ distance % 256 \in 0..255
  <2>1. distance \in Int
    OBVIOUS
  <2> HIDE DEF distance
  <2> QED BY <2>1
<1>2. "jmp8" \in Ops /\ "jmpRet" \notin Short
  BY DEF Ops, Relative, Branches, Short
<1>3. near \in Pieces
  <2> HIDE DEF distance
  <2> QED BY <1>1, <1>2, PieceType
<1>4. far \in Pieces
  BY PieceType
<1>5. CASE -128 < distance /\ distance < 127
  <2>1. WriteJump64(d, to, means) = <<near>>
    BY <1>5 DEF WriteJump64
  <2>2. near.at = d /\ near.means = means /\ near.disp = distance % 256
    BY DEF Piece
  <2> HIDE DEF near
  <2>3. ~FarApart(d, to)
    BY <1>5 DEF FarApart
  <2> QED BY <1>1, <1>3, <2>1, <2>2, <2>3
<1>6. CASE ~(-128 < distance /\ distance < 127)
  <2>1. WriteJump64(d, to, means) = <<far>>
    BY <1>6 DEF WriteJump64
  <2>2. /\ far.at = d /\ far.means = means /\ far.op = "jmpRet" /\ far.len = 26
        /\ far.disp = to - (d + 26)
    BY DEF Piece
  <2> HIDE DEF far
  <2>3. Target(far, far.at) = to
    BY <1>2, <2>2 DEF Target
  <2> QED BY <1>2, <1>4, <2>1, <2>2, <2>3
<1> QED BY <1>5, <1>6

\* The same for both platforms.
LEMMA WriteJumpPiece ==
  ASSUME x64 \in BOOLEAN, NEW d \in Int, NEW to \in Int, NEW means \in Int
  PROVE  \E p \in Pieces :
           /\ WriteJump(d, to, means) = <<p>>
           /\ p.at = d /\ p.means = means
           /\ p.op \in Short => p.disp \in 0..255
           /\ (x64 => FarApart(d, to)) =>
                /\ p.op = IF x64 THEN "jmpRet" ELSE "jmp32"
                /\ Target(p, p.at) = to
<1>1. CASE x64
  BY <1>1, WriteJump64Piece DEF WriteJump
<1>2. CASE ~x64
  <2> DEFINE p == Near("jmp32", d, 5, to, means)
  <2>1. WriteJump(d, to, means) = <<p>>
    BY <1>2 DEF WriteJump
  <2>a. p = Near("jmp32", d, 5, to, means)
    OBVIOUS
  <2> HIDE DEF p
  <2>2. /\ p \in Pieces /\ p.op = "jmp32" /\ p.at = d /\ p.means = means
        /\ p.op \notin Short /\ Target(p, d) = to
    <3>1. Target(p, d) = to
      BY <1>2, <2>a, NearTarget, NearArguments
    <3> QED BY <2>a, <3>1, NearPiece, NearArguments
  <2> QED BY <1>2, <2>1, <2>2
<1> QED BY <1>1, <1>2

\* Appending to a pair gives a triple.
LEMMA TwoAndOne ==
  ASSUME NEW S, NEW p \in S, NEW q \in S, NEW r \in S
  PROVE  <<p, q>> \o <<r>> = <<p, q, r>>
<1> DEFINE c == <<p, q>> \o <<r>>
           e == <<p, q, r>>
<1>1. <<p, q>> \in Seq(S) /\ <<r>> \in Seq(S)
  OBVIOUS
<1>2. c \in Seq(S) /\ Len(c) = 3 /\ c[1] = p /\ c[2] = q /\ c[3] = r
  BY <1>1, ConcatProperties
<1>3. e \in Seq(S) /\ Len(e) = 3 /\ e[1] = p /\ e[2] = q /\ e[3] = r
  OBVIOUS
<1> HIDE DEF c, e
<1>4. ASSUME NEW n \in 1..3 PROVE c[n] = e[n]
  <2>1. n = 1 \/ n = 2 \/ n = 3
    OBVIOUS
  <2> QED BY <2>1, <1>2, <1>3
<1>5. c = e
  BY <1>2, <1>3, <1>4, SeqEqual
<1> QED BY <1>5 DEF c, e

\* The addresses that a jump's handler may compute are integers.
LEMMA JumpTargetsType ==
  ASSUME NEW i \in Instructions, NEW a \in Int
  PROVE  JumpTargets(i, a) \subseteq Int
<1>1. i.len \in Int /\ i.disp \in Int
  BY DEF Instructions
<1>2. Target(i, a) \in Int
  BY <1>1, TargetType
<1>3. a + i.len + i.disp \in Int
  BY <1>1
<1>4. a + i.len - (IF i.op \in Short THEN 1 ELSE 4) + i.disp \in Int
  BY <1>1
<1> QED BY <1>2, <1>3, <1>4 DEF JumpTargets

\* A handler writes a strip at d that begins with what is meant by address a.
Writes(pieces, a, d) ==
  /\ Strip(pieces, d) /\ pieces # <<>> /\ pieces[1].means = a
  /\ pieces[Len(pieces)].at + pieces[Len(pieces)].len <= d + 78

\* A handler that writes one piece.
LEMMA WritesOne ==
  ASSUME NEW a \in Int, NEW d \in Int, NEW p \in Pieces, p.at = d, p.means = a,
         p.op \in Short => p.disp \in 0..255
  PROVE  Writes(<<p>>, a, d)
<1>1. p.at + p.len <= d + 78
  BY PieceFields
<1> QED BY <1>1, StripOne DEF Writes

\* A handler that writes three pieces.
LEMMA WritesThree ==
  ASSUME NEW a \in Int, NEW d \in Int,
         NEW p \in Pieces, NEW q \in Pieces, NEW r \in Pieces, p.means = a,
         p.at = d, q.at = p.at + p.len, r.at = q.at + q.len,
         p.op \in Short => p.disp \in 0..255,
         q.op \in Short => q.disp \in 0..255,
         r.op \in Short => r.disp \in 0..255
  PROVE  Writes(<<p, q, r>>, a, d)
<1>1. Strip(<<p, q, r>>, d) /\ <<p, q, r>> # <<>>
  BY StripThree
<1>2. r.at + r.len <= d + 78
  BY PieceFields
<1> QED BY <1>1, <1>2 DEF Writes

\* JumpNear and JumpShort.
LEMMA JumpWrites ==
  ASSUME x64 \in BOOLEAN, NEW i \in Instructions, NEW a \in Int, NEW d \in Int,
         NEW pieces \in Jump(i, a, d)
  PROVE  Writes(pieces, a, d)
<1>1. PICK to \in JumpTargets(i, a) : pieces = WriteJump(d, to, a)
  BY DEF Jump
<1>2. to \in Int
  BY JumpTargetsType
<1>3. PICK p \in Pieces : /\ WriteJump(d, to, a) = <<p>> /\ p.at = d /\ p.means = a
                          /\ p.op \in Short => p.disp \in 0..255
  BY <1>2, WriteJumpPiece
<1> QED BY <1>1, <1>3, WritesOne

\* The handlers of the conditional jumps.
LEMMA JumpCondWrites ==
  ASSUME x64 \in BOOLEAN, NEW i \in Instructions, NEW a \in Int, NEW d \in Int,
         NEW pieces \in JumpCond(i, a, d)
  PROVE  Writes(pieces, a, d)
<1>1. CASE x64
  <2>1. PICK to \in JumpTargets(i, a) :
          LET jump == WriteJump64(d + 11, to, Target(i, a))
          IN pieces = <<Piece("jcc32", d, 6, 5, a),
                        Near("jmp32", d + 6, 5, EndOf(jump), a + i.len)>> \o jump
    BY <1>1 DEF JumpCond
  <2>2. to \in Int /\ Target(i, a) \in Int /\ a + i.len \in Int
    BY JumpTargetsType, TargetType DEF Instructions
  <2> DEFINE e == d + 11
             back == Target(i, a)
  <2>b. e \in Int /\ back \in Int /\ e = d + 11
    BY <2>2
  <2>c. PICK jump : jump = WriteJump64(e, to, back)
    OBVIOUS
  <2>d. pieces = <<Piece("jcc32", d, 6, 5, a),
                   Near("jmp32", d + 6, 5, EndOf(jump), a + i.len)>> \o jump
    BY <2>1, <2>c
  <2> HIDE DEF e, back
  <2>3. PICK r \in Pieces : /\ jump = <<r>> /\ r.at = e
                            /\ r.op \in Short => r.disp \in 0..255
    <3>1. to \in Int /\ e \in Int /\ back \in Int
      BY <2>2, <2>b
    <3>2. \E p \in Pieces :
            /\ WriteJump64(e, to, back) = <<p>>
            /\ p.at = e /\ p.means = back
            /\ p.op \in Short => p.disp \in 0..255
            /\ FarApart(e, to) => p.op = "jmpRet" /\ Target(p, p.at) = to
      BY <3>1, WriteJump64Piece
    <3>3. PICK r \in Pieces : /\ WriteJump64(e, to, back) = <<r>> /\ r.at = e
                              /\ r.op \in Short => r.disp \in 0..255
      BY <3>2, Zenon
    <3> QED BY <2>c, <3>3
  <2> DEFINE p == Piece("jcc32", d, 6, 5, a)
             q == Near("jmp32", d + 6, 5, EndOf(<<r>>), a + i.len)
  <2>4. EndOf(<<r>>) = r.at + r.len /\ r.at + r.len \in Int
    BY <2>3, PieceFields DEF EndOf
  <2>5. p \in Pieces /\ p.at = d /\ p.len = 6 /\ p.means = a /\ p.op \notin Short
    <3>1. "jcc32" \in Ops /\ "jcc32" \notin Short
      BY DEF Ops, Relative, Branches, Short
    <3>2. p \in Pieces
      BY <3>1, PieceType
    <3> QED BY <3>1, <3>2 DEF Piece
  <2>a. q = Near("jmp32", d + 6, 5, EndOf(<<r>>), a + i.len)
    OBVIOUS
  <2> HIDE DEF p, q
  <2>6. q \in Pieces /\ q.at = d + 6 /\ q.len = 5 /\ q.op \notin Short
    BY <2>2, <2>4, <2>a, NearPiece, NearArguments
  <2>7. pieces = <<p, q, r>>
    BY <2>d, <2>3, <2>5, <2>6, TwoAndOne DEF p, q
  <2>8. q.at = p.at + p.len /\ r.at = q.at + q.len
    BY <2>b, <2>3, <2>5, <2>6
  <2> QED BY <2>3, <2>5, <2>6, <2>7, <2>8, WritesThree
<1>2. CASE ~x64
  <2>1. PICK to \in JumpTargets(i, a) : pieces = <<Near("jcc32", d, 6, to, a)>>
    BY <1>2 DEF JumpCond
  <2>2. to \in Int
    BY JumpTargetsType
  <2> DEFINE p == Near("jcc32", d, 6, to, a)
  <2>a. p = Near("jcc32", d, 6, to, a)
    OBVIOUS
  <2> HIDE DEF p
  <2>3. p \in Pieces /\ p.at = d /\ p.means = a /\ p.op \notin Short
    BY <2>2, <2>a, NearPiece, NearArguments
  <2> QED BY <2>1, <2>3, WritesOne DEF p
<1> QED BY <1>1, <1>2

\* The three pieces that stand for a loop.
LEMMA LoopShortPieces ==
  ASSUME x64 \in BOOLEAN, NEW i \in Instructions, NEW a \in Int, NEW d \in Int,
         NEW pieces \in LoopShort(i, a, d)
  PROVE  \E p, q, r \in Pieces :
           /\ pieces = <<p, q, r>>
           /\ p.op = "loop8" /\ p.at = d /\ p.len = 2 /\ p.disp = 2 /\ p.means = a
           /\ q.op = "jmp8" /\ q.at = d + 2 /\ q.len = 2 /\ q.disp = 5
           /\ q.means = a + i.len
           /\ r.op = "jmp32" /\ r.at = d + 4 /\ r.len = 5 /\ r.means = Target(i, a)
           /\ (x64 => Target(i, a) - (d + 9) \in -(Reach + 1)..Reach) =>
                Target(r, r.at) = Target(i, a)
<1> DEFINE p == Piece("loop8", d, 2, 2, a)
           q == Piece("jmp8", d + 2, 2, 5, a + i.len)
           r == Near("jmp32", d + 4, 5, Target(i, a), Target(i, a))
<1>1. Target(i, a) \in Int /\ a + i.len \in Int /\ d + 2 \in Int /\ d + 4 \in Int
  BY TargetType DEF Instructions
<1>2. "loop8" \in Ops /\ "jmp8" \in Ops
  BY DEF Ops, Relative, Branches, Short
<1>3. p \in Pieces /\ q \in Pieces
  BY <1>1, <1>2, PieceType
<1>4. /\ p.op = "loop8" /\ p.at = d /\ p.len = 2 /\ p.disp = 2 /\ p.means = a
      /\ q.op = "jmp8" /\ q.at = d + 2 /\ q.len = 2 /\ q.disp = 5
      /\ q.means = a + i.len
  BY DEF Piece
<1>5. pieces = <<p, q, r>>
  BY DEF LoopShort
<1>6. r = Near("jmp32", d + 4, 5, Target(i, a), Target(i, a))
  OBVIOUS
<1> HIDE DEF p, q, r
<1>7. /\ r \in Pieces /\ r.op = "jmp32" /\ r.at = d + 4 /\ r.len = 5
      /\ r.means = Target(i, a)
  BY <1>1, <1>6, NearPiece, NearArguments
<1>8. ASSUME x64 => Target(i, a) - (d + 9) \in -(Reach + 1)..Reach
      PROVE  Target(r, r.at) = Target(i, a)
  <2> DEFINE e == d + 4
             to == Target(i, a)
  <2>1. e \in Int /\ to \in Int /\ (x64 => to - (e + 5) \in -(Reach + 1)..Reach)
    <3>1. (d + 4) + 5 = d + 9
      OBVIOUS
    <3> QED BY <1>1, <1>8, <3>1
  <2> HIDE DEF e, to
  <2>2. Target(Near("jmp32", e, 5, to, to), e) = to
    BY <2>1, NearTarget, NearArguments
  <2> QED BY <1>6, <1>7, <2>2 DEF e, to
<1> QED BY <1>3, <1>4, <1>5, <1>7, <1>8

\* The handlers of loop, loopz, loopnz and jcxz.
LEMMA LoopShortWrites ==
  ASSUME x64 \in BOOLEAN, NEW i \in Instructions, NEW a \in Int, NEW d \in Int,
         NEW pieces \in LoopShort(i, a, d)
  PROVE  Writes(pieces, a, d)
<1>1. PICK p, q, r \in Pieces :
        /\ pieces = <<p, q, r>>
        /\ p.op = "loop8" /\ p.at = d /\ p.len = 2 /\ p.disp = 2 /\ p.means = a
        /\ q.op = "jmp8" /\ q.at = d + 2 /\ q.len = 2 /\ q.disp = 5
        /\ r.op = "jmp32" /\ r.at = d + 4
  BY LoopShortPieces
<1>2. q.at = p.at + p.len /\ r.at = q.at + q.len /\ r.op \notin Short
  BY <1>1 DEF Short
<1>3. p.disp \in 0..255 /\ q.disp \in 0..255
  BY <1>1
<1> QED BY <1>1, <1>2, <1>3, WritesThree

\* The handler of call.
LEMMA CallNearWrites ==
  ASSUME x64 \in BOOLEAN, NEW i \in Instructions, NEW a \in Int, NEW d \in Int,
         NEW pieces \in CallNear(i, a, d)
  PROVE  Writes(pieces, a, d)
<1> DEFINE p == Near("call", d, 5, Target(i, a), a)
           q == Piece("callShifted", d, 14, 0, a)
<1>1. Target(i, a) \in Int
  BY TargetType DEF Instructions
<1>a. p = Near("call", d, 5, Target(i, a), a)
  OBVIOUS
<1>3. q \in Pieces /\ q.at = d /\ q.means = a /\ q.op \notin Short
  <2>1. q \in Pieces
    <3> 0 \in Int /\ 14 \in 1..26
      OBVIOUS
    <3> HIDE DEF q
    <3> QED BY PieceType DEF q
  <2> QED BY <2>1 DEF Piece, Short
<1>4. pieces = <<p>> \/ pieces = <<q>>
  BY DEF CallNear
<1> HIDE DEF p, q
<1>2. p \in Pieces /\ p.at = d /\ p.means = a /\ p.op \notin Short
  BY <1>1, <1>a, NearPiece, NearArguments
<1> QED BY <1>2, <1>3, <1>4, WritesOne

\* RIP addressing of Win64.
LEMMA RIPWrites ==
  ASSUME x64 \in BOOLEAN, NEW i \in Instructions, NEW a \in Int, NEW d \in Int,
         NEW pieces \in RIP(i, a, d)
  PROVE  Writes(pieces, a, d)
<1> DEFINE p == Near("rip", d, i.len, Target(i, a), a)
<1>1. Target(i, a) \in Int /\ i.len \in 1..26
  BY TargetType DEF Instructions
<1>a. p = Near("rip", d, i.len, Target(i, a), a)
  OBVIOUS
<1>3. pieces = <<p>>
  BY DEF RIP
<1> HIDE DEF p
<1>2. p \in Pieces /\ p.at = d /\ p.means = a /\ p.op \notin Short
  BY <1>1, <1>a, NearPiece, NearArguments
<1> QED BY <1>2, <1>3, WritesOne

\* An instruction that is copied as it is.
LEMMA CopiedWrites ==
  ASSUME NEW i \in Instructions, NEW a \in Int, NEW d \in Int, i.op \notin Short,
         NEW pieces \in Copied(i, a, d)
  PROVE  Writes(pieces, a, d)
<1> DEFINE p == Piece("bytes", d, 5, 0, a)
           q == Piece(i.op, d, IF i.op = "retImm" THEN 2 ELSE i.len, i.disp, a)
<1>1. /\ i.op \in Ops \cup {"bytes"} /\ i.disp \in Int
      /\ (IF i.op = "retImm" THEN 2 ELSE i.len) \in 1..26
  BY DEF Instructions
<1>2. p \in Pieces /\ q \in Pieces
  BY <1>1, PieceType
<1>3. /\ p.at = d /\ p.means = a /\ p.op \notin Short
      /\ q.at = d /\ q.means = a /\ q.op \notin Short
  BY DEF Piece, Short
<1>4. pieces = <<p>> \/ pieces = <<q>>
  BY DEF Copied
<1> HIDE DEF p, q
<1> QED BY <1>2, <1>3, <1>4, WritesOne

\* copyNextOpcode writes a strip that begins with what the instruction means.
LEMMA RelocatedWrites ==
  ASSUME x64 \in BOOLEAN, NEW i \in Instructions, NEW a \in Int, NEW d \in Int,
         NEW pieces \in Relocated(i, a, d)
  PROVE  Writes(pieces, a, d)
<1>1. CASE i.op \in {"jmp8", "jmp32"}
  BY <1>1, JumpWrites DEF Relocated, Jcc
<1>2. CASE i.op \in Jcc
  BY <1>2, JumpCondWrites DEF Relocated, Jcc
<1>3. CASE i.op = "loop8"
  BY <1>3, LoopShortWrites DEF Relocated, Jcc
<1>4. CASE i.op = "call"
  BY <1>4, CallNearWrites DEF Relocated, Jcc
<1>5. CASE i.op = "rip"
  BY <1>5, RIPWrites DEF Relocated, Jcc
<1>6. CASE i.op \notin {"jmp8", "jmp32", "loop8", "call", "rip"} \cup Jcc
  <2>1. i.op \notin Short
    BY <1>6 DEF Short, Jcc
  <2>2. pieces \in Copied(i, a, d)
    BY <1>6 DEF Relocated
  <2> QED BY <2>1, <2>2, CopiedWrites
<1> QED BY <1>1, <1>2, <1>3, <1>4, <1>5, <1>6

-----------------------------------------------------------------------------
(* Types, decoding, and the jump back. *)

\* The redirection is 5 bytes long on Win32 and 9 on Win64.
LEMMA SizeType == SIZE_OF_JMP \in {5, 9}
BY DEF SIZE_OF_JMP

\* An executed instruction leaves an address and a flag.
LEMMA ExecuteType ==
  ASSUME NEW i, NEW a \in Int, i.len \in Int, i.disp \in Int,
         flags \in {"z", "nz"}, Execute(i, a)
  PROVE  pc' \in Int /\ flags' \in {"z", "nz"}
<1>1. Target(i, a) \in Int /\ a + i.len \in Int
  BY TargetType
<1>2. Exit \in Int
  BY Numbers
<1> QED BY <1>1, <1>2 DEF Execute

\* What one turn of the copying loop writes.
LEMMA CopyInstructionWrites ==
  ASSUME CopyTypes, CopyInstruction
  PROVE  \E i \in At(src) : \E pieces \in Relocated(i, src, dest) :
           /\ i \in Instructions /\ src \in Nat /\ base \in Int /\ dest \in Int
           /\ Writes(pieces, src, dest)
           /\ copy' = copy \o pieces /\ src' = src + Decoded(i)
           /\ Strip(copy', base)
           /\ EndOf(copy') = pieces[Len(pieces)].at + pieces[Len(pieces)].len
           /\ EndOf(copy') <= dest + 78
<1>1. PICK i \in At(src) : \E pieces \in Relocated(i, src, dest) :
        copy' = copy \o pieces /\ src' = src + Decoded(i)
  BY DEF CopyInstruction
<1>2. PICK pieces \in Relocated(i, src, dest) :
        copy' = copy \o pieces /\ src' = src + Decoded(i)
  BY <1>1
<1>3. /\ src \in Nat /\ code \in Codes /\ x64 \in BOOLEAN
      /\ base \in Int /\ Strip(copy, base)
  BY Numbers DEF CopyTypes
<1>4. i \in Instructions
  BY <1>3, DecodedType
<1>5. dest \in Int
  BY <1>3, EndType DEF dest
<1>6. Writes(pieces, src, dest)
  BY <1>3, <1>4, <1>5, RelocatedWrites
<1>7. /\ Strip(copy \o pieces, base)
      /\ EndOf(copy \o pieces) = pieces[Len(pieces)].at + pieces[Len(pieces)].len
  BY <1>3, <1>6, AppendStrip DEF Writes, dest
<1> QED BY <1>2, <1>3, <1>4, <1>5, <1>6, <1>7 DEF Writes

\* The jump back, as a piece.
LEMMA JumpBackWrites ==
  ASSUME CopyTypes, Fits, JumpBack
  PROVE  \E p \in Pieces :
           /\ copy' = copy \o <<p>>
           /\ copy \in Seq(Pieces) /\ copy' \in Seq(Pieces)
           /\ Len(copy') = Len(copy) + 1 /\ copy'[Len(copy')] = p
           /\ p.at = dest /\ p.means = src
           /\ Distant => /\ p.op = IF x64 THEN "jmpRet" ELSE "jmp32"
                         /\ Target(p, p.at) = src
           /\ Strip(copy', base)
           /\ EndOf(copy') = dest + p.len
<1>1. /\ src \in 0..27 /\ src \in Int /\ x64 \in BOOLEAN /\ base \in Int
      /\ Strip(copy, base) /\ copy \in Seq(Pieces)
  BY Numbers DEF CopyTypes, Strip
<1>2. dest \in Int /\ base <= dest
  BY <1>1, EndType DEF dest
<1>3. PICK p \in Pieces :
        /\ WriteJump(dest, src, src) = <<p>>
        /\ p.at = dest /\ p.means = src
        /\ p.op \in Short => p.disp \in 0..255
        /\ (x64 => FarApart(dest, src)) =>
             /\ p.op = IF x64 THEN "jmpRet" ELSE "jmp32"
             /\ Target(p, p.at) = src
  <2> x64 \in BOOLEAN /\ dest \in Int /\ src \in Int
    BY <1>1, <1>2
  <2> QED BY WriteJumpPiece
<1>4. copy' = copy \o <<p>>
  BY <1>3 DEF JumpBack
<1>5. Strip(<<p>>, dest) /\ <<p>> # <<>>
  BY <1>2, <1>3, StripOne
<1>6. <<p>> \in Seq(Pieces) /\ Len(<<p>>) = 1 /\ <<p>>[1] = p
  OBVIOUS
<1>7. /\ Strip(copy \o <<p>>, base)
      /\ EndOf(copy \o <<p>>) = p.at + p.len
  BY <1>1, <1>5, <1>6, AppendStrip DEF dest
<1>8. /\ copy \o <<p>> \in Seq(Pieces) /\ Len(copy \o <<p>>) = Len(copy) + 1
      /\ (copy \o <<p>>)[Len(copy) + 1] = p
  BY <1>1, <1>6, Appended
<1>9. Distant => (x64 => FarApart(dest, src))
  <2>1. dest <= base + 78 * src /\ 78 * src <= 2106
    BY <1>1 DEF JumpBack, Fits, dest
  <2>2. 0 \notin base..(base + 4095)
    BY CodeAssumption DEF CopyTypes, Overwritten
  <2>3. base + 4095 < 0 \/ 0 < base
    BY <1>1, <2>2
  <2>4. base + 4095 < 0 \/ ~(Distant /\ x64) \/ 255 < base
    BY <1>1, <2>3 DEF Distant
  <2> QED BY <1>1, <1>2, <2>1, <2>4 DEF FarApart
<1> QED BY <1>1, <1>3, <1>4, <1>7, <1>8, <1>9

\* What the processor does changes nothing that was written.
Ran == /\ phase = "running"
       /\ UNCHANGED <<x64, code, base, phase, src, copy>>

\* A step of the processor writes nothing.
LEMMA RunsOn ==
  (\E n \in 1..Len(copy) : RunCopy(copy[n])) \/ RunOriginal => Ran
BY DEF RunCopy, RunOriginal, Ran

\* A step of the processor keeps the types of the processor's state.
LEMMA RunTypes ==
  ASSUME CopyTypes, (\E n \in 1..Len(copy) : RunCopy(copy[n])) \/ RunOriginal
  PROVE  pc' \in Int /\ flags' \in {"z", "nz"} /\ meant' \in {"z", "nz"}
<1>1. /\ pc \in Int /\ flags \in {"z", "nz"} /\ meant \in {"z", "nz"}
      /\ code \in Codes /\ Crash \in Int
  BY Numbers DEF CopyTypes
<1>2. ASSUME NEW n \in 1..Len(copy), RunCopy(copy[n])
      PROVE  pc' \in Int /\ flags' \in {"z", "nz"} /\ meant' \in {"z", "nz"}
  <2> DEFINE p == copy[n]
  <2>1. p \in Pieces
    BY DEF CopyTypes, Strip
  <2>2. p.len \in Int /\ p.disp \in Int
    BY <2>1, PieceFields
  <2> HIDE DEF p
  <2>3. Target(p, pc) \in Int
    BY <1>1, <2>2, TargetType
  <2>4. CASE Execute(p, pc) /\ meant' = IF p.op = "cmp" THEN flags' ELSE meant
    BY <1>1, <2>2, <2>4, ExecuteType
  <2>5. CASE pc' = Target(p, pc) /\ flags' = "nz" /\ UNCHANGED <<used, meant>>
    BY <1>1, <2>3, <2>5
  <2>6. CASE pc' = Crash /\ UNCHANGED <<flags, used, meant>>
    BY <1>1, <2>6
  <2> QED BY <1>2, <2>4, <2>5, <2>6 DEF RunCopy, p
<1>3. ASSUME RunOriginal
      PROVE  pc' \in Int /\ flags' \in {"z", "nz"} /\ meant' \in {"z", "nz"}
  <2>1. CASE pc' = Crash /\ UNCHANGED <<flags, used, meant>>
    BY <1>1, <2>1
  <2>2. CASE /\ pc \in DOMAIN code
             /\ Execute(code[pc], pc)
             /\ meant' = IF code[pc].op = "cmp" THEN flags' ELSE meant
    <3>1. code[pc].len \in Int /\ code[pc].disp \in Int
      BY <1>1, <2>2, CodeType DEF Instructions
    <3> QED BY <1>1, <2>2, <3>1, ExecuteType
  <2> QED BY <1>3, <2>1, <2>2 DEF RunOriginal
<1> QED BY <1>2, <1>3

\* The parts of the invariant that say nothing about a regular function.
Written == CopyTypes /\ InStep /\ Fits /\ EndsWithJumpBack

\* Written holds before anything is copied.
LEMMA InitWritten == CopyInit => Written
<1> SUFFICES ASSUME CopyInit PROVE Written
  OBVIOUS
<1>1. Strip(<<>>, base)
  <2>1. <<>> \in Seq(Pieces) /\ Len(<<>>) = 0
    OBVIOUS
  <2> QED BY <2>1 DEF Strip
<1>2. CopyTypes
  BY <1>1 DEF CopyInit, CopyTypes
<1>3. InStep
  BY CodeAssumption DEF CopyInit, InStep
<1>4. EndsWithJumpBack
  BY DEF CopyInit, EndsWithJumpBack
<1>5. Fits
  BY Numbers DEF CopyInit, Fits, EndOf
<1> QED BY <1>2, <1>3, <1>4, <1>5 DEF Written

\* One turn of the copying loop keeps it.
LEMMA CopyInstructionWritten == Written /\ CopyInstruction => Written'
<1> SUFFICES ASSUME Written, CopyInstruction PROVE Written'
  OBVIOUS
<1>1. /\ src \in 0..27 /\ src \in Nat /\ code \in Codes /\ x64 \in BOOLEAN
      /\ CopyTypes /\ InStep /\ Fits
  BY DEF Written, CopyTypes
<1>2. PICK i \in At(src) : /\ src' = src + Decoded(i) /\ Strip(copy', base)
                           /\ dest \in Int /\ EndOf(copy') <= dest + 78
  BY <1>1, CopyInstructionWrites
<1>3. /\ i.op \in Short => i.disp \in 0..255
      /\ src \notin DOMAIN code => i.op = "bytes"
      /\ src \in DOMAIN code => i = code[src]
      /\ Decoded(i) \in 1..19 /\ i \in Instructions
  BY <1>1, DecodedType
<1>4. src < SIZE_OF_JMP /\ SIZE_OF_JMP \in {5, 9}
  BY SizeType DEF CopyInstruction, CopyMore
<1>5. UNCHANGED <<x64, code, base, phase, meant, cpu>> /\ phase = "copying"
  BY DEF CopyInstruction
<1>6. src' \in 0..27
  BY <1>1, <1>2, <1>3, <1>4
<1>7. CopyTypes'
  BY <1>1, <1>2, <1>5, <1>6 DEF CopyTypes, cpu, Strip
<1>8. EndsWithJumpBack'
  BY <1>5 DEF EndsWithJumpBack
<1>9. ASSUME Decodable
      PROVE  src' \in DOMAIN code \/ \E a \in DOMAIN code : code[a].op \in Ends /\ a < src'
  <2>1. src < src' /\ src' \in Nat
    BY <1>1, <1>2, <1>3
  <2>2. CASE src \notin DOMAIN code
    <3>1. PICK a \in DOMAIN code : code[a].op \in Ends /\ a < src
      BY <1>1, <1>9, <2>2 DEF InStep
    <3>2. a \in Nat
      BY <1>1, CodeType
    <3>3. a < src'
      BY <1>1, <2>1, <3>1, <3>2
    <3> QED BY <3>1, <3>3
  <2>3. CASE src \in DOMAIN code
    <3>1. src \in Header /\ i = code[src]
      BY <1>3, <1>4, <2>3 DEF Header
    <3>2. CASE i.op \in Ends
      BY <2>1, <2>3, <3>1, <3>2
    <3>3. CASE i.op \notin Ends
      <4>1. src' = src + i.len
        <5>1. i.op # "retImm"
          BY <3>3 DEF Ends
        <5>2. ~(i.op = "indirect" /\ x64)
          BY <1>9, <3>1 DEF Decodable
        <5> QED BY <1>2, <5>1, <5>2 DEF Decoded
      <4> QED BY <1>1, <2>3, <3>1, <3>3, <4>1, CodeType
    <3> QED BY <3>2, <3>3
  <2> QED BY <2>2, <2>3
<1>10. InStep'
  <2>1. Decodable' = Decodable
    BY <1>5 DEF Decodable, Header, SIZE_OF_JMP
  <2> QED BY <1>5, <1>9, <2>1 DEF InStep
<1>11. Fits'
  <2>1. dest <= base + 78 * src /\ base \in Int
    BY <1>1, <1>5, Numbers DEF Fits, dest, CopyTypes
  <2>2. EndOf(copy') \in Int
    BY <1>2, <2>1, EndType
  <2>3. EndOf(copy') <= base + 78 * src'
    BY <1>1, <1>2, <1>3, <2>1, <2>2
  <2> QED BY <1>5, <2>3 DEF Fits, EndOf
<1> QED BY <1>7, <1>8, <1>10, <1>11 DEF Written

\* So does the jump back.
LEMMA JumpBackWritten == Written /\ JumpBack => Written'
<1> SUFFICES ASSUME Written, JumpBack PROVE Written'
  OBVIOUS
<1>1. CopyTypes /\ InStep /\ Fits /\ EndsWithJumpBack
  BY DEF Written
<1>2. PICK p \in Pieces :
        /\ copy' \in Seq(Pieces) /\ Len(copy') = Len(copy) + 1 /\ copy'[Len(copy')] = p
        /\ copy \in Seq(Pieces)
        /\ p.means = src
        /\ Distant => /\ p.op = IF x64 THEN "jmpRet" ELSE "jmp32"
                      /\ Target(p, p.at) = src
        /\ Strip(copy', base)
  BY <1>1, JumpBackWrites
<1>3. /\ UNCHANGED <<x64, code, base, src, meant, cpu>> /\ phase' = "copied"
      /\ ~(src < SIZE_OF_JMP)
  BY DEF JumpBack, CopyMore
<1>4. CopyTypes'
  BY <1>1, <1>2, <1>3 DEF CopyTypes, cpu, Strip
<1>5. UNCHANGED <<Decodable, Distant, SIZE_OF_JMP>>
  BY <1>3 DEF Decodable, Header, SIZE_OF_JMP, Distant
<1>6. InStep'
  BY <1>1, <1>3, <1>5 DEF InStep
<1>7. copy' # <<>>
  BY <1>2
<1>8. SIZE_OF_JMP <= src
  BY <1>1, <1>3, SizeType DEF CopyTypes
<1>9. EndsWithJumpBack'
  BY <1>2, <1>3, <1>5, <1>7, <1>8 DEF EndsWithJumpBack, Target
<1> QED BY <1>3, <1>4, <1>6, <1>9 DEF Written, Fits

\* So does everything else.
LEMMA OtherWritten ==
  /\ Written /\ WriteRedirection => Written'
  /\ Written /\ ((\E n \in 1..Len(copy) : RunCopy(copy[n])) \/ RunOriginal) => Written'
  /\ Written /\ UNCHANGED copyVars => Written'
<1>1. ASSUME UNCHANGED <<x64, code, base, src, copy>>, Written,
             phase # "copying", phase' \in {"copied", "running", "failed"},
             pc' \in Int, flags' \in {"z", "nz"}, meant' \in {"z", "nz"}
      PROVE  Written'
  <2>1. UNCHANGED <<Decodable, Distant, SIZE_OF_JMP>>
    BY <1>1 DEF Decodable, Header, SIZE_OF_JMP, Distant
  <2>2. CopyTypes'
    BY <1>1 DEF Written, CopyTypes, Strip
  <2>3. InStep'
    BY <1>1, <2>1 DEF Written, InStep
  <2>4. EndsWithJumpBack'
    BY <1>1, <2>1 DEF Written, EndsWithJumpBack, Target
  <2>5. Fits'
    BY <1>1 DEF Written, Fits
  <2> QED BY <2>2, <2>3, <2>4, <2>5 DEF Written
<1>2. ASSUME Written, WriteRedirection PROVE Written'
  <2>1. base \in Int /\ pc \in Int
    BY <1>2, Numbers DEF Written, CopyTypes
  <2> QED BY <1>1, <1>2, <2>1 DEF WriteRedirection, Written, CopyTypes
<1>3. ASSUME Written, (\E n \in 1..Len(copy) : RunCopy(copy[n])) \/ RunOriginal
      PROVE  Written'
  BY <1>1, <1>3, RunsOn, RunTypes DEF Ran, Written
<1>4. ASSUME Written, UNCHANGED copyVars PROVE Written'
  BY <1>4 DEF copyVars, cpu, Written, CopyTypes, Strip, InStep, Fits, EndOf, EndsWithJumpBack,
     Decodable, Header, SIZE_OF_JMP, Distant, Target
<1> QED BY <1>2, <1>3, <1>4

\* Written is an inductive invariant.
LEMMA WrittenInvariant == CopySpec => []Written
<1>1. Written /\ [CopyNext]_copyVars => Written'
  BY CopyInstructionWritten, JumpBackWritten, OtherWritten DEF CopyNext
<1> QED BY <1>1, InitWritten, PTL DEF CopySpec

\* Written implies the type invariant.
LEMMA WrittenTypes == Written => CopyTypeOK
<1> SUFFICES ASSUME Written PROVE CopyTypeOK
  OBVIOUS
<1>1. Strip(copy, base) /\ copy \in Seq(Pieces)
  BY DEF Written, CopyTypes, Strip
<1>2. ASSUME NEW n \in 1..Len(copy)
      PROVE  copy[n].at = EndOf(SubSeq(copy, 1, n - 1))
  <2>1. CASE n = 1
    <3>1. SubSeq(copy, 1, n - 1) = <<>>
      BY <1>1, <2>1, SubSeqProperties
    <3> QED BY <1>1, <2>1, <3>1 DEF Strip, EndOf
  <2>2. CASE n # 1
    <3> DEFINE c == SubSeq(copy, 1, n - 1)
    <3>1. c \in Seq(Pieces) /\ Len(c) = n - 1 /\ c[n - 1] = copy[n - 1]
      <4>1. n - 1 \in 1..Len(copy) /\ n - 1 \in 1..(n - 1)
        BY <1>1, <2>2
      <4> QED BY <1>1, <4>1, SubSeqProperties
    <3> HIDE DEF c
    <3>2. c # <<>>
      BY <3>1, <2>2
    <3>3. EndOf(c) = copy[n - 1].at + copy[n - 1].len
      BY <3>1, <3>2 DEF EndOf
    <3> QED BY <1>1, <2>2, <3>3 DEF Strip, c
  <2> QED BY <2>1, <2>2
<1>3. \A n \in 1..Len(copy) : copy[n].op \in Short => copy[n].disp \in 0..255
  BY <1>1 DEF Strip
<1>4. /\ x64 \in BOOLEAN /\ base \in Pages
      /\ phase \in {"copying", "copied", "running", "failed"}
      /\ src \in 0..27 /\ pc \in Int
      /\ flags \in {"z", "nz"} /\ meant \in {"z", "nz"}
  BY DEF Written, CopyTypes
<1>5. src \in Nat
  BY <1>4
<1> QED BY <1>2, <1>3, <1>4, <1>5 DEF CopyTypeOK

(***************************************************************************)
(* For every function, every page for the copy and both platforms the variables*)
(* keep their types and the copy is a sequence of instructions of the processor,*)
(* the short ones with a displacement of one byte, whatever the handlers of*)
(* siinstrreloc32.h and siinstrreloc64.h write (generateFunctionHeaderCopy).*)
(***************************************************************************)
THEOREM CopyTypeCorrect == CopySpec => []CopyTypeOK
BY WrittenInvariant, WrittenTypes, PTL

(***************************************************************************)
(* For every function whose header can be decoded, the jump at the end of the*)
(* copy goes to an instruction of the function that writeRedirection leaves*)
(* alone, or to where control never gets (generateFunctionHeaderCopy: the  *)
(* copying loop ends on a boundary between two instructions).              *)
(***************************************************************************)
THEOREM BackCorrect == CopySpec => []BackToAnInstruction
<1>1. Written => BackToAnInstruction
  <2> SUFFICES ASSUME Written, phase \in {"copied", "running"}, Decodable, Distant
               PROVE  LET back == copy[Len(copy)] IN
                      /\ Target(back, back.at) \notin Overwritten
                      /\ \/ Target(back, back.at) \in DOMAIN code
                         \/ \E a \in DOMAIN code : /\ code[a].op \in Ends
                                                   /\ a < Target(back, back.at)
    BY DEF BackToAnInstruction
  <2>1. Target(copy[Len(copy)], copy[Len(copy)].at) = src /\ SIZE_OF_JMP <= src
    BY DEF Written, EndsWithJumpBack
  <2>2. src \notin Overwritten
    BY <2>1, SizeType DEF Written, CopyTypes, Overwritten
  <2>3. src \in DOMAIN code \/ \E a \in DOMAIN code : code[a].op \in Ends /\ a < src
    BY DEF Written, InStep
  <2> QED BY <2>1, <2>2, <2>3
<1> QED BY <1>1, WrittenInvariant, PTL

-----------------------------------------------------------------------------
(* The copy of a regular function. *)

\* A place where the header of a regular function is copied to.
Copying(d) ==
  /\ Regular /\ x64 \in BOOLEAN /\ code \in Codes /\ base \in Int
  /\ src \in Nat /\ src < SIZE_OF_JMP
  /\ d \in Int /\ base <= d /\ d <= base + 72

\* What copyNextOpcode decodes in the header of a regular function.
LEMMA HeaderInstruction ==
  ASSUME NEW d, Copying(d), NEW i \in At(src), src \in DOMAIN code
  PROVE  /\ src \in Header /\ i = code[src] /\ i.op \in Ops /\ i.op # "bytes"
         /\ i \in Instructions /\ i.len \in 1..15 /\ i.disp \in Int
         /\ Target(i, src) \in Int
         /\ x64 => i.op \notin Branches \ {"loop8"} /\ i.op # "indirect"
         /\ (x64 /\ i.op \in Relative) =>
              Target(i, src) - base \in (120 - Reach)..Reach
<1>1. src \in Header /\ i = code[src]
  BY DEF Copying, Header, At
<1>2. /\ i.op \in Ops /\ i.op # "bytes" /\ i \in Instructions
      /\ i.len \in 1..15 /\ i.disp \in Int
  <2>1. i \in [op : Ops, len : 1..15, disp : Int]
    BY <1>1, CodeAssumption DEF Copying, Header
  <2> QED BY <1>1, <2>1, CodeType DEF Copying, Instructions
<1>3. Target(i, src) \in Int
  BY <1>2, TargetType DEF Copying
<1> QED BY <1>1, <1>2, <1>3 DEF Copying, Regular, Decodable

\* On Win64 what a regular function's header refers to is in reach of its copy.
LEMMA InReach ==
  ASSUME NEW d, Copying(d), NEW to \in Int, x64,
         to - base \in (120 - Reach)..Reach, NEW len \in 1..15
  PROVE  /\ to - (d + len) \in -(Reach + 1)..Reach
         /\ ~(to - d > Reach \/ d - to > Reach)
BY Numbers DEF Copying

\* The three pieces for a loop stand for the loop, a skipped jump and a jump on.
LEMMA RegularLoop ==
  ASSUME NEW d, Copying(d), NEW i \in At(src), i.op = "loop8",
         NEW pieces \in Relocated(i, src, d)
  PROVE  \E p, q, r \in Pieces :
           /\ pieces = <<p, q, r>> /\ p.means = src
           /\ StandsForALoop(p, q, r)
           /\ SkipsAJump(q, r, src + Decoded(i))
           /\ JumpsOn(r)
           /\ r.at + r.len <= d + 9 * Decoded(i)
<1>1. src \in DOMAIN code
  BY DEF At
<1>2. /\ src \in Header /\ i = code[src] /\ i \in Instructions /\ i.len \in 1..15
      /\ Target(i, src) \in Int
      /\ (x64 /\ i.op \in Relative) => Target(i, src) - base \in (120 - Reach)..Reach
  BY <1>1, HeaderInstruction
<1>3. d \in Int /\ src \in Int /\ x64 \in BOOLEAN
  BY DEF Copying
<1>4. pieces \in LoopShort(i, src, d)
  BY DEF Relocated, Jcc
<1>5. PICK p, q, r \in Pieces :
        /\ pieces = <<p, q, r>>
        /\ p.op = "loop8" /\ p.at = d /\ p.len = 2 /\ p.disp = 2 /\ p.means = src
        /\ q.op = "jmp8" /\ q.at = d + 2 /\ q.len = 2 /\ q.disp = 5
        /\ q.means = src + i.len
        /\ r.op = "jmp32" /\ r.at = d + 4 /\ r.len = 5 /\ r.means = Target(i, src)
        /\ (x64 => Target(i, src) - (d + 9) \in -(Reach + 1)..Reach) =>
             Target(r, r.at) = Target(i, src)
  BY <1>2, <1>3, <1>4, LoopShortPieces
<1>6. x64 => Target(i, src) - (d + 9) \in -(Reach + 1)..Reach
  <2>1. i.op \in Relative /\ 9 \in 1..15
    BY DEF Relative, Branches, Short
  <2> QED BY <1>2, <2>1, InReach
<1>7. Decoded(i) = i.len
  BY DEF Decoded
<1>8. Target(i, src) \in Targets
  <2>1. i.op \in Branches
    BY DEF Branches, Short
  <2> QED BY <1>1, <1>2, <2>1 DEF Targets, TargetsOf
<1>9. JumpsOn(r)
  BY <1>5, <1>6, <1>8 DEF JumpsOn
<1>10. StandsForALoop(p, q, r)
  <2>1. Target(p, p.at) = d + 4
    BY <1>3, <1>5 DEF Target, Signed, Short
  <2> QED BY <1>2, <1>5, <2>1 DEF StandsForALoop
<1>11. SkipsAJump(q, r, src + Decoded(i))
  <2>1. Target(q, q.at) = d + 9 /\ r.at + r.len = d + 9
    BY <1>3, <1>5 DEF Target, Signed, Short
  <2>2. src + i.len \in DOMAIN code
    BY <1>1, <1>2, CodeType DEF Ends, Copying
  <2> QED BY <1>5, <1>7, <2>1, <2>2 DEF SkipsAJump
<1>12. r.at + r.len <= d + 9 * Decoded(i)
  BY <1>2, <1>3, <1>5, <1>7
<1> QED BY <1>5, <1>9, <1>10, <1>11, <1>12

\* What one piece for the instruction at src stands for when decoding goes on
\* at t.
StandsAlone(p, t) ==
  \/ StandsForTheSame(p, t)
  \/ StandsForAJump(p, t)
  \/ StandsForARet(p) /\ t < SIZE_OF_JMP /\ t \notin DOMAIN code
  \/ IsNoInstruction(p)

\* A piece written for an instruction of the header refers to the same place.
LEMMA RegularNear ==
  ASSUME NEW d, Copying(d), NEW i \in At(src), src \in DOMAIN code,
         NEW op \in NearOps, NEW len \in 1..15,
         (x64 => i.op \in Relative)
  PROVE  LET p == Near(op, d, len, Target(i, src), src) IN
         /\ p \in Pieces /\ p.op = op /\ p.at = d /\ p.len = len /\ p.means = src
         /\ Target(p, p.at) = Target(code[src], src)
<1> DEFINE to == Target(i, src)
<1>1. /\ to \in Int /\ i = code[src]
      /\ (x64 /\ i.op \in Relative) => to - base \in (120 - Reach)..Reach
  BY HeaderInstruction
<1>2. d \in Int /\ src \in Int /\ x64 \in BOOLEAN /\ len \in 1..26
  BY DEF Copying
<1>3. to = Target(code[src], src)
  BY <1>1
<1> HIDE DEF to
<1>4. x64 => to - (d + len) \in -(Reach + 1)..Reach
  BY <1>1, InReach
<1>5. Target(Near(op, d, len, to, src), d) = to
  BY <1>1, <1>2, <1>4, NearTarget
<1>6. /\ Near(op, d, len, to, src) \in Pieces
      /\ Near(op, d, len, to, src).op = op
      /\ Near(op, d, len, to, src).at = d
      /\ Near(op, d, len, to, src).len = len
      /\ Near(op, d, len, to, src).means = src
  BY <1>1, <1>2, NearPiece
<1>7. LET p == Near(op, d, len, to, src) IN
      /\ p \in Pieces /\ p.op = op /\ p.at = d /\ p.len = len /\ p.means = src
      /\ Target(p, p.at) = Target(code[src], src)
  BY <1>3, <1>5, <1>6
<1> QED BY <1>7 DEF to

\* Every other instruction of the header gets one piece, which stands for it.
LEMMA RegularOne ==
  ASSUME NEW d, Copying(d), NEW i \in At(src), i.op # "loop8",
         NEW pieces \in Relocated(i, src, d)
  PROVE  \E p \in Pieces :
           /\ pieces = <<p>> /\ p.means = src /\ p.at = d
           /\ p.len <= 9 * Decoded(i)
           /\ src \notin DOMAIN code => p.op = "bytes"
           /\ StandsAlone(p, src + Decoded(i))
<1> DEFINE Goal(p) == /\ pieces = <<p>> /\ p.means = src /\ p.at = d
                      /\ p.len <= 9 * Decoded(i)
                      /\ src \notin DOMAIN code => p.op = "bytes"
                      /\ StandsAlone(p, src + Decoded(i))
<1>0. d \in Int /\ src \in Nat /\ x64 \in BOOLEAN /\ code \in Codes
  BY DEF Copying
<1>1. CASE src \notin DOMAIN code
  <2>1. i.op = "bytes" /\ i.len \in 1..2 /\ i.disp = 0
    BY <1>1 DEF At
  <2> DEFINE p == Piece("bytes", d, i.len, i.disp, src)
  <2>2. pieces = <<p>>
    BY <2>1 DEF Relocated, Copied, Jcc
  <2>3. p \in Pieces
    BY <1>0, <2>1, PieceType
  <2>4. p.op = "bytes" /\ p.means = src /\ p.at = d /\ p.len = i.len
    BY <2>1 DEF Piece
  <2>5. Decoded(i) = i.len
    BY <2>1 DEF Decoded
  <2> HIDE DEF p
  <2>6. p.len <= 9 * Decoded(i)
    BY <2>1, <2>4, <2>5
  <2>7. StandsAlone(p, src + Decoded(i))
    BY <1>1, <2>4 DEF StandsAlone, IsNoInstruction
  <2> QED BY <2>2, <2>3, <2>4, <2>6, <2>7
<1>2. CASE src \in DOMAIN code
  <2>1. /\ src \in Header /\ i = code[src] /\ i.op \in Ops /\ i.op # "bytes"
        /\ i.len \in 1..15 /\ i.disp \in Int
        /\ x64 => i.op \notin Branches \ {"loop8"} /\ i.op # "indirect"
    BY <1>2, HeaderInstruction
  <2>2. i.op # "retImm" => Decoded(i) = i.len
    BY <2>1 DEF Decoded
  <2>3. Decoded(i) \in 1..19
    BY <1>0, DecodedType
  <2>4. CASE i.op \in {"jmp8", "jmp32"}
    <3>1. ~x64
      BY <2>1, <2>4 DEF Branches, Short
    <3> DEFINE p == Near("jmp32", d, 5, Target(i, src), src)
    <3>2. pieces = <<p>>
      <4>1. pieces \in Jump(i, src, d)
        BY <2>4 DEF Relocated, Jcc
      <4>2. JumpTargets(i, src) = {Target(i, src)}
        BY <3>1 DEF JumpTargets
      <4>3. pieces = WriteJump(d, Target(i, src), src)
        BY <4>1, <4>2 DEF Jump
      <4> QED BY <3>1, <4>3 DEF WriteJump
    <3>3. /\ p \in Pieces /\ p.op = "jmp32" /\ p.at = d /\ p.len = 5 /\ p.means = src
          /\ Target(p, p.at) = Target(code[src], src)
      <4> "jmp32" \in NearOps /\ 5 \in 1..15
        BY NearArguments
      <4> QED BY <1>2, <3>1, RegularNear
    <3> HIDE DEF p
    <3>4. StandsForAJump(p, src + Decoded(i))
      BY <2>1, <2>2, <2>4, <3>1, <3>3 DEF StandsForAJump
    <3> QED BY <1>2, <2>3, <3>2, <3>3, <3>4 DEF StandsAlone
  <2>5. CASE i.op \in Jcc
    <3>1. ~x64
      BY <2>1, <2>5 DEF Branches, Short, Jcc
    <3> DEFINE p == Near("jcc32", d, 6, Target(i, src), src)
    <3>2. pieces = <<p>>
      BY <2>5, <3>1 DEF Relocated, JumpCond, JumpTargets, Jcc
    <3>3. /\ p \in Pieces /\ p.op = "jcc32" /\ p.at = d /\ p.len = 6 /\ p.means = src
          /\ Target(p, p.at) = Target(code[src], src)
      <4> "jcc32" \in NearOps /\ 6 \in 1..15
        BY NearArguments
      <4> QED BY <1>2, <3>1, RegularNear
    <3> HIDE DEF p
    <3>4. StandsForAJump(p, src + Decoded(i))
      <4>1. i.op # "retImm"
        BY <2>5 DEF Jcc
      <4> QED BY <2>1, <2>2, <2>5, <3>1, <3>3, <4>1 DEF StandsForAJump
    <3> QED BY <1>2, <2>3, <3>2, <3>3, <3>4 DEF StandsAlone
  <2>6. CASE i.op = "call"
    <3>1. i.op \in Relative
      BY <2>6 DEF Relative
    <3> DEFINE p == Near("call", d, 5, Target(i, src), src)
    <3>2. ~(x64 /\ (Target(i, src) - d > Reach \/ d - Target(i, src) > Reach))
      <4>1. Target(i, src) \in Int /\ (x64 => Target(i, src) - base \in (120 - Reach)..Reach)
        BY <1>2, <3>1, HeaderInstruction
      <4> QED BY <4>1, InReach
    <3>3. pieces = <<p>>
      BY <2>6, <3>2 DEF Relocated, CallNear, Jcc
    <3>4. /\ p \in Pieces /\ p.op = "call" /\ p.at = d /\ p.len = 5 /\ p.means = src
          /\ Target(p, p.at) = Target(code[src], src)
      <4> "call" \in NearOps /\ 5 \in 1..15
        BY NearArguments
      <4> QED BY <1>2, <3>1, RegularNear
    <3> HIDE DEF p
    <3>5. StandsForTheSame(p, src + Decoded(i))
      BY <2>1, <2>2, <2>6, <3>4 DEF StandsForTheSame
    <3> QED BY <1>2, <2>3, <3>3, <3>4, <3>5 DEF StandsAlone
  <2>7. CASE i.op = "rip"
    <3>1. i.op \in Relative
      BY <2>7 DEF Relative
    <3> DEFINE p == Near("rip", d, i.len, Target(i, src), src)
    <3>2. pieces = <<p>>
      BY <2>7 DEF Relocated, RIP, Jcc
    <3>3. /\ p \in Pieces /\ p.op = "rip" /\ p.at = d /\ p.len = i.len /\ p.means = src
          /\ Target(p, p.at) = Target(code[src], src)
      <4> "rip" \in NearOps /\ i.len \in 1..15
        BY <2>1, NearArguments
      <4> QED BY <1>2, <3>1, RegularNear
    <3> HIDE DEF p
    <3>4. StandsForTheSame(p, src + Decoded(i))
      BY <2>1, <2>2, <2>7, <3>3 DEF StandsForTheSame
    <3>5. p.len <= 9 * Decoded(i)
      BY <2>1, <2>2, <2>7, <3>3
    <3> QED BY <1>2, <3>2, <3>3, <3>4, <3>5 DEF StandsAlone
  <2>8. CASE i.op \in {"plain", "cmp", "ret", "indirect", "retImm"}
    <3> DEFINE len == IF i.op = "retImm" THEN 2 ELSE i.len
               p == Piece(i.op, d, len, i.disp, src)
    <3>1. ~(x64 /\ i.op = "indirect")
      BY <2>1
    <3>2. pieces = <<p>>
      BY <2>8, <3>1 DEF Relocated, Copied, Jcc
    <3>3. len \in 1..15 /\ len \in 1..26
      BY <2>1
    <3>4. p \in Pieces /\ p.op = i.op /\ p.at = d /\ p.len = len /\ p.means = src
      <4>1. p.op = i.op /\ p.at = d /\ p.len = len /\ p.means = src
        BY DEF Piece
      <4> HIDE DEF len
      <4>2. p \in Pieces
        BY <1>0, <2>1, <3>3, PieceType
      <4> QED BY <4>1, <4>2
    <3>5. len = Decoded(i)
      BY <2>2 DEF Decoded
    <3> HIDE DEF p, len
    <3>6. p.len <= 9 * Decoded(i)
      BY <3>3, <3>4, <3>5
    <3>7. StandsAlone(p, src + Decoded(i))
      <4>1. CASE i.op # "retImm"
        <5>1. StandsForTheSame(p, src + Decoded(i))
          BY <2>1, <2>2, <2>8, <3>4, <4>1 DEF StandsForTheSame
        <5> QED BY <5>1 DEF StandsAlone
      <4>2. CASE i.op = "retImm"
        <5>1. Decoded(i) = 2 /\ i.len = 3
          BY <1>0, <1>2, <2>1, <4>2, CodeType DEF Decoded
        <5>2. src + 2 < SIZE_OF_JMP
          BY <2>1, <4>2 DEF Copying, Regular, Decodable
        <5>3. src + 2 \notin DOMAIN code
          <6>1. \A b \in DOMAIN code : src < b => src + 3 <= b
            BY <1>0, <1>2, <2>1, <5>1, CodeAssumption
          <6>2. src < src + 2 /\ ~(src + 3 <= src + 2)
            BY <1>0
          <6> QED BY <6>1, <6>2
        <5>4. StandsForARet(p)
          BY <2>1, <3>4, <4>2 DEF StandsForARet
        <5> QED BY <5>1, <5>2, <5>3, <5>4 DEF StandsAlone
      <4> QED BY <4>1, <4>2
    <3> QED BY <1>2, <3>2, <3>4, <3>6, <3>7
  <2> QED BY <2>1, <2>4, <2>5, <2>6, <2>7, <2>8 DEF Ops, Relative, Branches, Short, Jcc
<1> QED BY <1>1, <1>2

\* Pieces keep standing for what they do when more is written behind them: the
\* rest of a ret's operand first, when there is one.
LEMMA KeepsStanding ==
  ASSUME NEW c \in Seq(Pieces), NEW p \in Seq(Pieces), p # <<>>,
         NEW s, NEW t, p[1].means = s,
         NEW l \in Nat, Len(c) <= l,
         (s < SIZE_OF_JMP /\ s \notin DOMAIN code) =>
           p[1].op = "bytes" /\ Len(c) + 1 <= l,
         NEW n \in 1..Len(c), Stands(c, s, Len(c), n)
  PROVE  Stands(c \o p, t, l, n)
<1> DEFINE e == c \o p
           k == Len(c)
<1>1. k \in Nat /\ Len(p) \in Nat /\ 1 <= Len(p)
  OBVIOUS
<1>2. /\ Len(e) = k + Len(p)
      /\ \A m \in 1..k : e[m] = c[m]
      /\ e[k + 1] = p[1]
  BY <1>1, Appended
<1> SUFFICES Stands(e, t, l, n)
  OBVIOUS
<1> HIDE DEF e, k
<1>3. ASSUME NEW m \in 1..k PROVE After(e, t, m) = After(c, s, m)
  <2>1. CASE m < k
    <3>1. m + 1 \in 1..k /\ m < Len(e)
      BY <1>1, <1>2, <2>1
    <3> QED BY <1>2, <2>1, <3>1 DEF After, k
  <2>2. CASE m = k
    <3>1. m < Len(e) /\ ~(m < k)
      BY <1>1, <1>2, <2>2
    <3> QED BY <1>2, <2>2, <3>1 DEF After, k
  <2> QED BY <1>1, <2>1, <2>2
<1>4. n \in 1..k /\ k <= l
  BY DEF k
<1>5. e[n] = c[n] /\ After(e, t, n) = After(c, s, n)
  BY <1>2, <1>3, <1>4
<1>6. CASE StandsForTheSame(c[n], After(c, s, n))
  BY <1>5, <1>6 DEF Stands
<1>7. CASE StandsForAJump(c[n], After(c, s, n))
  BY <1>5, <1>7 DEF Stands
<1>8. CASE StandsForARet(c[n]) /\ RestOfRet(c, s, k, n)
  <2>1. RestOfRet(e, t, l, n)
    <3>1. CASE n < k /\ c[n + 1].op = "bytes"
      <4>1. n + 1 \in 1..k /\ n < l
        BY <1>1, <1>4, <3>1
      <4> QED BY <1>2, <3>1, <4>1 DEF RestOfRet
    <3>2. CASE n = k /\ s < SIZE_OF_JMP /\ s \notin DOMAIN code
      <4>1. p[1].op = "bytes" /\ k + 1 <= l
        BY <3>2 DEF k
      <4>2. n < l
        BY <1>1, <3>2, <4>1
      <4> QED BY <1>2, <3>2, <4>1, <4>2 DEF RestOfRet
    <3> QED BY <1>8, <3>1, <3>2 DEF RestOfRet, k
  <2> QED BY <1>5, <1>8, <2>1 DEF Stands
<1>9. CASE n + 2 <= k /\ StandsForALoop(c[n], c[n + 1], c[n + 2])
  <2>1. n + 1 \in 1..k /\ n + 2 \in 1..k /\ n + 2 <= l
    BY <1>1, <1>4, <1>9
  <2>2. e[n + 1] = c[n + 1] /\ e[n + 2] = c[n + 2]
    BY <1>2, <2>1
  <2> QED BY <1>5, <1>9, <2>1, <2>2 DEF Stands
<1>10. CASE n + 1 <= k /\ SkipsAJump(c[n], c[n + 1], After(c, s, n + 1))
  <2>1. n + 1 \in 1..k /\ n + 1 <= l
    BY <1>1, <1>4, <1>10
  <2>2. e[n + 1] = c[n + 1] /\ After(e, t, n + 1) = After(c, s, n + 1)
    BY <1>2, <1>3, <2>1
  <2> QED BY <1>5, <1>10, <2>1, <2>2 DEF Stands
<1>11. CASE JumpsOn(c[n])
  BY <1>5, <1>11 DEF Stands
<1>12. CASE IsNoInstruction(c[n])
  BY <1>5, <1>12 DEF Stands
<1> QED BY <1>6, <1>7, <1>8, <1>9, <1>10, <1>11, <1>12 DEF Stands, k

\* One piece that stands for its instruction, behind those written before.
LEMMA OneStands ==
  ASSUME NEW c \in Seq(Pieces), NEW p \in Pieces, NEW t, StandsAlone(p, t)
  PROVE  LET e == c \o <<p>> IN Stands(e, t, Len(e), Len(e))
<1> DEFINE e == c \o <<p>>
<1>1. Len(e) = Len(c) + 1 /\ e[Len(c) + 1] = p /\ Len(c) \in Nat
  <2>1. <<p>> \in Seq(Pieces) /\ Len(<<p>>) = 1 /\ <<p>>[1] = p
    OBVIOUS
  <2> QED BY <2>1, Appended
<1> HIDE DEF e
<1>2. After(e, t, Len(e)) = t /\ e[Len(e)] = p
  BY <1>1 DEF After
<1>3. Stands(e, t, Len(e), Len(e))
  BY <1>2 DEF StandsAlone, Stands, RestOfRet
<1> QED BY <1>3 DEF e

\* The three pieces of a loop, behind those written before.
LEMMA LoopStands ==
  ASSUME NEW c \in Seq(Pieces), NEW p \in Pieces, NEW q \in Pieces, NEW r \in Pieces,
         NEW t, StandsForALoop(p, q, r), SkipsAJump(q, r, t), JumpsOn(r),
         NEW n \in (Len(c) + 1)..Len(c \o <<p, q, r>>)
  PROVE  Stands(c \o <<p, q, r>>, t, Len(c \o <<p, q, r>>), n)
<1> DEFINE e == c \o <<p, q, r>>
           k == Len(c)
<1>1. /\ Len(e) = k + 3 /\ k \in Nat
      /\ e[k + 1] = p /\ e[k + 2] = q /\ e[k + 3] = r
  <2> DEFINE w == <<p, q, r>>
  <2>a. w \in Seq(Pieces)
    OBVIOUS
  <2>1. Len(w) = 3 /\ w[1] = p /\ w[2] = q /\ w[3] = r
    OBVIOUS
  <2> HIDE DEF w
  <2>2. /\ Len(c \o w) = k + 3
        /\ (c \o w)[k + 1] = w[1] /\ (c \o w)[k + 2] = w[2] /\ (c \o w)[k + 3] = w[3]
    <3>1. /\ Len(c \o w) = k + Len(w)
          /\ \A m \in 1..Len(w) : (c \o w)[k + m] = w[m]
      BY <2>a, Appended
    <3>2. 1 \in 1..3 /\ 2 \in 1..3 /\ 3 \in 1..3
      OBVIOUS
    <3> QED BY <2>1, <3>1, <3>2
  <2> QED BY <2>1, <2>2 DEF w
<1>2. n \in (k + 1)..(k + 3)
  BY <1>1
<1> HIDE DEF e, k
<1>3. CASE n = k + 1
  <2>1. n + 1 = k + 2 /\ n + 2 = k + 3 /\ n + 2 <= Len(e)
    BY <1>1, <1>3
  <2> QED BY <1>1, <1>3, <2>1 DEF Stands, e
<1>4. CASE n = k + 2
  <2>1. n + 1 = k + 3 /\ n + 1 <= Len(e) /\ ~(n + 1 < Len(e))
    BY <1>1, <1>4
  <2>2. After(e, t, n + 1) = t
    BY <2>1 DEF After
  <2> QED BY <1>1, <1>4, <2>1, <2>2 DEF Stands, e
<1>5. CASE n = k + 3
  BY <1>1, <1>5 DEF Stands, e
<1> QED BY <1>1, <1>2, <1>3, <1>4, <1>5

\* What a function is to be used for does not change.
LEMMA Constants ==
  ASSUME UNCHANGED <<x64, code, base>>
  PROVE  /\ UNCHANGED <<SIZE_OF_JMP, Header, Targets, Decodable, Distant, Regular>>
         /\ UNCHANGED <<Places, Reached>>
<1>1. SIZE_OF_JMP' = SIZE_OF_JMP
  BY DEF SIZE_OF_JMP
<1>2. Header' = Header /\ Targets' = Targets
  BY <1>1 DEF Header, Targets
<1>3. Decodable' = Decodable /\ Distant' = Distant
  BY <1>1, <1>2 DEF Decodable, Distant
<1>4. Regular' = Regular
  BY <1>1, <1>2, <1>3 DEF Regular
<1>5. Places' = Places /\ Reached' = Reached
  BY <1>2 DEF Places, Reached
<1> QED BY <1>1, <1>2, <1>3, <1>4, <1>5

\* A piece of the copy stands in the next state for what it was written to stand for.
LEMMA StandsNext ==
  ASSUME UNCHANGED <<x64, code, base>>, NEW l, NEW n, Stands(copy', src', l, n)
  PROVE  Stands(copy, src, l, n)'
<1>1. UNCHANGED <<SIZE_OF_JMP, Header, Targets>>
  BY Constants
<1> QED BY <1>1 DEF Stands, StandsForTheSame, StandsForAJump, StandsForARet, RestOfRet,
           StandsForALoop, SkipsAJump, JumpsOn, IsNoInstruction, After, Target

\* An empty copy is faithful.
LEMMA InitFaithful == CopyInit => Faithful
<1> SUFFICES ASSUME CopyInit PROVE Faithful
  OBVIOUS
<1>1. copy = <<>> /\ src = 0 /\ phase = "copying" /\ Len(<<>>) = 0
  BY DEF CopyInit
<1>2. base \in Int
  BY Numbers DEF CopyInit
<1>3. EndOf(copy) <= base + 9 * src
  BY <1>1, <1>2 DEF EndOf
<1>4. After(copy, src, 0) = 0
  BY <1>1 DEF After
<1> QED BY <1>1, <1>3, <1>4 DEF Faithful

\* The first piece stands for the first instruction.
LEMMA FirstPiece ==
  ASSUME NEW c \in Seq(Pieces), NEW p \in Seq(Pieces), p # <<>>,
         NEW s, NEW t, p[1].means = s, After(c, s, 0) = 0
  PROVE  After(c \o p, t, 0) = 0
<1>1. /\ Len(c \o p) = Len(c) + Len(p) /\ Len(c) \in Nat /\ Len(p) \in Nat
      /\ 1 <= Len(p)
      /\ \A n \in 1..Len(c) : (c \o p)[n] = c[n]
      /\ \A n \in 1..Len(p) : (c \o p)[Len(c) + n] = p[n]
  BY Appended
<1>2. 0 < Len(c \o p)
  BY <1>1
<1>3. (c \o p)[1].means = 0
  <2>1. CASE Len(c) = 0
    BY <1>1, <2>1 DEF After
  <2>2. CASE 0 < Len(c)
    BY <1>1, <2>2 DEF After
  <2> QED BY <1>1, <2>1, <2>2
<1> QED BY <1>2, <1>3 DEF After

\* One turn of the copying loop keeps the copy of a regular function faithful.
LEMMA CopyInstructionFaithful == Written /\ Faithful /\ CopyInstruction => Faithful'
<1> SUFFICES ASSUME Written, Faithful, CopyInstruction, Regular PROVE Faithful'
  <2>1. CopyInstruction => Regular' = Regular
    BY Constants DEF CopyInstruction
  <2>2. ~Regular' => Faithful'
    BY DEF Faithful
  <2> QED BY <2>1, <2>2
<1>1. /\ CopyTypes /\ src \in 0..27 /\ src \in Nat /\ code \in Codes /\ x64 \in BOOLEAN
      /\ base \in Int /\ copy \in Seq(Pieces) /\ Strip(copy, base)
  BY Numbers DEF Written, CopyTypes, Strip
<1>2. PICK i \in At(src) : \E pieces \in Relocated(i, src, dest) :
        /\ Writes(pieces, src, dest)
        /\ copy' = copy \o pieces /\ src' = src + Decoded(i)
        /\ EndOf(copy') = pieces[Len(pieces)].at + pieces[Len(pieces)].len
  BY <1>1, CopyInstructionWrites
<1>3. PICK pieces \in Relocated(i, src, dest) :
        /\ Writes(pieces, src, dest)
        /\ copy' = copy \o pieces /\ src' = src + Decoded(i)
        /\ EndOf(copy') = pieces[Len(pieces)].at + pieces[Len(pieces)].len
  BY <1>2
<1>4. /\ pieces \in Seq(Pieces) /\ pieces # <<>> /\ pieces[1].means = src
      /\ Len(pieces) \in Nat /\ 1 <= Len(pieces) /\ Len(copy) \in Nat
  BY <1>1, <1>3 DEF Writes, Strip
<1>5. /\ phase = "copying" /\ phase' = "copying" /\ src < SIZE_OF_JMP
      /\ UNCHANGED <<x64, code, base>> /\ SIZE_OF_JMP \in {5, 9}
  BY SizeType DEF CopyInstruction, CopyMore
<1>6. /\ dest \in Int /\ base <= dest /\ dest <= base + 9 * src
      /\ After(copy, src, 0) = 0
      /\ \A n \in 1..Len(copy) : Stands(copy, src, Len(copy), n)
  BY <1>1, <1>5, EndType DEF Faithful, dest
<1>7. Copying(dest)
  <2>1. 9 * src <= 72
    BY <1>1, <1>5
  <2>2. dest <= base + 72
    BY <1>1, <1>6, <2>1
  <2> QED BY <1>1, <1>5, <1>6, <2>2 DEF Copying
<1>8. Decoded(i) \in 1..19
  BY <1>1, DecodedType
<1>9. Len(copy') = Len(copy) + Len(pieces) /\ copy' \in Seq(Pieces)
  BY <1>1, <1>3, <1>4, Appended
<1>10. /\ EndOf(copy') <= dest + 9 * Decoded(i)
       /\ src \notin DOMAIN code => pieces[1].op = "bytes"
       /\ \A n \in (Len(copy) + 1)..Len(copy') : Stands(copy', src', Len(copy'), n)
  <2>1. CASE i.op = "loop8"
    <3>1. PICK p, q, r \in Pieces :
            /\ pieces = <<p, q, r>> /\ p.means = src
            /\ StandsForALoop(p, q, r)
            /\ SkipsAJump(q, r, src + Decoded(i))
            /\ JumpsOn(r)
            /\ r.at + r.len <= dest + 9 * Decoded(i)
      BY <1>7, <2>1, RegularLoop
    <3>2. pieces[Len(pieces)] = r
      BY <3>1
    <3>3. src \in DOMAIN code
      BY <2>1 DEF At
    <3>4. \A n \in (Len(copy) + 1)..Len(copy') : Stands(copy', src', Len(copy'), n)
      BY <1>1, <1>3, <3>1, LoopStands
    <3> QED BY <1>3, <3>1, <3>2, <3>3, <3>4
  <2>2. CASE i.op # "loop8"
    <3>1. PICK p \in Pieces :
            /\ pieces = <<p>> /\ p.means = src /\ p.at = dest
            /\ p.len <= 9 * Decoded(i)
            /\ src \notin DOMAIN code => p.op = "bytes"
            /\ StandsAlone(p, src + Decoded(i))
      BY <1>7, <2>2, RegularOne
    <3>2. pieces[Len(pieces)] = p /\ pieces[1] = p /\ Len(pieces) = 1
      BY <3>1
    <3>3. Stands(copy', src', Len(copy'), Len(copy'))
      BY <1>1, <1>3, <3>1, OneStands
    <3>4. EndOf(copy') <= dest + 9 * Decoded(i)
      <4>1. EndOf(copy') = dest + p.len /\ p.len \in Nat
        BY <1>3, <3>1, <3>2, PieceFields
      <4>2. dest \in Int
        BY <1>6
      <4>3. p.len <= 9 * Decoded(i)
        BY <3>1
      <4>4. 9 * Decoded(i) \in Nat
        BY <1>8
      <4> QED BY <4>1, <4>2, <4>3, <4>4
    <3>5. \A n \in (Len(copy) + 1)..Len(copy') : n = Len(copy')
      BY <1>4, <1>9, <3>2
    <3> QED BY <3>1, <3>2, <3>3, <3>4, <3>5
  <2> QED BY <2>1, <2>2
<1>11. EndOf(copy') <= base + 9 * src'
  <2>1. EndOf(copy') \in Int
    <3>1. pieces[Len(pieces)] \in Pieces
      BY <1>4
    <3> QED BY <1>3, <3>1, PieceFields
  <2>2. 9 * src' = 9 * src + 9 * Decoded(i)
    <3>1. src' = src + Decoded(i)
      BY <1>3
    <3>2. src \in Int /\ Decoded(i) \in Int
      BY <1>1, <1>8
    <3>3. ASSUME NEW x \in Int, NEW y \in Int PROVE 9 * (x + y) = 9 * x + 9 * y
      OBVIOUS
    <3> QED BY <3>1, <3>2, <3>3
  <2>3. EndOf(copy') <= dest + 9 * Decoded(i) /\ dest <= base + 9 * src
    BY <1>6, <1>10
  <2>4. dest \in Int
    BY <1>6
  <2>5. base \in Int /\ 9 * src \in Int
    BY <1>1
  <2>6. 9 * Decoded(i) \in Int
    BY <1>8
  <2> QED BY <2>1, <2>2, <2>3, <2>4, <2>5, <2>6
<1>12. After(copy', src', 0) = 0
  BY <1>1, <1>3, <1>4, <1>6, FirstPiece
<1>13. ASSUME NEW n \in 1..Len(copy') PROVE Stands(copy', src', Len(copy'), n)
  <2>1. CASE n <= Len(copy)
    <3>1. n \in 1..Len(copy)
      BY <2>1
    <3>2. Len(copy') \in Nat /\ Len(copy) <= Len(copy') /\ Len(copy) + 1 <= Len(copy')
      BY <1>4, <1>9
    <3> QED BY <1>1, <1>3, <1>4, <1>6, <1>10, <3>1, <3>2, KeepsStanding
  <2>2. CASE Len(copy) < n
    <3>1. n \in (Len(copy) + 1)..Len(copy')
      BY <1>4, <1>9, <2>2
    <3> QED BY <1>10, <3>1
  <2> QED BY <1>4, <1>9, <2>1, <2>2
<1>14. ASSUME NEW n \in 1..Len(copy') PROVE Stands(copy, src, Len(copy), n)'
  BY <1>5, <1>13, StandsNext
<1>15. EndOf(copy)' <= base' + 9 * src' /\ After(copy, src, 0)' = 0
  BY <1>5, <1>11, <1>12 DEF EndOf, After
<1> QED BY <1>5, <1>14, <1>15 DEF Faithful

\* So does the jump back.
LEMMA JumpBackFaithful == Written /\ Faithful /\ JumpBack => Faithful'
<1> SUFFICES ASSUME Written, Faithful, JumpBack, Regular PROVE Faithful'
  <2>1. JumpBack => Regular' = Regular
    BY Constants DEF JumpBack
  <2>2. ~Regular' => Faithful'
    BY DEF Faithful
  <2> QED BY <2>1, <2>2
<1>1. /\ CopyTypes /\ Fits /\ src \in 0..27 /\ base \in Int /\ copy \in Seq(Pieces)
      /\ Strip(copy, base) /\ Len(copy) \in Nat
  <2>1. CopyTypes /\ src \in 0..27 /\ base \in Int /\ Strip(copy, base)
    BY Numbers DEF Written, CopyTypes
  <2>2. copy \in Seq(Pieces)
    BY <2>1 DEF Strip
  <2> QED BY <2>1, <2>2 DEF Written
<1>2. PICK p \in Pieces :
        /\ copy' = copy \o <<p>> /\ Len(copy') = Len(copy) + 1
        /\ p.means = src /\ EndOf(copy') = dest + p.len
  BY <1>1, JumpBackWrites
<1>3. /\ phase = "copying" /\ phase' = "copied" /\ ~(src < SIZE_OF_JMP)
      /\ UNCHANGED <<x64, code, base, src>>
  BY DEF JumpBack, CopyMore
<1>4. /\ dest \in Int /\ base <= dest /\ dest <= base + 9 * src
      /\ After(copy, src, 0) = 0
      /\ \A n \in 1..Len(copy) : Stands(copy, src, Len(copy), n)
  BY <1>1, <1>3, EndType DEF Faithful, dest
<1>5. p.len \in 1..26
  BY PieceFields
<1>6. EndOf(copy') <= base + 300
  <2>1. dest \in Int /\ dest <= base + 9 * src /\ EndOf(copy') = dest + p.len
    BY <1>2, <1>4
  <2>2. base \in Int /\ src \in 0..27
    BY <1>1
  <2> QED BY <1>5, <2>1, <2>2
<1>7. <<p>> \in Seq(Pieces) /\ <<p>> # <<>> /\ <<p>>[1] = p
  OBVIOUS
<1>8. After(copy', src', 0) = 0
  BY <1>1, <1>2, <1>4, <1>7, FirstPiece
<1>9. ASSUME NEW n \in 1..Len(copy) PROVE Stands(copy', src', Len(copy), n)
  <2>1. Len(copy) <= Len(copy)
    BY <1>1
  <2>2. Stands(copy, src, Len(copy), n)
    BY <1>4
  <2> QED BY <1>1, <1>2, <1>3, <1>7, <2>1, <2>2, KeepsStanding
<1>10. Len(copy') - 1 = Len(copy)
  BY <1>1, <1>2
<1>11. ASSUME NEW n \in 1..(Len(copy') - 1) PROVE Stands(copy, src, Len(copy) - 1, n)'
  BY <1>3, <1>9, <1>10, StandsNext
<1>12. EndOf(copy)' <= base' + 300 /\ After(copy, src, 0)' = 0
  BY <1>3, <1>6, <1>8 DEF EndOf, After
<1> QED BY <1>3, <1>11, <1>12 DEF Faithful

\* So does everything else.
LEMMA OtherFaithful ==
  /\ Written /\ Faithful /\ WriteRedirection => Faithful'
  /\ /\ Written /\ Faithful
     /\ (\E n \in 1..Len(copy) : RunCopy(copy[n])) \/ RunOriginal
     => Faithful'
  /\ Written /\ Faithful /\ UNCHANGED copyVars => Faithful'
<1>1. ASSUME UNCHANGED <<x64, code, base, src, copy>>, Faithful,
             (phase = "copying") = (phase' = "copying")
      PROVE  Faithful'
  <2>1. UNCHANGED <<SIZE_OF_JMP, Header, Targets, Regular>>
    BY <1>1, Constants
  <2> DEFINE l == IF phase = "copying" THEN Len(copy) ELSE Len(copy) - 1
  <2>2. ASSUME Regular, NEW n \in 1..l PROVE Stands(copy, src, l, n)'
    <3>1. Stands(copy, src, l, n) /\ l' = l
      BY <1>1, <2>2 DEF Faithful
    <3>2. Stands(copy', src', l, n)
      BY <1>1, <3>1
    <3> HIDE DEF l
    <3> QED BY <1>1, <2>1, <3>1, <3>2, SMTT(20)
            DEF Stands, StandsForTheSame, StandsForAJump, StandsForARet, RestOfRet,
                StandsForALoop, SkipsAJump, JumpsOn, IsNoInstruction, After, Target
  <2>3. EndOf(copy)' = EndOf(copy) /\ After(copy, src, 0)' = After(copy, src, 0)
    BY <1>1 DEF EndOf, After
  <2> QED BY <1>1, <2>1, <2>2, <2>3 DEF Faithful
<1>2. ASSUME Faithful, WriteRedirection PROVE Faithful'
  BY <1>1, <1>2 DEF WriteRedirection
<1>3. ASSUME Faithful, (\E n \in 1..Len(copy) : RunCopy(copy[n])) \/ RunOriginal
      PROVE  Faithful'
  BY <1>1, <1>3, RunsOn DEF Ran
<1>4. ASSUME Faithful, UNCHANGED copyVars PROVE Faithful'
  BY <1>1, <1>4 DEF copyVars
<1> QED BY <1>2, <1>3, <1>4

\* Faithful is an invariant.
LEMMA FaithfulInvariant == CopySpec => []Faithful
<1>1. Written /\ Faithful /\ [CopyNext]_copyVars => Faithful'
  BY CopyInstructionFaithful, JumpBackFaithful, OtherFaithful DEF CopyNext
<1> QED BY <1>1, InitFaithful, WrittenInvariant, PTL DEF CopySpec

-----------------------------------------------------------------------------
(* Running a regular function. *)

Running == Written /\ Faithful /\ Regular /\ phase = "running"

\* The types while the processor runs a regular function.
LEMMA RunningTypes ==
  ASSUME Running
  PROVE  /\ x64 \in BOOLEAN /\ code \in Codes /\ base \in Pages /\ base \in Int
         /\ src \in 0..27 /\ pc \in Int /\ flags \in {"z", "nz"} /\ meant \in {"z", "nz"}
         /\ copy \in Seq(Pieces) /\ Len(copy) \in Nat /\ 1 <= Len(copy)
<1>1. CopyTypes /\ EndsWithJumpBack /\ phase = "running"
  BY DEF Running, Written
<1>2. copy \in Seq(Pieces) /\ copy # <<>>
  BY <1>1 DEF CopyTypes, Strip, EndsWithJumpBack
<1>3. Len(copy) \in Nat /\ 1 <= Len(copy)
  BY <1>2
<1>4. base \in Int
  BY <1>1, Numbers DEF CopyTypes
<1> QED BY <1>1, <1>2, <1>3, <1>4 DEF CopyTypes

\* The copy is on a page of its own.
LEMMA OnThePage ==
  ASSUME Running, NEW n \in 1..Len(copy)
  PROVE  /\ copy[n] \in Pieces /\ copy[n].at \in Int
         /\ copy[n].at \notin DOMAIN code \cup Targets \cup {Exit} \cup Overwritten
<1>1. base \in Int /\ base \in Pages /\ code \in Codes /\ Len(copy) \in Nat /\ copy \in Seq(Pieces)
  BY RunningTypes
<1>2. Strip(copy, base)
  BY DEF Running, Written, CopyTypes
<1>3. copy[n] \in Pieces /\ copy[Len(copy)] \in Pieces /\ copy # <<>>
  BY <1>1
<1>4. copy[n].at \in Int /\ copy[n].len \in 1..26
  BY <1>3, PieceFields
<1>5. base <= copy[n].at /\ copy[n].at + copy[n].len <= EndOf(copy)
  BY <1>2, <1>3 DEF Strip, EndOf
<1>6. EndOf(copy) <= base + 300 /\ EndOf(copy) \in Int
  <2>1. EndOf(copy) \in Int
    BY <1>1, <1>2, EndType
  <2> QED BY <2>1 DEF Running, Faithful
<1>7. copy[n].at \in base..(base + 4095)
  <2> DEFINE x == copy[n].at
             y == EndOf(copy)
             l == copy[n].len
  <2>1. base \in Int /\ x \in Int /\ y \in Int /\ l \in 1..26
    BY <1>1, <1>4, <1>6
  <2>2. base <= x /\ x + l <= y /\ y <= base + 300
    BY <1>5, <1>6
  <2> HIDE DEF x, y, l
  <2>3. x \in base..(base + 4095)
    BY <2>1, <2>2
  <2> QED BY <2>3 DEF x
<1>8. base..(base + 4095) \cap (Overwritten \cup DOMAIN code \cup TargetsOf(code) \cup {Exit}) = {}
  BY <1>1, CodeAssumption
<1> QED BY <1>3, <1>4, <1>7, <1>8 DEF Targets

\* No two pieces are at the same address.
LEMMA OnePlace ==
  ASSUME Running, NEW m \in 1..Len(copy), NEW n \in 1..Len(copy),
         copy[m].at = copy[n].at
  PROVE  m = n
<1>1. Len(copy) \in Nat /\ Strip(copy, base)
  BY RunningTypes DEF Running, Written, CopyTypes
<1>2. ASSUME NEW a \in 1..Len(copy), NEW b \in 1..Len(copy), a < b
      PROVE  copy[a].at # copy[b].at
  <2>1. a \in 1..(b - 1)
    BY <1>1, <1>2
  <2>2. copy[a].at + copy[a].len <= copy[b].at
    BY <1>1, <2>1 DEF Strip
  <2>3. copy[a] \in Pieces /\ copy[b] \in Pieces
    BY OnThePage
  <2>4. copy[a].at \in Int /\ copy[a].len \in 1..26 /\ copy[b].at \in Int
    BY <2>3, PieceFields
  <2>5. ASSUME NEW x \in Int, NEW y \in Int, NEW l \in 1..26, x + l <= y PROVE x # y
    BY <2>5
  <2> QED BY <2>2, <2>4, <2>5
<1>3. m < n \/ n < m \/ m = n
  BY <1>1
<1> QED BY <1>2, <1>3

\* The address of the function that being at q means.
PlaceOf(q) ==
  IF \E n \in 1..Len(copy) : copy[n].at = q
  THEN copy[CHOOSE n \in 1..Len(copy) : copy[n].at = q].means
  ELSE q

\* An address means one place of the function at most.
LEMMA PlaceOfArrival ==
  ASSUME Running, NEW q, NEW to, Arrives(q, to)
  PROVE  PlaceOf(q) = to
<1>1. CASE \E n \in 1..Len(copy) : q = copy[n].at /\ to = copy[n].means
  <2>1. PICK n \in 1..Len(copy) : q = copy[n].at /\ to = copy[n].means
    BY <1>1
  <2> DEFINE k == CHOOSE m \in 1..Len(copy) : copy[m].at = q
  <2>2. k \in 1..Len(copy) /\ copy[k].at = q
    BY <2>1
  <2> HIDE DEF k
  <2>3. k = n
    BY <2>1, <2>2, OnePlace
  <2>4. PlaceOf(q) = copy[k].means
    BY <2>1 DEF PlaceOf, k
  <2> QED BY <2>1, <2>3, <2>4
<1>2. CASE q = to /\ q \in Places \ Overwritten
  <2>1. ~\E n \in 1..Len(copy) : copy[n].at = q
    BY <1>2, OnThePage DEF Places
  <2> QED BY <1>2, <2>1 DEF PlaceOf
<1> QED BY <1>1, <1>2 DEF Arrives

\* Before and after a step the copy implements the place where the processor has arrived.
LEMMA Arrival ==
  ASSUME Running, Ran, NEW from, NEW to, Arrives(pc, from), Arrives(pc', to)
  PROVE  Place = from /\ Place' = to
<1>1. Place = PlaceOf(pc)
  BY DEF Running, Place, PlaceOf
<1>2. Place' = PlaceOf(pc')
  <2>1. Regular'
    BY Constants DEF Ran, Running
  <2> QED BY <2>1 DEF Ran, Place, PlaceOf
<1>3. PlaceOf(pc) = from
  BY PlaceOfArrival
<1>4. PlaceOf(pc') = to
  BY PlaceOfArrival
<1> QED BY <1>1, <1>2, <1>3, <1>4

\* No two instructions end at the same address.
LEMMA NoOverlap ==
  ASSUME code \in Codes, NEW a \in DOMAIN code, NEW b \in DOMAIN code,
         a + code[a].len = b + code[b].len
  PROVE  a = b
<1>1. /\ a \in Nat /\ b \in Nat /\ code[a].len \in 1..15 /\ code[b].len \in 1..15
      /\ a < b => a + code[a].len <= b
      /\ b < a => b + code[b].len <= a
  <2>1. code[a] \in Instructions /\ code[b] \in Instructions /\ a \in Nat /\ b \in Nat
    BY CodeType
  <2>2. code[a].len \in 1..15 /\ code[b].len \in 1..15
    BY <2>1 DEF Instructions
  <2>3. /\ a < b => a + code[a].len <= b
        /\ b < a => b + code[b].len <= a
    BY CodeAssumption
  <2> QED BY <2>1, <2>2, <2>3
<1> QED BY <1>1

\* Who tests the flag behind the jump back has it set there, just before.
LEMMA TestedIsSet ==
  ASSUME Running, x64, NEW b, Tested(b)
  PROVE  /\ b \notin Targets
         /\ \A a \in DOMAIN code : a + code[a].len = b => code[a].op = "cmp" /\ a \notin Header
<1>1. code \in Codes
  BY RunningTypes
<1>2. /\ b \notin Targets
      /\ \E c \in DOMAIN code \ Header : code[c].op = "cmp" /\ c + code[c].len = b
  BY DEF Running, Regular, Tested
<1>3. PICK c \in DOMAIN code \ Header : code[c].op = "cmp" /\ c + code[c].len = b
  BY <1>2
<1> QED BY <1>1, <1>2, <1>3, NoOverlap

\* On Win64 nothing that the header leads to tests a flag that the jump back has lost.
LEMMA ReachedUntested ==
  ASSUME Running, x64, NEW b \in Reached
  PROVE  ~Tested(b)
<1> SUFFICES ASSUME Tested(b) PROVE FALSE
  OBVIOUS
<1>1. b \notin Header
  BY DEF Tested
<1>2. b \notin Targets
  BY TestedIsSet
<1>3. PICK a \in Header : a + code[a].len = b
  BY <1>1, <1>2 DEF Reached
<1> QED BY <1>3, TestedIsSet DEF Header

\* What the function does at instruction i at address "from", going to "to",
\* with the flag it means.
Does(i, from, to) ==
  \/ /\ i.op \in {"plain", "indirect"}
     /\ to = from + i.len /\ UNCHANGED <<meant, used>>
  \/ i.op = "cmp" /\ to = from + i.len /\ meant' \in {"z", "nz"} /\ UNCHANGED used
  \/ /\ i.op \in {"jmp8", "jmp32"}
     /\ to = Target(i, from) /\ UNCHANGED <<meant, used>>
  \/ /\ i.op \in Jcc
     /\ to = IF meant = "z" THEN Target(i, from) ELSE from + i.len
     /\ UNCHANGED <<meant, used>>
  \/ /\ i.op = "loop8"
     /\ to \in {Target(i, from), from + i.len} /\ UNCHANGED <<meant, used>>
  \/ /\ i.op \in {"call", "rip"}
     /\ to = from + i.len /\ used' = Target(i, from) /\ UNCHANGED meant
  \/ i.op \in {"ret", "retImm"} /\ to = Exit /\ UNCHANGED <<meant, used>>

\* FunctionCode and HeaderCopy have the same processor.
LEMMA SameProcessor ==
  ASSUME NEW i, NEW a
  PROVE  FC!Target(i, a) = Target(i, a) /\ FC!Jcc = Jcc
<1>1. FC!Short = Short
  BY DEF FC!Short, Short
<1>2. \A byte : FC!Signed(byte) = Signed(byte)
  BY DEF FC!Signed, Signed
<1> QED BY <1>1, <1>2 DEF FC!Target, Target, FC!Jcc, Jcc

\* What an instruction does is a step of the function.
LEMMA DoesIsNext ==
  ASSUME Running, Ran, NEW from \in DOMAIN code, NEW to, Does(code[from], from, to),
         Place = from, Place' = to
  PROVE  FC!Next
<1>1. Regular /\ Regular' /\ code' = code
  BY Constants DEF Running, Ran
<1> DEFINE i == code[from]
<1>2. Does(i, from, to)
  OBVIOUS
<1>3. FC!Target(i, from) = Target(i, from) /\ FC!Jcc = Jcc
  BY SameProcessor
<1> HIDE DEF i
<1>4. FC!Execute(i, from)
  <2>1. CASE i.op \in {"plain", "indirect"} /\ to = from + i.len /\ UNCHANGED <<meant, used>>
    BY <1>1, <2>1 DEF FC!Execute
  <2>2. CASE i.op = "cmp" /\ to = from + i.len /\ meant' \in {"z", "nz"} /\ UNCHANGED used
    BY <1>1, <2>2 DEF FC!Execute
  <2>3. CASE /\ i.op \in {"jmp8", "jmp32"}
             /\ to = Target(i, from) /\ UNCHANGED <<meant, used>>
    BY <1>1, <1>3, <2>3 DEF FC!Execute
  <2>4. CASE /\ i.op \in Jcc
             /\ to = IF meant = "z" THEN Target(i, from) ELSE from + i.len
             /\ UNCHANGED <<meant, used>>
    BY <1>1, <1>3, <2>4 DEF FC!Execute
  <2>5. CASE /\ i.op = "loop8"
             /\ to \in {Target(i, from), from + i.len} /\ UNCHANGED <<meant, used>>
    BY <1>1, <1>3, <2>5 DEF FC!Execute
  <2>6. CASE /\ i.op \in {"call", "rip"}
             /\ to = from + i.len /\ used' = Target(i, from) /\ UNCHANGED meant
    BY <1>1, <1>3, <2>6 DEF FC!Execute
  <2>7. CASE i.op \in {"ret", "retImm"} /\ to = Exit /\ UNCHANGED <<meant, used>>
    BY <1>1, <2>7 DEF FC!Execute
  <2> QED BY <1>2, <2>1, <2>2, <2>3, <2>4, <2>5, <2>6, <2>7 DEF Does
<1> QED BY <1>1, <1>4 DEF FC!Next, i

\* A step of the processor: either it is a step of the function, or the
\* processor is still on its way to the function's next instruction.
Goes(from, to) ==
  /\ Arrives(pc', to)
  /\ \/ from \in DOMAIN code /\ Does(code[from], from, to)
     \/ to = from /\ UNCHANGED <<meant, used>>
  /\ FlagKept'

\* On the copy, and in a branch's target, nobody tests a lost flag.
LEMMA KeptOnTheWay ==
  ASSUME Running, Ran, FlagKept, UNCHANGED <<flags, meant>>,
         \/ \E n \in 1..Len(copy) : pc' = copy[n].at
         \/ pc' \in Targets \cup {Exit}
  PROVE  FlagKept'
<1>1. CASE flags = meant
  BY <1>1 DEF FlagKept
<1>2. CASE flags # meant
  <2>1. x64
    BY <1>2 DEF FlagKept, Running
  <2>2. ~Tested(pc')
    <3>1. CASE \E n \in 1..Len(copy) : pc' = copy[n].at
      BY <3>1, OnThePage DEF Tested
    <3>2. CASE pc' \in Targets
      BY <2>1, <3>2, TestedIsSet
    <3>3. CASE pc' = Exit
      BY <3>3, CodeType, RunningTypes DEF Tested
    <3> QED BY <3>1, <3>2, <3>3
  <2>3. Tested(pc)' = Tested(pc')
    BY Constants DEF Ran, Tested
  <2> QED BY <2>1, <2>2, <2>3 DEF FlagKept, Ran, Running
<1> QED BY <1>1, <1>2

\* The last piece of the copy is the jump back.
LEMMA LastPiece ==
  ASSUME Running
  PROVE  LET back == copy[Len(copy)] IN
         /\ back.op = IF x64 THEN "jmpRet" ELSE "jmp32"
         /\ Target(back, back.at) = src /\ back.means = src
         /\ src \notin Overwritten
<1>1. SIZE_OF_JMP <= src /\ Distant /\ src \in 0..27
  BY DEF Running, Written, EndsWithJumpBack, Regular, CopyTypes
<1>2. src \notin Overwritten
  BY <1>1, SizeType DEF Overwritten
<1> QED BY <1>1, <1>2 DEF Running, Written, EndsWithJumpBack

\* Falling through to a piece that stands for an instruction.
LEMMA FallsThrough ==
  ASSUME Running, NEW n \in 1..(Len(copy) - 1),
         copy[n + 1].means \in DOMAIN code \cap Reached
  PROVE  /\ After(copy, src, n) = copy[n + 1].means
         /\ copy[n + 1].at = copy[n].at + copy[n].len
         /\ Arrives(copy[n].at + copy[n].len, copy[n + 1].means)
<1>1. /\ Len(copy) \in Nat /\ n + 1 \in 1..Len(copy) /\ n < Len(copy)
      /\ n + 1 # 1 /\ (n + 1) - 1 = n
  BY RunningTypes
<1>2. copy[n + 1].at = copy[n].at + copy[n].len
  <2>1. Strip(copy, base)
    BY DEF Running, Written, CopyTypes
  <2> QED BY <1>1, <2>1 DEF Strip
<1>3. copy[n + 1].op # "bytes"
  <2>1. CASE n + 1 = Len(copy)
    BY <2>1, LastPiece
  <2>2. CASE n + 1 # Len(copy)
    <3>1. n + 1 \in 1..(Len(copy) - 1)
      BY <1>1, <2>2
    <3>2. Stands(copy, src, Len(copy) - 1, n + 1)
      BY <3>1 DEF Running, Faithful
    <3> QED BY <3>2 DEF Stands, StandsForTheSame, StandsForAJump, StandsForARet,
              StandsForALoop, SkipsAJump, JumpsOn, IsNoInstruction
  <2> QED BY <2>1, <2>2
<1>4. After(copy, src, n) = copy[n + 1].means
  BY <1>1 DEF After
<1> QED BY <1>1, <1>2, <1>3, <1>4 DEF Arrives

\* Behind an instruction of the header that control falls out of.
LEMMA NextIsReached ==
  ASSUME code \in Codes, NEW m \in Header, code[m].op \notin Ends
  PROVE  m + code[m].len \in DOMAIN code \cap Reached
BY CodeType DEF Header, Reached

\* How the processor executes a piece that is an instruction and is whole.
LEMMA RunsPiece ==
  ASSUME NEW p, p.op \notin {"bytes", "callShifted", "jmpRet"}, Whole(p), RunCopy(p)
  PROVE  /\ pc = p.at /\ Execute(p, p.at)
         /\ meant' = IF p.op = "cmp" THEN flags' ELSE meant
BY DEF RunCopy

\* A piece that is the same instruction, with the displacement corrected.
LEMMA SameGoes ==
  ASSUME Running, Ran, FlagKept, NEW n \in 1..(Len(copy) - 1), RunCopy(copy[n]),
         StandsForTheSame(copy[n], After(copy, src, n))
  PROVE  \E to \in Places : Goes(copy[n].means, to)
<1> DEFINE p == copy[n]
           m == p.means
           o == code[m]
<1>1. /\ m \in Header /\ m \in DOMAIN code /\ p.op = o.op
      /\ p.op \in {"plain", "cmp", "indirect", "ret", "call", "rip"}
      /\ p.op \in {"call", "rip"} => Target(p, p.at) = Target(o, m)
      /\ After(copy, src, n) = m + o.len
  BY DEF StandsForTheSame, Header
<1>2. code \in Codes /\ Len(copy) \in Nat /\ n + 1 \in 1..Len(copy) /\ n < Len(copy)
  BY RunningTypes
<1>3. /\ Execute(p, p.at) /\ meant' = IF p.op = "cmp" THEN flags' ELSE meant
  BY <1>1, RunsPiece DEF Whole
<1>4. flags' \in {"z", "nz"}
  BY RunTypes, RunningTypes DEF Running, Written
<1>5. CASE p.op = "ret"
  <2> HIDE DEF p, o
  <2>1. pc' = Exit /\ UNCHANGED <<flags, used, meant>>
    BY <1>3, <1>5 DEF Execute, Jcc
  <2>2. Arrives(pc', Exit)
    BY <2>1, CodeAssumption DEF Arrives, Places
  <2>3. Does(o, m, Exit)
    BY <1>1, <1>5, <2>1 DEF Does
  <2>4. FlagKept'
    BY <2>1, KeptOnTheWay
  <2> QED BY <1>1, <2>2, <2>3, <2>4 DEF Goes, Places, p, o
<1>6. CASE p.op # "ret"
  <2> DEFINE to == m + o.len
  <2>1. to \in DOMAIN code \cap Reached
    <3>1. o.op \notin Ends
      BY <1>1, <1>6 DEF Ends
    <3> QED BY <1>1, <1>2, <3>1, NextIsReached
  <2>2. copy[n + 1].means = to
    BY <1>1, <1>2 DEF After
  <2>3. Arrives(p.at + p.len, to) /\ copy[n + 1].at = p.at + p.len
    BY <2>1, <2>2, FallsThrough
  <2> HIDE DEF p, o, m
  <2>4. /\ pc' = p.at + p.len
        /\ p.op # "cmp" => UNCHANGED flags
        /\ used' = IF p.op \in {"call", "rip"} THEN Target(p, p.at) ELSE used
    BY <1>1, <1>3, <1>6 DEF Execute, Jcc
  <2>5. Does(o, m, to)
    BY <1>1, <1>3, <1>4, <1>6, <2>4 DEF Does
  <2>6. FlagKept'
    <3>1. CASE p.op = "cmp"
      BY <1>3, <3>1 DEF FlagKept
    <3>2. CASE p.op # "cmp"
      BY <1>2, <1>3, <2>3, <2>4, <3>2, KeptOnTheWay
    <3> QED BY <3>1, <3>2
  <2>7. Arrives(pc', to)
    BY <2>3, <2>4
  <2>8. to \in Places
    BY <2>1 DEF Places
  <2> QED BY <1>1, <2>5, <2>6, <2>7, <2>8 DEF Goes, p, o, m
<1> QED BY <1>5, <1>6

\* Targets of branches are outside the copy and not overwritten.
LEMMA TargetArrives ==
  ASSUME Running, NEW to \in Targets
  PROVE  Arrives(to, to) /\ to \in Places
BY DEF Running, Regular, Arrives, Places

\* Where a branch goes.
LEMMA BranchTarget ==
  ASSUME NEW a \in DOMAIN code, code[a].op \in Branches
  PROVE  Target(code[a], a) \in Targets
BY DEF Targets, TargetsOf

\* A jump that was widened to 32 bits.
LEMMA JumpGoes ==
  ASSUME Running, Ran, FlagKept, NEW n \in 1..(Len(copy) - 1), RunCopy(copy[n]),
         StandsForAJump(copy[n], After(copy, src, n))
  PROVE  \E to \in Places : Goes(copy[n].means, to)
<1> DEFINE p == copy[n]
           m == p.means
           o == code[m]
<1>1. /\ ~x64 /\ m \in Header /\ m \in DOMAIN code
      /\ \/ p.op = "jcc32" /\ o.op \in Jcc
         \/ p.op = "jmp32" /\ o.op \in {"jmp8", "jmp32"}
      /\ Target(p, p.at) = Target(o, m)
      /\ After(copy, src, n) = m + o.len
  BY DEF StandsForAJump, Header
<1>2. code \in Codes /\ Len(copy) \in Nat /\ n + 1 \in 1..Len(copy) /\ n < Len(copy)
  BY RunningTypes
<1>3. /\ Execute(p, p.at) /\ meant' = meant
  BY <1>1, RunsPiece DEF Whole
<1>4. flags = meant
  BY <1>1 DEF FlagKept, Running
<1>5. Target(o, m) \in Targets
  BY <1>1, BranchTarget DEF Branches, Short, Jcc
<1>6. UNCHANGED <<flags, used, meant>>
  <2> HIDE DEF p, o, m
  <2> QED BY <1>1, <1>3 DEF Execute, Jcc
<1>7. FlagKept'
  BY <1>4, <1>6 DEF FlagKept
<1>8. CASE pc' = Target(o, m) /\ Does(o, m, Target(o, m))
  BY <1>1, <1>5, <1>7, <1>8, TargetArrives DEF Goes
<1>9. CASE pc' = p.at + p.len /\ Does(o, m, m + o.len) /\ o.op \in Jcc
  <2>1. m + o.len \in DOMAIN code \cap Reached
    <3>1. o.op \notin Ends
      BY <1>9 DEF Ends, Jcc
    <3> QED BY <1>1, <1>2, <3>1, NextIsReached
  <2>2. copy[n + 1].means = m + o.len
    BY <1>1, <1>2 DEF After
  <2>3. Arrives(p.at + p.len, m + o.len)
    BY <2>1, <2>2, FallsThrough
  <2>4. m + o.len \in Places
    BY <2>1 DEF Places
  <2> QED BY <1>1, <1>7, <1>9, <2>3, <2>4 DEF Goes
<1>10. \/ pc' = Target(o, m) /\ Does(o, m, Target(o, m))
       \/ pc' = p.at + p.len /\ Does(o, m, m + o.len) /\ o.op \in Jcc
  <2> HIDE DEF p, o, m
  <2>1. CASE p.op = "jmp32" /\ o.op \in {"jmp8", "jmp32"}
    <3>1. pc' = Target(p, p.at)
      BY <1>3, <2>1 DEF Execute, Jcc
    <3> QED BY <1>1, <1>6, <2>1, <3>1 DEF Does
  <2>2. CASE p.op = "jcc32" /\ o.op \in Jcc
    <3>1. pc' = IF flags = "z" THEN Target(p, p.at) ELSE p.at + p.len
      BY <1>3, <2>2 DEF Execute, Jcc
    <3> QED BY <1>1, <1>4, <1>6, <2>2, <3>1 DEF Does
  <2> QED BY <1>1, <2>1, <2>2
<1> QED BY <1>8, <1>9, <1>10

\* A ret with an operand, which needs the bytes behind it.
LEMMA RetGoes ==
  ASSUME Running, Ran, FlagKept, NEW n \in 1..(Len(copy) - 1), RunCopy(copy[n]),
         StandsForARet(copy[n]), RestOfRet(copy, src, Len(copy) - 1, n)
  PROVE  \E to \in Places : Goes(copy[n].means, to)
<1> DEFINE p == copy[n]
           m == p.means
           o == code[m]
<1>1. m \in DOMAIN code /\ p.op = "retImm" /\ o.op = "retImm"
  BY DEF StandsForARet, Header
<1>2. /\ Len(copy) \in Nat /\ n + 1 \in 1..Len(copy) /\ n # Len(copy)
      /\ n + 1 # 1 /\ (n + 1) - 1 = n
  BY RunningTypes
<1>3. copy[n + 1].op = "bytes" /\ copy[n + 1].at = p.at + p.len
  <2>1. Strip(copy, base)
    BY DEF Running, Written, CopyTypes
  <2> QED BY <1>2, <2>1 DEF RestOfRet, Strip
<1>4. Whole(p)
  <2>1. EndOf(<<p>>) = p.at + p.len
    BY DEF EndOf
  <2> QED BY <1>2, <1>3, <2>1 DEF Whole
<1>5. Execute(p, p.at) /\ meant' = meant
  BY <1>1, <1>4, RunsPiece
<1>6. pc' = Exit /\ UNCHANGED <<flags, used, meant>>
  <2> HIDE DEF p
  <2> QED BY <1>1, <1>5 DEF Execute, Jcc
<1>7. Arrives(pc', Exit)
  BY <1>6, CodeAssumption DEF Arrives, Places
<1>8. Does(o, m, Exit)
  <2> HIDE DEF o, m
  <2> QED BY <1>1, <1>6 DEF Does
<1>9. FlagKept'
  BY <1>6, KeptOnTheWay
<1> QED BY <1>1, <1>7, <1>8, <1>9 DEF Goes, Places

\* The loop8 of a relocated loop.
LEMMA LoopGoes ==
  ASSUME Running, Ran, FlagKept, NEW n \in 1..(Len(copy) - 1), RunCopy(copy[n]),
         n + 2 <= Len(copy) - 1, StandsForALoop(copy[n], copy[n + 1], copy[n + 2])
  PROVE  \E to \in Places : Goes(copy[n].means, to)
<1> DEFINE p == copy[n]
           m == p.means
           o == code[m]
<1>1. /\ m \in Header /\ m \in DOMAIN code /\ p.op = "loop8" /\ o.op = "loop8"
      /\ copy[n + 1].op = "jmp8" /\ copy[n + 1].means = m + o.len
      /\ copy[n + 2].op = "jmp32" /\ copy[n + 2].means = Target(o, m)
      /\ Target(p, p.at) = copy[n + 2].at
  BY DEF StandsForALoop, Header
<1>2. code \in Codes /\ n + 1 \in 1..Len(copy) /\ n + 2 \in 1..Len(copy)
  BY RunningTypes
<1>3. Execute(p, p.at) /\ meant' = meant
  BY <1>1, RunsPiece DEF Whole
<1>4. UNCHANGED <<flags, used, meant>> /\ pc' \in {copy[n + 2].at, p.at + p.len}
  <2> HIDE DEF p
  <2> QED BY <1>1, <1>3 DEF Execute, Jcc
<1>5. m + o.len \in DOMAIN code \cap Reached
  BY <1>1, <1>2, NextIsReached DEF Ends
<1>6. Arrives(p.at + p.len, m + o.len) /\ copy[n + 1].at = p.at + p.len
  BY <1>1, <1>5, FallsThrough
<1>7. Target(o, m) \in Targets
  BY <1>1, BranchTarget DEF Branches, Short
<1>8. Arrives(copy[n + 2].at, Target(o, m))
  BY <1>1, <1>2, <1>7 DEF Arrives, Reached
<1>9. FlagKept'
  BY <1>2, <1>4, <1>6, KeptOnTheWay
<1>10. Does(o, m, Target(o, m)) /\ Does(o, m, m + o.len)
  <2> HIDE DEF o, m
  <2> QED BY <1>1, <1>4 DEF Does
<1> QED BY <1>1, <1>4, <1>5, <1>6, <1>7, <1>8, <1>9, <1>10 DEF Goes, Places

\* The jmp8 behind it, taken when the loop ends.
LEMMA SkipGoes ==
  ASSUME Running, Ran, FlagKept, NEW n \in 1..(Len(copy) - 1), RunCopy(copy[n]),
         n + 1 <= Len(copy) - 1,
         SkipsAJump(copy[n], copy[n + 1], After(copy, src, n + 1)),
         copy[n].means \in Reached
  PROVE  \E to \in Places : Goes(copy[n].means, to)
<1> DEFINE p == copy[n]
           q == copy[n + 1]
           m == p.means
<1>1. /\ p.op = "jmp8" /\ Target(p, p.at) = q.at + q.len
      /\ m \in DOMAIN code /\ After(copy, src, n + 1) = m
  BY DEF SkipsAJump
<1>2. /\ Len(copy) \in Nat /\ n + 1 \in 1..(Len(copy) - 1) /\ (n + 1) + 1 \in 1..Len(copy)
      /\ n + 1 < Len(copy)
  BY RunningTypes
<1>3. Execute(p, p.at) /\ meant' = meant
  BY <1>1, RunsPiece DEF Whole
<1>4. UNCHANGED <<flags, used, meant>> /\ pc' = q.at + q.len
  <2> HIDE DEF p, q
  <2> QED BY <1>1, <1>3 DEF Execute, Jcc
<1>5. copy[(n + 1) + 1].means = m
  BY <1>1, <1>2 DEF After
<1>6. Arrives(q.at + q.len, m) /\ copy[(n + 1) + 1].at = q.at + q.len
  BY <1>1, <1>2, <1>5, FallsThrough
<1>7. FlagKept'
  BY <1>2, <1>4, <1>6, KeptOnTheWay
<1> QED BY <1>1, <1>4, <1>6, <1>7 DEF Goes, Places

\* The jmp32 behind that, taken when the loop goes on.
LEMMA JumpOnGoes ==
  ASSUME Running, Ran, FlagKept, NEW n \in 1..(Len(copy) - 1), RunCopy(copy[n]),
         JumpsOn(copy[n])
  PROVE  \E to \in Places : Goes(copy[n].means, to)
<1> DEFINE p == copy[n]
           m == p.means
<1>1. p.op = "jmp32" /\ m \in Targets /\ Target(p, p.at) = m
  BY DEF JumpsOn
<1>2. Execute(p, p.at) /\ meant' = meant
  BY <1>1, RunsPiece DEF Whole
<1>3. UNCHANGED <<flags, used, meant>> /\ pc' = m
  <2> HIDE DEF p
  <2> QED BY <1>1, <1>2 DEF Execute, Jcc
<1>4. FlagKept'
  BY <1>1, <1>3, KeptOnTheWay
<1> QED BY <1>1, <1>3, <1>4, TargetArrives DEF Goes

\* The jump back to what is left of the function.
LEMMA JumpBackGoes ==
  ASSUME Running, Ran, FlagKept, RunCopy(copy[Len(copy)]), src \in Reached
  PROVE  \E to \in Places : Goes(copy[Len(copy)].means, to)
<1> DEFINE p == copy[Len(copy)]
<1>1. /\ p.op = IF x64 THEN "jmpRet" ELSE "jmp32"
      /\ Target(p, p.at) = src /\ p.means = src /\ src \notin Overwritten
  BY LastPiece
<1>2. code \in Codes /\ x64 \in BOOLEAN
  BY RunningTypes
<1>3. src \in Places
  BY <1>2, CodeType DEF Reached, Places, Header
<1>4. pc = p.at
  BY DEF RunCopy
<1> HIDE DEF p
<1>5. pc' = src /\ UNCHANGED <<used, meant>> /\ (~x64 => UNCHANGED flags)
  <2>1. CASE x64
    <3>1. p.op = "jmpRet"
      BY <1>1, <2>1
    <3> QED BY <1>1, <1>4, <2>1, <3>1 DEF RunCopy, Execute, Jcc, Whole, p
  <2>2. CASE ~x64
    <3>1. p.op = "jmp32"
      BY <1>1, <2>2
    <3>2. Execute(p, p.at) /\ meant' = meant
      BY <3>1, RunsPiece DEF Whole, p
    <3> QED BY <1>1, <2>2, <3>1, <3>2 DEF Execute, Jcc
  <2> QED BY <1>2, <2>1, <2>2
<1>6. FlagKept'
  <2>1. CASE x64
    <3>1. ~Tested(src)
      BY <2>1, ReachedUntested
    <3>2. Tested(pc)' = Tested(pc')
      BY Constants DEF Ran, Tested
    <3> QED BY <1>5, <2>1, <3>1, <3>2 DEF FlagKept, Ran
  <2>2. CASE ~x64
    BY <1>5, <2>2 DEF FlagKept, Running
  <2> QED BY <2>1, <2>2
<1>7. Arrives(pc', src)
  BY <1>1, <1>3, <1>5 DEF Arrives
<1> QED BY <1>1, <1>3, <1>5, <1>6, <1>7 DEF Goes, p

\* Every step on the copy.
LEMMA RunCopyGoes ==
  ASSUME Running, Ran, FlagKept, NEW from, Arrives(pc, from),
         NEW n \in 1..Len(copy), RunCopy(copy[n])
  PROVE  \E to \in Places : Goes(from, to)
<1>1. pc = copy[n].at /\ Len(copy) \in Nat
  BY RunningTypes DEF RunCopy
<1>2. from = copy[n].means /\ copy[n].op # "bytes" /\ from \in Reached
  <2>1. CASE \E k \in 1..Len(copy) : /\ pc = copy[k].at /\ from = copy[k].means
                                     /\ copy[k].op # "bytes" /\ from \in Reached
    <3>1. PICK k \in 1..Len(copy) : /\ pc = copy[k].at /\ from = copy[k].means
                                    /\ copy[k].op # "bytes" /\ from \in Reached
      BY <2>1
    <3>2. k = n
      BY <1>1, <3>1, OnePlace
    <3> QED BY <3>1, <3>2
  <2>2. CASE pc \in Places \ Overwritten
    BY <1>1, <2>2, OnThePage DEF Places
  <2> QED BY <2>1, <2>2 DEF Arrives
<1>3. CASE n = Len(copy)
  BY <1>2, <1>3, LastPiece, JumpBackGoes
<1>4. CASE n \in 1..(Len(copy) - 1)
  <2>1. Stands(copy, src, Len(copy) - 1, n)
    BY <1>4 DEF Running, Faithful
  <2>2. ~IsNoInstruction(copy[n])
    BY <1>2 DEF IsNoInstruction
  <2>3. CASE StandsForTheSame(copy[n], After(copy, src, n))
    BY <1>2, <1>4, <2>3, SameGoes
  <2>4. CASE StandsForAJump(copy[n], After(copy, src, n))
    BY <1>2, <1>4, <2>4, JumpGoes
  <2>5. CASE StandsForARet(copy[n]) /\ RestOfRet(copy, src, Len(copy) - 1, n)
    BY <1>2, <1>4, <2>5, RetGoes
  <2>6. CASE n + 2 <= Len(copy) - 1 /\ StandsForALoop(copy[n], copy[n + 1], copy[n + 2])
    BY <1>2, <1>4, <2>6, LoopGoes
  <2>7. CASE n + 1 <= Len(copy) - 1 /\ SkipsAJump(copy[n], copy[n + 1], After(copy, src, n + 1))
    BY <1>2, <1>4, <2>7, SkipGoes
  <2>8. CASE JumpsOn(copy[n])
    BY <1>2, <1>4, <2>8, JumpOnGoes
  <2> QED BY <2>1, <2>2, <2>3, <2>4, <2>5, <2>6, <2>7, <2>8 DEF Stands
<1> QED BY <1>1, <1>3, <1>4

\* Every step on what is left of the function.
LEMMA RunOriginalGoes ==
  ASSUME Running, Ran, FlagKept, NEW from, Arrives(pc, from), RunOriginal
  PROVE  \E to \in Places : Goes(from, to)
<1>1. /\ code \in Codes /\ x64 \in BOOLEAN /\ pc \in Int
      /\ flags \in {"z", "nz"} /\ meant \in {"z", "nz"}
  BY RunningTypes
<1>2. pc \notin Overwritten
  BY OnThePage DEF Arrives
<1>3. /\ pc \in DOMAIN code /\ Execute(code[pc], pc)
      /\ meant' = IF code[pc].op = "cmp" THEN flags' ELSE meant
  BY <1>2 DEF RunOriginal
<1>4. from = pc
  BY <1>3, OnThePage DEF Arrives
<1> DEFINE o == code[pc]
<1>5. /\ o.len \in 1..15 /\ pc \in Nat
      /\ o.op \notin Ends => pc + o.len \in DOMAIN code
  <2>1. o \in Instructions /\ pc \in Nat
    BY <1>1, <1>3, CodeType
  <2> QED BY <1>1, <1>3, <2>1, CodeType DEF Instructions
<1>6. o.op \notin Ends => pc + o.len \in Places \ Overwritten
  <2>1. pc + o.len \notin Overwritten
    BY <1>2, <1>5 DEF Overwritten
  <2> QED BY <1>5, <2>1 DEF Places
<1>7. o.op \in Branches => Target(o, pc) \in Targets /\ Target(o, pc) \in Places \ Overwritten
  BY <1>3, BranchTarget DEF Running, Regular, Places
<1>8. Exit \in Places \ Overwritten
  BY CodeAssumption DEF Places
<1>9. flags' \in {"z", "nz"}
  BY RunTypes, RunningTypes DEF Running, Written
<1>10. o.op \in Jcc => flags = meant
  <2>1. CASE ~x64
    BY <2>1 DEF FlagKept, Running
  <2>2. CASE x64 /\ o.op \in Jcc
    <3>1. pc \notin Header
      BY <2>2 DEF Running, Regular, Branches, Short, Jcc
    <3>2. Tested(pc)
      BY <1>3, <2>2, <3>1 DEF Tested
    <3> QED BY <3>2 DEF FlagKept, Running
  <2> QED BY <1>1, <2>1, <2>2
<1>11. FlagKept'
  <2>1. CASE flags' = meant'
    BY <2>1 DEF FlagKept
  <2>2. CASE flags' # meant'
    <3>1. o.op # "cmp" /\ UNCHANGED <<flags, meant>>
      BY <1>3, <2>2 DEF Execute, Jcc
    <3>2. CASE pc' \in Targets \cup {Exit}
      BY <3>1, <3>2, KeptOnTheWay
    <3>3. CASE pc' = pc + o.len
      <4>1. x64
        BY <2>2, <3>1 DEF FlagKept, Running
      <4>2. ~Tested(pc')
        BY <1>3, <3>1, <3>3, <4>1, TestedIsSet
      <4>3. Tested(pc)' = Tested(pc')
        BY Constants DEF Ran, Tested
      <4> QED BY <4>1, <4>2, <4>3 DEF FlagKept, Ran, Running
    <3>4. pc' \in Targets \cup {Exit} \/ pc' = pc + o.len
      <4>1. o.op \in Short \cup Jcc \cup {"jmp32", "jmp8", "loop8"} => o.op \in Branches \/ o.op = "jcc8"
        BY DEF Branches, Short, Jcc
      <4>2. "jcc8" \in Branches
        BY DEF Branches, Short
      <4> HIDE DEF o
      <4> QED BY <1>3, <1>7, <4>1, <4>2 DEF Execute, o
    <3> QED BY <3>2, <3>3, <3>4
  <2> QED BY <2>1, <2>2
<1>12. pc' \in Places \ Overwritten /\ Does(o, pc, pc')
  <2>1. o.op \in Jcc \cup {"jmp8", "jmp32", "loop8"} => o.op \in Branches
    BY DEF Branches, Short, Jcc
  <2>2. o.op \in {"plain", "indirect", "cmp", "loop8", "call", "rip"} \cup Jcc => o.op \notin Ends
    BY DEF Ends, Jcc
  <2>3. /\ o.op \notin Ends => pc + o.len \in Places \ Overwritten
        /\ o.op \in Branches => Target(o, pc) \in Places \ Overwritten
    BY <1>6, <1>7
  <2>4. /\ Execute(o, pc) /\ meant' = IF o.op = "cmp" THEN flags' ELSE meant
        /\ o.op \in Jcc => flags = meant
    BY <1>3, <1>10
  <2> HIDE DEF o
  <2>5. CASE o.op \in {"plain", "indirect"} /\ pc' = pc + o.len /\ UNCHANGED <<flags, used>>
    BY <2>2, <2>3, <2>4, <2>5 DEF Does
  <2>6. CASE o.op = "cmp" /\ pc' = pc + o.len /\ UNCHANGED used
    BY <1>9, <2>2, <2>3, <2>4, <2>6 DEF Does
  <2>7. CASE o.op \in {"jmp8", "jmp32"} /\ pc' = Target(o, pc) /\ UNCHANGED <<flags, used>>
    BY <2>1, <2>3, <2>4, <2>7 DEF Does
  <2>8. CASE /\ o.op \in Jcc /\ pc' = IF flags = "z" THEN Target(o, pc) ELSE pc + o.len
             /\ UNCHANGED <<flags, used>>
    BY <2>1, <2>2, <2>3, <2>4, <2>8 DEF Does, Jcc
  <2>9. CASE o.op = "loop8" /\ pc' \in {Target(o, pc), pc + o.len} /\ UNCHANGED <<flags, used>>
    BY <2>1, <2>2, <2>3, <2>4, <2>9 DEF Does
  <2>10. CASE /\ o.op \in {"call", "rip"} /\ pc' = pc + o.len /\ used' = Target(o, pc)
              /\ UNCHANGED flags
    BY <2>2, <2>3, <2>4, <2>10 DEF Does
  <2>11. CASE o.op \in {"ret", "retImm"} /\ pc' = Exit /\ UNCHANGED <<flags, used>>
    BY <1>8, <2>4, <2>11 DEF Does
  <2> QED BY <2>4, <2>5, <2>6, <2>7, <2>8, <2>9, <2>10, <2>11 DEF Execute
<1>13. Arrives(pc', pc')
  BY <1>12 DEF Arrives
<1> QED BY <1>3, <1>4, <1>11, <1>12, <1>13 DEF Goes

\* Every step of the processor.
LEMMA RunGoes ==
  ASSUME Running, FlagKept, NEW from, Arrives(pc, from),
         (\E n \in 1..Len(copy) : RunCopy(copy[n])) \/ RunOriginal
  PROVE  \E to \in Places : Goes(from, to)
BY RunsOn, RunCopyGoes, RunOriginalGoes

-----------------------------------------------------------------------------
(* The processor stays on track, and the copy implements the function. *)

\* The redirection leads to the first piece, which stands for the first instruction.
LEMMA StartOnTrack ==
  ASSUME Written, Faithful, Regular, phase = "copied"
  PROVE  1 \in 1..Len(copy) /\ copy[1].at = base /\ copy[1].means = 0
         /\ copy[1].op # "bytes" /\ 0 \in Reached /\ 0 \in Places
<1>1. /\ copy \in Seq(Pieces) /\ copy # <<>> /\ Strip(copy, base) /\ code \in Codes
      /\ SIZE_OF_JMP <= src
  BY DEF Written, CopyTypes, Strip, EndsWithJumpBack
<1>2. 1 \in 1..Len(copy) /\ 0 < Len(copy) /\ Len(copy) \in Nat
  BY <1>1
<1>3. copy[1].at = base
  BY <1>1, <1>2 DEF Strip
<1>4. copy[1].means = 0
  BY <1>2 DEF Faithful, After
<1>5. 0 \in Header
  BY <1>1, CodeType, SizeType DEF Header
<1>6. copy[1].op # "bytes"
  <2>1. CASE Len(copy) = 1
    BY <2>1 DEF Written, EndsWithJumpBack, Regular
  <2>2. CASE Len(copy) # 1
    <3>1. 1 \in 1..(Len(copy) - 1)
      <4>1. Len(copy) \in Nat /\ 0 < Len(copy)
        BY <1>2
      <4>2. ASSUME NEW k \in Nat, 0 < k, k # 1 PROVE 1 \in 1..(k - 1)
        BY <4>2
      <4> QED BY <2>2, <4>1, <4>2
    <3>2. Stands(copy, src, Len(copy) - 1, 1)
      BY <3>1 DEF Faithful
    <3> QED BY <1>4, <1>5, <3>2
            DEF Stands, StandsForTheSame, StandsForAJump, StandsForARet, StandsForALoop,
                SkipsAJump, JumpsOn, IsNoInstruction, Header
  <2> QED BY <2>1, <2>2
<1> QED BY <1>2, <1>3, <1>4, <1>5, <1>6 DEF Reached, Places, Header

OnCourse == OnTrack /\ FlagKept

\* What arrives is there in the next state.
LEMMA ArrivesNext ==
  ASSUME Ran, NEW to, Arrives(pc', to)
  PROVE  Arrives(pc, to)'
BY Constants DEF Ran, Arrives

\* The processor stays on course.
LEMMA OnCourseInvariant == CopySpec => []OnCourse
<1>1. CopyInit => OnCourse
  BY DEF CopyInit, OnCourse, OnTrack, FlagKept
<1>2. ASSUME Written, Faithful, OnCourse, CopyInstruction \/ JumpBack PROVE OnCourse'
  BY <1>2 DEF CopyInstruction, JumpBack, OnCourse, OnTrack, FlagKept, cpu
<1>3. ASSUME Written, Faithful, OnCourse, WriteRedirection PROVE OnCourse'
  <2>1. /\ UNCHANGED <<x64, code, base, copy, flags, meant>> /\ phase = "copied"
        /\ phase' = "running" => pc' = base
    BY <1>3 DEF WriteRedirection
  <2>2. FlagKept'
    BY <1>3, <2>1 DEF OnCourse, FlagKept
  <2>3. ASSUME phase' = "running", Regular PROVE \E to \in Places' : Arrives(pc, to)'
    <3>1. UNCHANGED <<Places, Reached>>
      BY <2>1, Constants
    <3>2. /\ 1 \in 1..Len(copy') /\ copy'[1].at = pc' /\ copy'[1].means = 0
          /\ copy'[1].op # "bytes" /\ 0 \in Reached' /\ 0 \in Places'
      BY <1>3, <2>1, <2>3, <3>1, StartOnTrack
    <3> QED BY <3>2 DEF Arrives
  <2>4. Regular' = Regular
    BY <2>1, Constants
  <2> QED BY <2>2, <2>3, <2>4 DEF OnCourse, OnTrack
<1>4. ASSUME Written, Faithful, OnCourse,
             (\E n \in 1..Len(copy) : RunCopy(copy[n])) \/ RunOriginal
      PROVE  OnCourse'
  <2>1. Ran
    BY <1>4, RunsOn
  <2>2. UNCHANGED <<Regular, Places>>
    BY <2>1, Constants DEF Ran
  <2>3. CASE Regular
    <3>1. Running
      BY <1>4, <2>1, <2>3 DEF Running, Ran
    <3>2. PICK from \in Places : Arrives(pc, from)
      BY <1>4, <3>1 DEF OnCourse, OnTrack, Running
    <3>3. PICK to \in Places : Goes(from, to)
      BY <1>4, <3>1, <3>2, RunGoes DEF OnCourse
    <3>4. Arrives(pc, to)'
      BY <2>1, <3>3, ArrivesNext DEF Goes
    <3> QED BY <2>2, <3>3, <3>4 DEF OnCourse, OnTrack, Goes
  <2>4. CASE ~Regular
    BY <2>1, <2>2, <2>4 DEF Ran, OnCourse, OnTrack, FlagKept
  <2> QED BY <2>3, <2>4
<1>5. ASSUME Written, Faithful, OnCourse, UNCHANGED copyVars PROVE OnCourse'
  <2>1. UNCHANGED <<Regular, Places, Header, Reached>>
    BY <1>5, Constants DEF copyVars
  <2> QED BY <1>5, <2>1 DEF copyVars, cpu, OnCourse, OnTrack, FlagKept, Arrives, Tested
<1>6. Written /\ Faithful /\ OnCourse /\ [CopyNext]_copyVars => OnCourse'
  BY <1>2, <1>3, <1>4, <1>5 DEF CopyNext
<1> QED BY <1>1, <1>6, WrittenInvariant, FaithfulInvariant, PTL DEF CopySpec

(***************************************************************************)
(* For every regular function the copy of the header and what writeRedirection*)
(* leaves of the function do together, step by step, what the function did as it*)
(* was compiled: the refinement of FunctionCode, for every function, page and*)
(* platform, along whatever path the processor takes.                      *)
(***************************************************************************)
THEOREM Compiled == CopySpec => RunsAsCompiled
<1>1. CopyInit => FC!Init
  BY DEF CopyInit, FC!Init, Place
<1> DEFINE functionVars == <<code, FC!cpu>>
<1>2. ASSUME Written, Faithful, OnCourse, CopyInstruction \/ JumpBack
      PROVE  UNCHANGED functionVars
  <2>1. /\ UNCHANGED <<x64, code, base, meant, used>>
        /\ phase = "copying" /\ phase' # "running"
    BY <1>2 DEF CopyInstruction, JumpBack, cpu
  <2>2. Regular' = Regular
    BY <2>1, Constants
  <2> QED BY <2>1, <2>2 DEF FC!cpu, Place
<1>3. ASSUME Written, Faithful, OnCourse, WriteRedirection
      PROVE  UNCHANGED functionVars
  <2>1. /\ UNCHANGED <<x64, code, base, copy, meant, used>> /\ phase = "copied"
        /\ phase' = "running" => pc' = base
        /\ src' = src
    BY <1>3 DEF WriteRedirection
  <2>2. Regular' = Regular
    BY <2>1, Constants
  <2>3. Place = 0
    BY <2>1 DEF Place
  <2>4. Place' = 0
    <3>1. CASE phase' # "running" \/ ~Regular
      BY <2>2, <3>1 DEF Place
    <3>2. CASE phase' = "running" /\ Regular
      <4>1. 1 \in 1..Len(copy) /\ copy[1].at = base /\ copy[1].means = 0
        BY <1>3, <2>1, <3>2, StartOnTrack
      <4>2. \A k \in 1..Len(copy) : copy[k].at = base => k = 1
        <5> SUFFICES ASSUME NEW k \in 1..Len(copy), copy[k].at = base, k # 1 PROVE FALSE
          OBVIOUS
        <5>1. Strip(copy, base) /\ copy \in Seq(Pieces)
          BY <1>3 DEF Written, CopyTypes, Strip
        <5>2. 1 \in 1..(k - 1) /\ copy[1] \in Pieces /\ copy[k] \in Pieces
          BY <5>1, <4>1
        <5>3. copy[1].at + copy[1].len <= copy[k].at
          BY <5>1, <5>2 DEF Strip
        <5>4. copy[1].at \in Int /\ copy[1].len \in 1..26
          BY <5>2, PieceFields
        <5>5. ASSUME NEW x \in Int, NEW l \in 1..26 PROVE ~(x + l <= x)
          OBVIOUS
        <5> QED BY <4>1, <5>3, <5>4, <5>5
      <4> DEFINE n == CHOOSE k \in 1..Len(copy') : copy'[k].at = pc'
      <4>3. n \in 1..Len(copy) /\ copy[n].at = base
        BY <2>1, <3>2, <4>1
      <4> HIDE DEF n
      <4>4. n = 1
        BY <4>2, <4>3
      <4>5. Place' = copy'[n].means
        BY <2>1, <2>2, <3>2, <4>1 DEF Place, n
      <4> QED BY <2>1, <4>1, <4>4, <4>5
    <3> QED BY <3>1, <3>2
  <2> QED BY <2>1, <2>2, <2>3, <2>4 DEF FC!cpu
<1>4. ASSUME Written, Faithful, OnCourse,
             (\E n \in 1..Len(copy) : RunCopy(copy[n])) \/ RunOriginal
      PROVE  FC!Next \/ UNCHANGED functionVars
  <2>1. Ran
    BY <1>4, RunsOn
  <2>2. Regular' = Regular
    BY <2>1, Constants DEF Ran
  <2>3. CASE Regular
    <3>1. Running
      BY <1>4, <2>1, <2>3 DEF Running, Ran
    <3>2. PICK from \in Places : Arrives(pc, from)
      BY <1>4, <3>1 DEF OnCourse, OnTrack, Running
    <3>3. PICK to \in Places : Goes(from, to)
      BY <1>4, <3>1, <3>2, RunGoes DEF OnCourse
    <3>4. Place = from /\ Place' = to
      BY <2>1, <3>1, <3>2, <3>3, Arrival DEF Goes
    <3>5. CASE from \in DOMAIN code /\ Does(code[from], from, to)
      BY <2>1, <3>1, <3>4, <3>5, DoesIsNext
    <3>6. CASE to = from /\ UNCHANGED <<meant, used>>
      BY <2>1, <2>2, <3>4, <3>6 DEF Ran, FC!cpu
    <3> QED BY <3>3, <3>5, <3>6 DEF Goes
  <2>4. CASE ~Regular
    BY <2>1, <2>2, <2>4 DEF Ran, FC!cpu, Place
  <2> QED BY <2>3, <2>4
<1>5. ASSUME UNCHANGED copyVars PROVE UNCHANGED functionVars
  <2>1. Regular' = Regular
    BY <1>5, Constants DEF copyVars
  <2> QED BY <1>5, <2>1 DEF copyVars, cpu, FC!cpu, Place
<1>6. Written /\ Faithful /\ OnCourse /\ [CopyNext]_copyVars => [FC!Next]_functionVars
  BY <1>2, <1>3, <1>4, <1>5 DEF CopyNext
<1> QED BY <1>1, <1>6, WrittenInvariant, FaithfulInvariant, OnCourseInvariant, PTL
       DEF CopySpec, RunsAsCompiled, FC!Spec

=============================================================================
