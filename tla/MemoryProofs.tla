---------------------------- MODULE MemoryProofs ----------------------------
(***************************************************************************)
(* Proofs about the memory that HeatNG takes in an application: first that *)
(* the search for a page, FreeMemory, misses none, then that the code put  *)
(* into such pages, StubMemory, stays and is reached by the jumps to it.   *)
(***************************************************************************)
EXTENDS FreeMemory, StubMemory, WellFoundedInduction, TLAPS

-----------------------------------------------------------------------------
(* The search. *)

\* A set of numbers that is not empty has a least element.
LEMMA Least ==
  ASSUME NEW S, S \subseteq Nat, S # {}
  PROVE  \E x \in S : \A y \in S : x <= y
<1> DEFINE R == OpToRel(<, Nat)
<1>1. \E x \in S : \A y \in S : ~ (<<y, x>> \in R)
  <2> HIDE DEF R
  <2>1. IsWellFoundedOn(R, Nat)
    BY NatLessThanWellFounded DEF R
  <2>. QED BY <2>1, WFMin
<1>2. ASSUME NEW x \in S, NEW y \in S, y < x PROVE <<y, x>> \in R
  <2>1. <<y, x>> \in Nat \X Nat /\ <<y, x>>[1] = y /\ <<y, x>>[2] = x
    OBVIOUS
  <2>. QED BY <1>2, <2>1 DEF OpToRel
<1>. HIDE DEF R
<1>3. PICK x \in S : \A y \in S : ~ (<<y, x>> \in R)
  BY <1>1
<1>4. \A y \in S : ~ (y < x)
  BY <1>2, <1>3
<1>. QED BY <1>4

\* A region ends behind the page it is asked for, within the memory.
LEMMA EndBehind ==
  ASSUME NEW m, NEW p \in PageNumbers
  PROVE  EndOf(m, p) \in (p + 1) .. (Top + 1)
<1>1. Top + 1 \in Ends(m, p)
  BY MemoryAssumption DEF Ends, PageNumbers
<1>2. Ends(m, p) \subseteq Nat
  BY MemoryAssumption DEF Ends, PageNumbers
<1>3. \E e \in Ends(m, p) : \A d \in Ends(m, p) : e <= d
  BY <1>1, <1>2, Least
<1>4. EndOf(m, p) \in Ends(m, p)
  BY <1>3 DEF EndOf
<1>. QED BY <1>4 DEF Ends

\* A page is within the allocation unit it begins in.
LEMMA FirstBefore ==
  ASSUME NEW p \in PageNumbers
  PROVE  p \in Range(p)
<1>1. p \in Nat /\ p % Granule \in 0 .. (Granule - 1)
  BY MemoryAssumption DEF PageNumbers
<1>. QED BY <1>1, MemoryAssumption DEF Range, FirstOf

\* The first unit cannot be had, and a reservation is in one unit.
LEMMA HavingIsFree ==
  ASSUME NEW m, NEW p \in Available(m)
  PROVE  p \in PageNumbers /\ m[p] = Free /\ FirstOf(p) \in 1..p
<1>1. p \in PageNumbers /\ Reservable(m, p)
  BY DEF Available
<1>2. p \in Nat /\ p % Granule \in 0 .. (Granule - 1)
  BY <1>1, MemoryAssumption DEF PageNumbers
<1>. QED BY <1>1, <1>2, FirstBefore, MemoryAssumption DEF Reservable, FirstOf

\* What a query answers is a region that begins at the page asked for.
LEMMA QueryType ==
  ASSUME NEW m \in [PageNumbers -> Page], NEW p \in PageNumbers
  PROVE  /\ Query(m, p) \in Region
         /\ Query(m, p).base = p /\ Query(m, p).state = m[p].state
         /\ Query(m, p).end \in Nat /\ Query(m, p).end > p
<1>1. p \in 1..Top /\ Top \in Nat /\ EndOf(m, p) \in (p + 1) .. (Top + 1)
  BY EndBehind, MemoryAssumption DEF PageNumbers
<1>2. m[p].state \in {"free", "reserved", "committed", "none"}
  BY DEF Page
<1>. QED BY <1>1, <1>2 DEF Query, Region

\* What the search may do next.
LEMMA Steps ==
  ASSUME NEW region \in Region
  PROVE  Above(region) \in Nat /\ Below(region) \in 0..Top
<1>1. region.base \in 0..Top /\ region.end \in 0 .. (Top + 1) /\ Top \in Nat /\ 0 \in Stops
  BY MemoryAssumption DEF Region
<1>. QED BY <1>1 DEF Above, Below

\* A reservation leaves the memory a memory.
LEMMA ReserveType ==
  ASSUME memory \in [PageNumbers -> Page], NEW p, Reservable(memory, p), p \in PageNumbers, Reserve(p)
  PROVE  memory' \in [PageNumbers -> Page]
<1>1. FirstOf(p) \in 0..Top
  BY HavingIsFree, MemoryAssumption DEF Available, PageNumbers
<1>. QED BY <1>1 DEF Reserve, Page

\* Types hold at the start,
LEMMA SearchInitTypeOK == SearchInit => SearchTypeOK
<1>1. SearchInit => memory \in [PageNumbers -> Page] /\ Nothing \in Region
  BY MemoryAssumption DEF SearchInit, Nothing, Region
<1>2. ASSUME SearchInit
      PROVE  /\ phase = "idle" /\ near \in 0..Top /\ low \in 0..Top /\ result \in 0..Top
             /\ high \in (IF phase = "high" THEN Nat ELSE 0..Top)
             /\ changes \in 0..MaxChanges
  BY <1>2, MemoryAssumption DEF SearchInit
<1>3. SearchInit => upwards \in BOOLEAN /\ throughout \subseteq PageNumbers
  BY DEF SearchInit
<1>. QED BY <1>1, <1>2, <1>3 DEF SearchInit, SearchTypeOK

\* and every step keeps them.
LEMMA SearchNextTypeOK == SearchTypeOK /\ [SearchNext]_memoryVars => SearchTypeOK'
<1> SUFFICES ASSUME SearchTypeOK, [SearchNext]_memoryVars PROVE SearchTypeOK'
  OBVIOUS
<1> USE DEF SearchTypeOK
<1>0. Top \in Nat /\ PageNumbers \subseteq 0..Top
  BY MemoryAssumption DEF PageNumbers
<1>1. ASSUME NEW p \in PageNumbers, BeginNear(p) PROVE SearchTypeOK'
  <2>1. Query(memory, p) \in Region
    BY QueryType
  <2>2. Available(memory) \subseteq PageNumbers
    BY DEF Available
  <2>. QED BY <1>0, <1>1, <2>1, <2>2, Steps DEF BeginNear
<1>2. ASSUME NEW p \in PageNumbers, BeginInProcess(p) PROVE SearchTypeOK'
  <2>1. Available(memory) \subseteq PageNumbers
    BY DEF Available
  <2>. QED BY <1>0, <1>2, <2>1 DEF BeginInProcess
<1>3. CASE QueryHigh
  <2>1. mbih' \in Region /\ high' \in 0..Top
    BY <1>0, <1>3, QueryType DEF QueryHigh
  <2>. QED BY <1>3, <2>1 DEF QueryHigh
<1>4. CASE QueryLow
  <2>1. mbil' \in Region
    BY <1>4, QueryType DEF QueryLow
  <2>. QED BY <1>4, <2>1 DEF QueryLow
<1>5. CASE TryLow
  <2>1. memory' \in [PageNumbers -> Page] /\ result' \in 0..Top
    <3>1. low # 0 => low \in PageNumbers
      BY <1>0 DEF PageNumbers
    <3>. QED BY <1>5, <3>1, ReserveType DEF TryLow
  <2>. QED BY <1>5, <2>1 DEF TryLow
<1>6. CASE TryHigh
  <2>1. memory' \in [PageNumbers -> Page] /\ result' \in 0..Top
    <3>1. high # 0 => high \in PageNumbers
      BY <1>0, <1>6 DEF PageNumbers, TryHigh
    <3>. QED BY <1>6, <3>1, ReserveType DEF TryHigh
  <2>. QED BY <1>6, <2>1 DEF TryHigh
<1>7. CASE GoOn
  BY <1>7, Steps DEF GoOn
<1>8. CASE Commit
  <2>1. memory' \in [PageNumbers -> Page]
    BY <1>8 DEF Commit, Page
  <2>. QED BY <1>8, <2>1 DEF Commit
<1>9. ASSUME NEW p \in PageNumbers, AppAllocates(p) \/ AppFrees(p) PROVE SearchTypeOK'
  <2>1. memory' \in [PageNumbers -> Page]
    <3>1. Free \in Page /\ [base |-> p, state |-> "committed"] \in Page
      BY <1>0 DEF Free, Page
    <3>. QED BY <1>9, <3>1 DEF AppAllocates, AppFrees
  <2>2. throughout' \subseteq PageNumbers /\ changes' \in 0..MaxChanges
    BY <1>9, MemoryAssumption DEF AppAllocates, AppFrees
  <2>. QED BY <1>9, <2>1, <2>2 DEF AppAllocates, AppFrees, searchVars
<1>10. CASE UNCHANGED memoryVars
  BY <1>10 DEF memoryVars, searchVars
<1>. QED BY <1>1, <1>2, <1>3, <1>4, <1>5, <1>6, <1>7, <1>8, <1>9, <1>10
         DEF SearchNext, Begin, Search, Application

(* Whatever Windows answers, every variable keeps its type: the search is      *)
(* never at a page there is not, but right before it asks.                     *)
THEOREM SearchTypeCorrect == SearchSpec => []SearchTypeOK
BY SearchInitTypeOK, SearchNextTypeOK, PTL DEF SearchSpec

(***************************************************************************)
(* Nothing below the address is missed.                                      *)
(***************************************************************************)

Searching == {"high", "low", "tryLow", "tryHigh", "next", "none"}
Asked == {"tryLow", "tryHigh", "next", "none"}

\* PageNumbers that the search has to come to.
Due == {p \in throughout : p < near /\ InSegment(p)}

\* The search below has come to low, and to all that is above it.
AtLow == low < near /\ InSegment(low) /\ \A p \in Due : p <= low

BelowInv ==
  /\ low = 0 => Due = {} /\ mbil.base \in Stops
  /\ low # 0 => AtLow
  /\ (low # 0 /\ phase \in Asked) => mbil.base = low
  /\ (low # 0 /\ phase = "tryLow" /\ mbil.state # "free") => low \notin throughout
  /\ (low # 0 /\ phase \in {"tryHigh", "next"}) => low \notin throughout

\* The search above stays above.
AboveInv ==
  /\ high = 0 \/ high > near
  /\ mbih.end > near

SearchInv ==
  /\ SearchTypeOK
  /\ phase = "idle" => mbil.base \in Stops
  /\ phase \in Searching => near \in PageNumbers /\ throughout \subseteq Available(memory)
  /\ phase \in Searching /\ ~upwards => BelowInv /\ AboveInv
  /\ phase = "none" => low = 0
  /\ (phase \in {"found", "done", "failed"} /\ ~upwards /\ result < near) =>
       \A p \in throughout : p < near => p <= result

\* What the search has passed so far: at the start, nothing.
LEMMA InitSearch == SearchInit => SearchInv
<1>1. SearchInit => Nothing.base \in Stops
  BY MemoryAssumption DEF Nothing
<1>. QED BY <1>1, SearchInitTypeOK DEF SearchInit, SearchInv, Searching

\* Between two steps of the search below.
LEMMA SegmentAbove ==
  ASSUME near \in Nat, NEW p \in Nat, NEW q \in Nat, p <= q, InSegment(p)
  PROVE  InSegment(q)
BY DEF InSegment

\* Going down a page passes nothing that is due, or stops for good.
LEMMA Lower ==
  ASSUME SearchTypeOK, NEW p \in 1..near, InSegment(p), \A q \in Due : q < p
  PROVE  /\ p \in Stops => Due = {}
         /\ p \notin Stops => InSegment(p - 1) /\ \A q \in Due : q <= p - 1
<1>1. near \in Nat /\ throughout \subseteq Nat
  BY MemoryAssumption DEF SearchTypeOK, PageNumbers
<1>2. ASSUME p \in Stops, NEW q \in Due PROVE FALSE
  <2>1. p \in (q + 1) .. near /\ InSegment(q)
    BY <1>1, <1>2 DEF Due
  <2>. QED BY <1>2, <2>1 DEF InSegment
<1>3. ASSUME p \notin Stops PROVE InSegment(p - 1)
  BY <1>1, <1>3 DEF InSegment
<1>4. \A q \in Due : q <= p - 1
  BY <1>1 DEF Due
<1>. QED BY <1>2, <1>3, <1>4

\* Every step of either search keeps what it owes.
LEMMA NextSearch == SearchInv /\ [SearchNext]_memoryVars => SearchInv'
<1> SUFFICES ASSUME SearchInv, [SearchNext]_memoryVars PROVE SearchInv'
  OBVIOUS
<1>0. SearchTypeOK /\ SearchTypeOK'
  BY SearchNextTypeOK DEF SearchInv
<1>a. Top \in Nat /\ PageNumbers = 1..Top /\ 0 \in Stops /\ 1 \in Stops
  BY MemoryAssumption DEF PageNumbers
<1> USE DEF SearchInv
<1>1. ASSUME NEW p \in PageNumbers, BeginNear(p) PROVE SearchInv'
  <2>1. /\ Query(memory, p) \in Region /\ Query(memory, p).base = p
        /\ Query(memory, p).end \in Nat /\ Query(memory, p).end > p
    BY <1>0, QueryType DEF SearchTypeOK
  <2>2. /\ phase = "idle" /\ phase' = "high" /\ near' = p /\ mbih' = Query(memory, p)
        /\ high' = Query(memory, p).end + 1 /\ low' = IF p \in Stops THEN 0 ELSE p - 1
        /\ throughout' = Available(memory) /\ UNCHANGED <<memory, mbil>>
    BY <1>1, <2>1 DEF BeginNear, Above, Below
  <2>3. throughout' \subseteq PageNumbers
    BY <2>2 DEF Available
  <2>4. p \in Stops => Due' = {}
    BY <1>a, <2>2, <2>3 DEF Due, InSegment
  <2>5. p \notin Stops => InSegment(p - 1)'
    BY <1>a, <2>2 DEF InSegment
  <2>6. \A q \in Due' : q <= p - 1
    BY <1>a, <2>2, <2>3 DEF Due
  <2>7. BelowInv'
    <3>1. p = 1 => Due' = {}
      BY <1>a, <2>3, <2>2 DEF Due
    <3>. QED BY <1>a, <2>2, <2>4, <2>5, <2>6, <3>1 DEF BelowInv, AtLow, Asked
  <2>8. AboveInv'
    BY <1>a, <2>1, <2>2 DEF AboveInv
  <2>. QED BY <1>0, <2>2, <2>7, <2>8 DEF Searching
<1>2. ASSUME NEW p \in PageNumbers, BeginInProcess(p) PROVE SearchInv'
  BY <1>0, <1>2 DEF BeginInProcess, Searching
<1>3. CASE QueryHigh
  <2>1. phase = "high" /\ phase' = "low" /\ UNCHANGED <<memory, near, upwards, low, mbil, throughout>>
    BY <1>3 DEF QueryHigh
  <2>2. near \in PageNumbers /\ Due' = Due
    BY <2>1 DEF Searching, Due, InSegment
  <2>3. ASSUME ~upwards PROVE AboveInv'
    <3>1. AboveInv
      BY <2>1, <2>3 DEF Searching
    <3>2. CASE high \in PageNumbers
      <4>1. mbih' = Query(memory, high) /\ high' = high
        BY <1>3, <3>2 DEF QueryHigh
      <4>2. mbih'.end \in Nat /\ mbih'.end > high
        BY <1>0, <3>2, <4>1, QueryType DEF SearchTypeOK
      <4>. QED BY <1>a, <2>1, <2>2, <3>1, <3>2, <4>1, <4>2 DEF AboveInv
    <3>3. CASE high \notin PageNumbers
      BY <1>3, <2>1, <3>1, <3>3 DEF QueryHigh, AboveInv
    <3>. QED BY <3>2, <3>3
  <2>4. ~upwards => BelowInv'
    BY <2>1, <2>2 DEF BelowInv, AtLow, InSegment, Searching, Asked
  <2>. QED BY <1>0, <2>1, <2>2, <2>3, <2>4 DEF Searching
<1>4. CASE QueryLow
  <2>1. /\ phase = "low" /\ phase' \in {"tryLow", "none"} /\ (phase' = "none" => low = 0)
        /\ UNCHANGED <<memory, near, upwards, high, low, mbih, throughout>>
        /\ mbil' = IF low \in PageNumbers THEN Query(memory, low) ELSE mbil
    BY <1>4 DEF QueryLow
  <2>2. Due' = Due /\ near \in PageNumbers /\ throughout \subseteq Available(memory)
    BY <2>1 DEF Due, InSegment, Searching
  <2>3. ~upwards => AboveInv'
    BY <2>1 DEF AboveInv, Searching
  <2>4. ASSUME ~upwards PROVE BelowInv'
    <3>1. BelowInv
      BY <2>1, <2>4 DEF Searching
    <3>2. CASE low = 0
      BY <1>a, <2>1, <2>2, <3>1, <3>2 DEF BelowInv
    <3>3. CASE low # 0
      <4>1. low \in PageNumbers
        BY <1>0, <1>a, <3>3 DEF SearchTypeOK
      <4>2. mbil'.base = low /\ mbil'.state = memory[low].state
        BY <1>0, <2>1, <4>1, QueryType DEF SearchTypeOK
      <4>3. mbil'.state # "free" => low \notin throughout
        BY <2>2, <4>2, HavingIsFree DEF Free
      <4>. QED BY <2>1, <2>2, <3>1, <3>3, <4>2, <4>3 DEF BelowInv, AtLow, InSegment, Asked
    <3>. QED BY <3>2, <3>3
  <2>. QED BY <1>0, <2>1, <2>2, <2>3, <2>4 DEF Searching
<1>5. CASE TryLow
  <2>1. /\ phase = "tryLow" /\ phase' \in {"found", "tryHigh"}
        /\ UNCHANGED <<near, upwards, high, low, mbih, mbil, throughout>>
    BY <1>5 DEF TryLow
  <2>2. near \in PageNumbers /\ throughout \subseteq Available(memory) /\ throughout \subseteq PageNumbers
    BY <1>0, <2>1 DEF Searching, SearchTypeOK
  <2>3. CASE phase' = "found"
    <3>1. result' = low /\ low # 0
      BY <1>5, <2>3 DEF TryLow
    <3>2. ASSUME ~upwards, NEW p \in throughout, p < near PROVE p <= low
      <4>1. AtLow
        BY <2>1, <3>1, <3>2 DEF Searching, BelowInv
      <4>2. p \in Nat /\ low \in Nat /\ near \in Nat
        BY <1>0, <1>a, <2>2 DEF SearchTypeOK
      <4>3. CASE p > low
        <5>1. p \in Due
          BY <3>2, <4>1, <4>2, <4>3, SegmentAbove DEF AtLow, Due
        <5>. QED BY <4>1, <5>1 DEF AtLow
      <4>. QED BY <4>2, <4>3
    <3>. QED BY <1>0, <2>1, <2>3, <3>1, <3>2 DEF Searching
  <2>4. CASE phase' = "tryHigh"
    <3>1. UNCHANGED memory
      BY <1>5, <2>4 DEF TryLow
    <3>2. Due' = Due
      BY <2>1 DEF Due, InSegment
    <3>3. ASSUME ~upwards PROVE BelowInv' /\ AboveInv'
      <4>1. BelowInv /\ AboveInv
        BY <2>1, <3>3 DEF Searching
      <4>2. low # 0 => low \notin throughout
        <5>1. mbil.state = "free" /\ low # 0 => ~Reservable(memory, low)
          BY <1>5, <2>4 DEF TryLow
        <5>2. Reservable(memory, low) \/ low \notin throughout
          BY <2>2 DEF Available
        <5>. QED BY <2>1, <4>1, <5>1, <5>2 DEF BelowInv
      <4>3. BelowInv'
        BY <2>1, <2>4, <3>2, <4>1, <4>2 DEF BelowInv, AtLow, InSegment, Asked
      <4>. QED BY <2>1, <4>1, <4>3 DEF AboveInv
    <3>. QED BY <1>0, <2>1, <2>2, <2>4, <3>1, <3>3 DEF Searching
  <2>. QED BY <2>1, <2>3, <2>4
<1>6. CASE TryHigh
  <2>1. /\ phase = "tryHigh" /\ phase' \in {"found", "next"}
        /\ UNCHANGED <<near, upwards, high, low, mbih, mbil, throughout>>
    BY <1>6 DEF TryHigh
  <2>2. near \in PageNumbers /\ throughout \subseteq Available(memory) /\ near \in Nat /\ high \in Nat
    BY <1>0, <1>a, <2>1 DEF Searching, SearchTypeOK
  <2>3. CASE phase' = "found"
    <3>1. result' = high /\ high # 0
      BY <1>6, <2>3 DEF TryHigh
    <3>2. ~upwards => ~(result' < near)
      BY <2>1, <2>2, <3>1 DEF Searching, AboveInv
    <3>. QED BY <1>0, <2>1, <2>3, <3>2 DEF Searching
  <2>4. CASE phase' = "next"
    <3>1. UNCHANGED memory
      BY <1>6, <2>4 DEF TryHigh
    <3>2. Due' = Due
      BY <2>1 DEF Due, InSegment
    <3>3. ~upwards => BelowInv' /\ AboveInv'
      BY <2>1, <2>4, <3>2 DEF BelowInv, AboveInv, AtLow, InSegment, Asked, Searching
    <3>. QED BY <1>0, <2>1, <2>2, <2>4, <3>1, <3>3 DEF Searching
  <2>. QED BY <2>1, <2>3, <2>4
<1>7. CASE GoOn
  <2>1. /\ phase = "next" /\ phase' = "high" /\ high' = mbih.end + 1
        /\ low' = IF mbil.base \in Stops THEN 0 ELSE mbil.base - 1
        /\ UNCHANGED <<memory, near, upwards, mbih, mbil, throughout>>
    BY <1>7 DEF GoOn, Above, Below
  <2>2. near \in Nat /\ near \in PageNumbers /\ mbih.end \in Nat /\ Due' = Due
    BY <1>0, <1>a, <2>1 DEF Searching, SearchTypeOK, Region, Due, InSegment
  <2>3. ~upwards => AboveInv'
    BY <2>1, <2>2 DEF AboveInv, Searching
  <2>4. ASSUME ~upwards PROVE BelowInv'
    <3>1. BelowInv
      BY <2>1, <2>4 DEF Searching
    <3>2. CASE low = 0
      BY <2>1, <2>2, <3>1, <3>2 DEF BelowInv
    <3>3. CASE low # 0
      <4>1. mbil.base = low /\ AtLow /\ low \notin throughout
        BY <2>1, <3>1, <3>3 DEF BelowInv, Asked
      <4>2. low \in 1..near /\ InSegment(low) /\ low < near
        BY <1>0, <2>2, <3>3, <4>1 DEF SearchTypeOK, AtLow
      <4>3. \A q \in Due : q < low
        <5>0. PageNumbers \subseteq Nat /\ Due \subseteq throughout
          BY <1>a DEF Due
        <5>1. Due \subseteq Nat /\ low \notin Due
          BY <1>0, <4>1, <5>0 DEF SearchTypeOK
        <5>2. low \in Nat
          BY <2>2, <4>2
        <5>3. \A q \in Due : q <= low /\ q # low
          BY <4>1, <5>1 DEF AtLow
        <5>. QED BY <5>1, <5>2, <5>3
      <4>4. /\ low \in Stops => Due = {}
            /\ low \notin Stops => InSegment(low - 1) /\ \A q \in Due : q <= low - 1
        BY <1>0, <4>2, <4>3, Lower
      <4>7. CASE low \in Stops
        <5>1. low' = 0 /\ Due' = {}
          BY <2>1, <2>2, <4>1, <4>4, <4>7
        <5>2. mbil'.base \in Stops
          BY <2>1, <4>1, <4>7
        <5>. QED BY <2>1, <5>1, <5>2 DEF BelowInv
      <4>8. CASE low \notin Stops
        <5>1. low' = low - 1 /\ low' # 0 /\ low' < near
          BY <1>a, <2>1, <2>2, <4>1, <4>2, <4>8
        <5>2. InSegment(low)'
          BY <2>1, <4>4, <4>8, <5>1 DEF InSegment
        <5>3. AtLow'
          BY <2>1, <2>2, <4>4, <4>8, <5>1, <5>2 DEF AtLow
        <5>. QED BY <2>1, <5>1, <5>3 DEF BelowInv, Asked
      <4>. QED BY <4>7, <4>8
    <3>. QED BY <3>2, <3>3
  <2>. QED BY <1>0, <2>1, <2>2, <2>3, <2>4 DEF Searching
<1>8. CASE Commit
  BY <1>0, <1>8 DEF Commit, Searching
<1>9. ASSUME NEW p \in PageNumbers, AppAllocates(p) \/ AppFrees(p) PROVE SearchInv'
  <2>1. UNCHANGED searchVars /\ throughout' \subseteq throughout
        /\ throughout' \subseteq Available(memory')
    BY <1>9 DEF AppAllocates, AppFrees
  <2>2. Due' \subseteq Due
    BY <2>1 DEF Due, InSegment, searchVars
  <2>3. BelowInv /\ AboveInv => BelowInv' /\ AboveInv'
    BY <2>1, <2>2 DEF BelowInv, AboveInv, AtLow, InSegment, searchVars
  <2>. QED BY <1>0, <2>1, <2>3 DEF searchVars, Searching
<1>10. CASE UNCHANGED memoryVars
  BY <1>0, <1>10 DEF memoryVars, searchVars, Searching, BelowInv, AboveInv, AtLow, Due, InSegment,
                     Asked, Available
<1>. QED BY <1>1, <1>2, <1>3, <1>4, <1>5, <1>6, <1>7, <1>8, <1>9, <1>10
         DEF SearchNext, Begin, Search, Application

(* Whatever the application does to its memory meanwhile, the search finds     *)
(* the nearest page below that could be had all the time, if it is not across  *)
(* a boundary of 4 GB and nothing above has been found first.                  *)
THEOREM NothingMissed == SearchSpec => []NothingMissedBelow
<1>1. SearchInv => NothingMissedBelow
  <2> SUFFICES ASSUME SearchInv, ~upwards, NEW p \in throughout, p < near
               PROVE  /\ phase = "none" => ~InSegment(p)
                      /\ (phase \in {"found", "done", "failed"} /\ result < near) => p <= result
    BY DEF NothingMissedBelow
  <2>1. ASSUME phase = "none", InSegment(p) PROVE FALSE
    <3>1. low = 0 /\ Due = {}
      BY <2>1 DEF SearchInv, BelowInv, Searching
    <3>. QED BY <2>1, <3>1 DEF Due
  <2>. QED BY <2>1 DEF SearchInv
<1>. QED BY <1>1, InitSearch, NextSearch, PTL DEF SearchSpec
-----------------------------------------------------------------------------
(* The code. *)

(***************************************************************************)
(* Types.                                                                    *)
(***************************************************************************)

\* A piece of code fits a stub's share of a page.
LEMMA Pieces ==
  ASSUME NEW n \in Sizes
  PROVE  n \in 1..StubSize /\ n \in 1..PageSize /\ n \in Nat
BY PageAssumption

\* A write adds one block.
LEMMA Written ==
  ASSUME NEW at \in Nat, NEW size \in 1..PageSize,
         blocks \subseteq Blocks, overwritten \in BOOLEAN,
         Write(at, size)
  PROVE  blocks' \subseteq Blocks /\ overwritten' \in BOOLEAN
BY DEF Write, Block, Blocks

\* Types hold at the start,
LEMMA InitTypeOK == Init => TypeOK
<1>2. ASSUME Init
      PROVE  /\ pages \subseteq Pages /\ blocks \subseteq Blocks
             /\ redirections \subseteq [from : Functions, to : Nat]
  BY <1>2 DEF Init
<1>3. ASSUME Init
      PROVE  /\ function \in (IF pc = "idle" THEN {0} ELSE Functions)
             /\ stub \in Nat /\ pvMem \in Nat /\ pvMemBase \in Pages \cup {0}
             /\ pc \in {"idle", "copied", "near", "space", "stub", "caller"}
  BY <1>3 DEF Init
<1>4. ASSUME Init
      PROVE  /\ initialised \in BOOLEAN /\ overwritten \in BOOLEAN
             /\ behind \in BOOLEAN /\ scarce \in BOOLEAN
  BY <1>4 DEF Init
<1>5. ASSUME Init PROVE count \in 0..MaxIntercepts
  BY FunctionAssumption, <1>5 DEF Init
<1>. QED BY <1>2, <1>3, <1>4, <1>5 DEF TypeOK

\* and every step keeps them.
LEMMA NextTypeOK == TypeOK /\ [Next]_vars => TypeOK'
<1> SUFFICES ASSUME TypeOK, [Next]_vars PROVE TypeOK'
  OBVIOUS
<1> USE DEF TypeOK
<1>0. PageSize \in 1..PageSize /\ Pages \subseteq Nat /\ 0 \in Nat
  BY PageAssumption
<1>1. ASSUME NEW f \in Functions, CopyHeader(f) PROVE TypeOK'
  <2>1. PICK p \in Findable :
          /\ pages' = With(p)
          /\ IF p = 0
             THEN Error /\ UNCHANGED codeVars
             ELSE pc' = "copied" /\ function' = f /\ Write(p, PageSize) /\ UNCHANGED stub
    BY <1>1 DEF CopyHeader
  <2>2. p \in Nat /\ pages' \subseteq Pages
    BY <1>0, <2>1 DEF Findable, With
  <2>3. /\ pc' \in {"idle", "copied"}
        /\ function' \in (IF pc' = "idle" THEN {0} ELSE Functions) /\ stub' \in Nat
        /\ blocks' \subseteq Blocks /\ overwritten' \in BOOLEAN
    BY <1>0, <2>1, <2>2, Written DEF Error, codeVars
  <2>4. count' \in 0..MaxIntercepts
    BY <1>1, FunctionAssumption DEF CopyHeader
  <2>. QED BY <1>1, <2>2, <2>3, <2>4 DEF CopyHeader, staticVars, historyVars
<1>2. CASE InitialiseStatics
  BY <1>0, <1>2 DEF InitialiseStatics, Findable, With, interceptVars, codeVars
<1>3. CASE AllocIfFar
  BY <1>0, <1>3 DEF AllocIfFar, Findable, With, historyVars, interceptVars, codeVars
<1>4. CASE CheckSpace
  BY <1>0, <1>4 DEF CheckSpace, Findable, With, interceptVars, codeVars
<1>5. CASE WriteStub
  <2>1. /\ pages' \subseteq Pages /\ pvMem' \in Nat /\ stub' \in Nat
        /\ blocks' \subseteq Blocks /\ overwritten' \in BOOLEAN
    <3>1. CASE pvMem # 0 /\ pc' = "stub"
      <4>1. PICK n \in Sizes : pvMem' = pvMem + n /\ Write(pvMem, n)
        BY <1>5, <3>1 DEF WriteStub, Error
      <4>2. blocks' \subseteq Blocks /\ overwritten' \in BOOLEAN
        BY <4>1, Written, Pieces
      <4>. QED BY <1>5, <3>1, <4>1, <4>2, Pieces DEF WriteStub, Error
    <3>2. CASE pvMem = 0 /\ pc' = "stub"
      <4>1. PICK p \in Findable \ {0}, n \in Sizes :
              pages' = With(p) /\ stub' = p /\ Write(p, n)
        BY <1>5, <3>2 DEF WriteStub, Error
      <4>2. p \in Nat /\ pages' \subseteq Pages
        BY <1>0, <4>1 DEF Findable, With
      <4>3. blocks' \subseteq Blocks /\ overwritten' \in BOOLEAN
        BY <4>1, <4>2, Written, Pieces
      <4>. QED BY <1>5, <3>2, <4>1, <4>2, <4>3 DEF WriteStub, Error
    <3>3. CASE Error /\ UNCHANGED <<pages, pvMem, codeVars>>
      BY <1>0, <3>3 DEF Error, codeVars
    <3>. QED BY <1>5, <3>1, <3>2, <3>3 DEF WriteStub
  <2>2. pc' \in {"idle", "stub"} /\ function' \in (IF pc' = "idle" THEN {0} ELSE Functions)
    BY <1>5 DEF WriteStub, Error
  <2>. QED BY <1>5, <2>1, <2>2 DEF WriteStub, historyVars
<1>6. CASE WriteCallerStub
  <2>1. /\ pages' \subseteq Pages
        /\ blocks' \subseteq Blocks /\ overwritten' \in BOOLEAN
    <3>1. ASSUME NEW p \in Findable \ {0}, pages' = With(p), Write(p, PageSize)
          PROVE  /\ pages' \subseteq Pages
                 /\ blocks' \subseteq Blocks /\ overwritten' \in BOOLEAN
      BY <1>0, <3>1, Written DEF Findable, With
    <3>. QED BY <1>6, <3>1 DEF WriteCallerStub, codeVars
  <2>2. /\ pc' \in {"idle", "caller"} /\ stub' \in Nat
        /\ function' \in (IF pc' = "idle" THEN {0} ELSE Functions)
    BY <1>6, <1>0 DEF WriteCallerStub, Error, interceptVars
  <2>. QED BY <1>6, <2>1, <2>2 DEF WriteCallerStub, staticVars, historyVars
<1>7. CASE WriteRedirection
  <2>1. redirections' \subseteq [from : Functions, to : Nat]
    BY <1>7 DEF WriteRedirection
  <2>. QED BY <1>0, <1>7, <2>1 DEF WriteRedirection, staticVars, codeVars, historyVars
<1>8. CASE UNCHANGED vars
  BY <1>8 DEF vars, staticVars, interceptVars, codeVars, historyVars
<1>. QED BY <1>1, <1>2, <1>3, <1>4, <1>5, <1>6, <1>7, <1>8 DEF Next

(* Every variable keeps its type; the base, in particular, is where a page     *)
(* begins, or null.                                                            *)
THEOREM TypeCorrect == Spec => []TypeOK
BY InitTypeOK, NextTypeOK, PTL DEF Spec

(***************************************************************************)
(* Code is kept.                                                             *)
(***************************************************************************)

\* What has been written on the page at p is below a.
Fresh(p, a) == \A b \in blocks : b.at + b.size <= a \/ p + PageSize <= b.at

\* Where the cursor is: on the page of the base, behind what is written there.
OnPage(limit) ==
  /\ pvMemBase \in pages
  /\ pvMemBase <= pvMem /\ pvMem <= pvMemBase + limit
  /\ Fresh(pvMemBase, pvMem)

\* Or at the start of a page that memoryAllocExecutableIfFar has just provided.
OnNewPage == pvMem \in pages /\ pvMemBase < pvMem /\ Fresh(pvMem, pvMem)

Cursor ==
  /\ pvMemBase \in pages \cup {0}
  /\ pvMem = 0 \/ OnPage(PageSize) \/ (pc = "near" /\ OnNewPage)
  /\ pc = "space" => pvMem = 0 \/ OnPage(PageSize - StubSize)

KeptInv == TypeOK /\ (~behind => StubsFit /\ ~overwritten /\ Cursor)

\* A page that HEAT does not have yet holds none of its code.
LEMMA NewPage ==
  ASSUME TypeOK, StubsFit, NEW p \in Pages \ pages
  PROVE  \A b \in blocks : b.at + b.size <= p \/ p + PageSize <= b.at
<1> SUFFICES ASSUME NEW b \in blocks PROVE b.at + b.size <= p \/ p + PageSize <= b.at
  OBVIOUS
<1>1. PICK q \in pages : Within(b, q)
  BY DEF StubsFit
<1>2. b.at \in Nat /\ b.size \in 1..PageSize /\ q \in Pages /\ q # p
  BY DEF TypeOK, Blocks
<1>3. q + PageSize <= p \/ p + PageSize <= q
  BY <1>2, PageAssumption
<1>. QED BY <1>1, <1>2, <1>3, PageAssumption DEF Within

\* A piece written where nothing is overwrites nothing.
LEMMA WrittenApart ==
  ASSUME NEW at \in Nat, NEW size \in 1..PageSize, Write(at, size),
         overwritten \in BOOLEAN,
         \A b \in blocks : b.at + b.size <= at \/ at + size <= b.at
  PROVE  overwritten' = overwritten
BY DEF Write, Block, Apart

\* It fits if it is within a page of HEAT's, and so does what there was before.
LEMMA WrittenFits ==
  ASSUME NEW at \in Nat, NEW size \in 1..PageSize, Write(at, size), StubsFit,
         pages \subseteq pages', NEW p \in pages', p <= at, at + size <= p + PageSize
  PROVE  StubsFit'
<1> SUFFICES ASSUME NEW b \in blocks' PROVE \E q \in pages' : Within(b, q)
  BY DEF StubsFit, Within
<1>1. CASE b \in blocks
  BY <1>1 DEF StubsFit
<1>2. CASE b = Block(at, size)
  BY <1>2 DEF Within, Block
<1>. QED BY <1>1, <1>2 DEF Write

\* A whole page for one piece leaves the cursor alone.
LEMMA OwnPage ==
  ASSUME KeptInv, ~behind, NEW p \in Pages \ pages, NEW size \in 1..PageSize,
         pages' = pages \cup {p}, Write(p, size),
         UNCHANGED <<pvMem, pvMemBase, behind>>, pc # "near", pc' \notin {"near", "space"}
  PROVE  StubsFit' /\ ~overwritten' /\ Cursor'
<1> USE DEF KeptInv
<1>1. p \in Nat /\ PageSize \in Nat /\ size \in Nat /\ size <= PageSize
  BY PageAssumption
<1>2. overwritten' = overwritten
  <2>1. \A b \in blocks : b.at + b.size <= p \/ p + size <= b.at
    BY NewPage, <1>1 DEF TypeOK, Blocks
  <2>. QED BY <1>1, <2>1, WrittenApart DEF TypeOK
<1>3. StubsFit'
  BY <1>1, WrittenFits
<1>4. Cursor'
  <2>1. CASE pvMem = 0
    BY <2>1 DEF Cursor
  <2>2. CASE OnPage(PageSize)
    <3>1. pvMemBase \in Pages /\ pvMemBase # p /\ pvMem \in Nat
      BY <2>2 DEF TypeOK, OnPage
    <3>2. p + PageSize <= pvMemBase \/ pvMemBase + PageSize <= p
      BY <3>1, PageAssumption
    <3>3. ASSUME NEW b \in blocks'
          PROVE  b.at + b.size <= pvMem \/ pvMemBase + PageSize <= b.at
      <4>1. CASE b \in blocks
        BY <2>2, <4>1 DEF OnPage, Fresh
      <4>2. CASE b = Block(p, size)
        <5>1. b.at = p /\ b.size = size
          BY <4>2 DEF Block
        <5>2. pvMemBase \in Nat
          BY <3>1, PageAssumption
        <5>. QED BY <1>1, <2>2, <3>1, <3>2, <5>1, <5>2 DEF OnPage
      <4>. QED BY <3>3, <4>1, <4>2 DEF Write
    <3>4. OnPage(PageSize)'
      BY <2>2, <3>3 DEF OnPage, Fresh
    <3>. QED BY <3>4 DEF Cursor
  <2>. QED BY <2>1, <2>2 DEF Cursor
<1>. QED BY <1>2, <1>3, <1>4

\* A new page that holds nothing is a page to begin on.
LEMMA Begins ==
  ASSUME TypeOK, StubsFit, NEW p \in Pages \ pages, pages' = pages \cup {p},
         pvMem' = p, pvMemBase' = p, UNCHANGED blocks
  PROVE  OnPage(PageSize)' /\ OnPage(PageSize - StubSize)'
<1>1. p \in Nat /\ PageSize \in Nat /\ StubSize \in Nat /\ StubSize <= PageSize
  BY PageAssumption
<1>2. Fresh(p, p)'
  BY NewPage DEF Fresh
<1>. QED BY <1>1, <1>2 DEF OnPage, Fresh

\* More pages than before are no harm.
LEMMA MorePages ==
  ASSUME StubsFit, pages \subseteq pages', UNCHANGED blocks
  PROVE  StubsFit'
BY DEF StubsFit, Within

\* At the start there is no code to keep.
LEMMA InitKept == Init => KeptInv
<1>1. Init => StubsFit /\ ~overwritten /\ Cursor
  BY DEF Init, StubsFit, Cursor
<1>. QED BY <1>1, InitTypeOK DEF KeptInv

\* Every step writes behind what there is, or on a page that is new.
LEMMA NextKept == KeptInv /\ [Next]_vars => KeptInv'
<1> SUFFICES ASSUME KeptInv, [Next]_vars, ~behind' PROVE StubsFit' /\ ~overwritten' /\ Cursor'
  BY NextTypeOK DEF KeptInv
<1> USE DEF KeptInv
<1>0. ~behind
  BY DEF Next, CopyHeader, InitialiseStatics, AllocIfFar, CheckSpace, WriteStub,
         WriteCallerStub, WriteRedirection, vars, historyVars, TypeOK
<1>a. PageSize \in 1..PageSize /\ Pages \subseteq Nat /\ 0 \notin Pages
  BY PageAssumption
<1>b. TypeOK /\ StubsFit /\ ~overwritten /\ Cursor
  BY <1>0
<1>1. ASSUME NEW f \in Functions, CopyHeader(f) PROVE StubsFit' /\ ~overwritten' /\ Cursor'
  <2>1. PICK p \in Findable :
          /\ pages' = With(p)
          /\ IF p = 0
             THEN Error /\ UNCHANGED codeVars
             ELSE pc' = "copied" /\ function' = f /\ Write(p, PageSize) /\ UNCHANGED stub
    BY <1>1 DEF CopyHeader
  <2>2. UNCHANGED <<pvMem, pvMemBase, behind>> /\ pc = "idle"
    BY <1>1 DEF CopyHeader, staticVars, historyVars
  <2>3. CASE p = 0
    BY <1>b, <2>1, <2>2, <2>3, MorePages DEF With, Error, codeVars, Cursor, OnPage, Fresh
  <2>4. CASE p # 0
    BY <1>0, <1>a, <2>1, <2>2, <2>4, OwnPage DEF With, Findable
  <2>. QED BY <2>3, <2>4
<1>2. CASE InitialiseStatics
  <2>1. PICK p \in Findable : pages' = With(p) /\ pvMem' = p /\ pvMemBase' = p
    BY <1>2 DEF InitialiseStatics
  <2>2. UNCHANGED codeVars /\ pc' = "copied"
    BY <1>2 DEF InitialiseStatics
  <2>3. StubsFit'
    BY <1>b, <2>1, <2>2, MorePages DEF With, codeVars
  <2>4. p # 0 => OnPage(PageSize)'
    BY <1>b, <2>1, <2>2, Begins DEF With, codeVars, Findable
  <2>. QED BY <1>b, <2>1, <2>2, <2>3, <2>4 DEF Cursor, OnPage, codeVars
<1>3. CASE AllocIfFar
  <2>1. UNCHANGED <<pvMemBase, blocks, overwritten>> /\ pc = "copied" /\ pc' = "near"
    BY <1>3 DEF AllocIfFar, codeVars
  <2>2. CASE UNCHANGED <<pages, pvMem>>
    BY <1>b, <2>1, <2>2, MorePages DEF Cursor, OnPage, Fresh
  <2>3. CASE Far(function, pvMem)
    <3>1. PICK p \in Findable :
            /\ pages' = With(p) /\ pvMem' = p
            /\ behind' = (behind \/ (p # 0 /\ p < pvMemBase))
      BY <1>3, <2>3 DEF AllocIfFar
    <3>2. StubsFit'
      BY <1>b, <2>1, <3>1, MorePages DEF With
    <3>3. CASE p # 0
      <4>1. p \in Pages \ pages /\ p \in Nat /\ pvMemBase \in Nat /\ pages' = pages \cup {p}
        BY <1>a, <1>b, <3>1, <3>3 DEF Findable, With, TypeOK
      <4>2. ~(p < pvMemBase)
        BY <3>1, <3>3
      <4>3. pvMemBase < p
        BY <1>b, <3>3, <4>1, <4>2 DEF Cursor
      <4>4. Fresh(p, p)'
        BY <1>b, <2>1, <4>1, NewPage DEF Fresh
      <4>. QED BY <1>b, <2>1, <3>1, <3>2, <4>1, <4>3, <4>4 DEF Cursor, OnNewPage, Fresh
    <3>. QED BY <1>b, <2>1, <3>1, <3>2, <3>3 DEF Cursor, With
  <2>. QED BY <1>3, <2>2, <2>3 DEF AllocIfFar
<1>4. CASE CheckSpace
  <2>1. UNCHANGED <<blocks, overwritten>> /\ pc = "near" /\ pc' = "space"
    BY <1>4 DEF CheckSpace, codeVars
  <2>2. CASE pvMem - pvMemBase > PageSize - StubSize
    <3>1. PICK p \in Findable : pages' = With(p) /\ pvMem' = p /\ pvMemBase' = p
      BY <1>4, <2>2 DEF CheckSpace
    <3>2. StubsFit'
      BY <1>b, <2>1, <3>1, MorePages DEF With
    <3>3. p # 0 => OnPage(PageSize)' /\ OnPage(PageSize - StubSize)'
      BY <1>b, <2>1, <3>1, Begins DEF With, Findable
    <3>. QED BY <1>b, <2>1, <3>1, <3>2, <3>3 DEF Cursor, OnPage
  <2>3. CASE ~(pvMem - pvMemBase > PageSize - StubSize)
    <3>1. UNCHANGED <<pages, pvMem, pvMemBase>>
      BY <1>4, <2>3 DEF CheckSpace
    <3>2. /\ pvMem \in Nat /\ pvMemBase \in Nat
          /\ PageSize \in Nat /\ StubSize \in 1..PageSize
      BY <1>a, <1>b, PageAssumption DEF TypeOK
    <3>3. ~OnNewPage
      <4>1. SUFFICES ASSUME OnNewPage PROVE FALSE
        OBVIOUS
      <4>2. pvMem \in Pages /\ pvMemBase < pvMem
        BY <1>b, <4>1 DEF OnNewPage, TypeOK
      <4>3. CASE pvMemBase = 0
        BY <2>3, <3>2, <4>2, <4>3, PageAssumption
      <4>4. CASE pvMemBase \in Pages
        BY <2>3, <3>2, <4>2, <4>4, PageAssumption
      <4>. QED BY <1>b, <4>3, <4>4 DEF TypeOK
    <3>4. StubsFit'
      BY <1>b, <2>1, <3>1, MorePages
    <3>5. CASE pvMem = 0
      BY <1>b, <2>1, <3>1, <3>4, <3>5 DEF Cursor
    <3>6. CASE OnPage(PageSize)
      <4>1. OnPage(PageSize)' /\ OnPage(PageSize - StubSize)'
        BY <2>1, <2>3, <3>1, <3>2, <3>6 DEF OnPage, Fresh
      <4>. QED BY <1>b, <2>1, <3>1, <3>4, <4>1 DEF Cursor
    <3>. QED BY <1>b, <3>3, <3>5, <3>6 DEF Cursor
  <2>. QED BY <2>2, <2>3
<1>5. CASE WriteStub
  <2>1. UNCHANGED <<pvMemBase, behind>> /\ pc = "space" /\ pc' \in {"stub", "idle"}
    BY <1>5 DEF WriteStub, historyVars, Error
  <2>2. CASE Error /\ UNCHANGED <<pages, pvMem, codeVars>>
    BY <1>b, <2>1, <2>2, MorePages DEF Cursor, OnPage, Fresh, codeVars
  <2>3. ASSUME pvMem # 0, UNCHANGED pages,
               NEW n \in Sizes, pvMem' = pvMem + n, Write(pvMem, n)
        PROVE  StubsFit' /\ ~overwritten' /\ Cursor'
    <3>1. /\ n \in 1..PageSize /\ n \in Nat /\ n <= StubSize /\ StubSize <= PageSize
          /\ StubSize \in Nat /\ PageSize \in Nat
      BY PageAssumption
    <3>2. OnPage(PageSize - StubSize) /\ pvMem \in Nat /\ pvMemBase \in Pages
      BY <1>b, <2>1, <2>3 DEF Cursor, TypeOK, OnPage
    <3>3. pvMem + n <= pvMemBase + PageSize /\ pvMemBase <= pvMem /\ pvMemBase \in Nat
      BY <1>a, <3>1, <3>2 DEF OnPage
    <3>4. \A b \in blocks : b.at + b.size <= pvMem \/ pvMem + n <= b.at
      BY <1>b, <3>1, <3>2, <3>3 DEF OnPage, Fresh, TypeOK, Blocks
    <3>5. overwritten' = overwritten
      BY <1>b, <2>3, <3>1, <3>2, <3>4, WrittenApart DEF TypeOK
    <3>6. StubsFit'
      BY <1>b, <2>3, <3>1, <3>2, <3>3, WrittenFits DEF OnPage
    <3>7. ASSUME NEW b \in blocks'
          PROVE  b.at + b.size <= pvMem + n \/ pvMemBase + PageSize <= b.at
      <4>1. CASE b \in blocks
        BY <1>b, <3>1, <3>2, <4>1 DEF OnPage, Fresh, TypeOK, Blocks
      <4>2. CASE b = Block(pvMem, n)
        BY <3>1, <3>2, <4>2 DEF Block
      <4>. QED BY <2>3, <3>7, <4>1, <4>2 DEF Write
    <3>8. OnPage(PageSize)'
      BY <2>1, <2>3, <3>1, <3>2, <3>3, <3>7 DEF OnPage, Fresh
    <3>. QED BY <1>b, <2>1, <2>3, <3>5, <3>6, <3>8 DEF Cursor
  <2>4. ASSUME pvMem = 0, UNCHANGED pvMem,
               NEW p \in Findable \ {0}, NEW n \in Sizes, pages' = With(p), Write(p, n)
        PROVE  StubsFit' /\ ~overwritten' /\ Cursor'
    BY <1>0, <2>1, <2>4, OwnPage, Pieces DEF Findable, With
  <2>. QED BY <1>5, <2>2, <2>3, <2>4 DEF WriteStub
<1>6. CASE WriteCallerStub
  <2>1. /\ UNCHANGED <<pvMem, pvMemBase, behind>>
        /\ pc = "stub" /\ pc' \in {"caller", "idle"}
    BY <1>6 DEF WriteCallerStub, staticVars, historyVars, Error
  <2>2. CASE UNCHANGED <<pages, codeVars>>
    BY <1>b, <2>1, <2>2, MorePages DEF Cursor, OnPage, Fresh, codeVars
  <2>3. ASSUME NEW p \in Findable \ {0}, pages' = With(p), Write(p, PageSize)
        PROVE  StubsFit' /\ ~overwritten' /\ Cursor'
    BY <1>0, <1>a, <2>1, <2>3, OwnPage DEF Findable, With
  <2>. QED BY <1>6, <2>2, <2>3 DEF WriteCallerStub
<1>7. CASE WriteRedirection
  BY <1>b, <1>7, MorePages DEF WriteRedirection, Cursor, OnPage, Fresh, codeVars, staticVars
<1>8. CASE UNCHANGED vars
  BY <1>b, <1>8, MorePages
     DEF vars, Cursor, OnPage, OnNewPage, Fresh, codeVars, staticVars
<1>. QED BY <1>1, <1>2, <1>3, <1>4, <1>5, <1>6, <1>7, <1>8 DEF Next

(* As long as no page of memoryAllocExecutableIfFar's lies below the one       *)
(* before, every piece of code is on a page of HEAT's and over no other.       *)
THEOREM Kept == Spec => []CodeIsKept
<1>1. KeptInv => CodeIsKept
  BY DEF KeptInv, CodeIsKept
<1>. QED BY <1>1, InitKept, NextKept, PTL DEF Spec

(***************************************************************************)
(* Jumps reach.                                                              *)
(***************************************************************************)

\* Unless memory was scarce there is a page once there was one, and who passes
\* the check of the distance is near.
ReachInv ==
  /\ TypeOK
  /\ ~scarce =>
       /\ \A r \in redirections : ~Far(r.from, r.to)
       /\ initialised => pvMem # 0
       /\ pc \in {"near", "space"} => initialised /\ ~Far(function, pvMem)
       /\ pc \in {"stub", "caller"} => ~Far(function, stub)

\* A jump that is written is checked against its reach first.
LEMMA NextReach == ReachInv /\ [Next]_vars => ReachInv'
<1> SUFFICES ASSUME ReachInv, [Next]_vars PROVE ReachInv'
  OBVIOUS
<1>0. TypeOK /\ TypeOK'
  BY NextTypeOK DEF ReachInv
<1> USE DEF ReachInv
<1>1. ASSUME NEW f \in Functions, CopyHeader(f) PROVE ReachInv'
  BY <1>0, <1>1 DEF CopyHeader, Error, staticVars, historyVars
<1>2. CASE InitialiseStatics
  BY <1>0, <1>2 DEF InitialiseStatics
<1>3. CASE AllocIfFar
  BY <1>0, <1>3 DEF AllocIfFar, interceptVars, historyVars
<1>4. CASE CheckSpace
  BY <1>0, <1>4 DEF CheckSpace, interceptVars
<1>5. CASE WriteStub
  <2>1. CASE Error
    BY <1>0, <1>5, <2>1 DEF WriteStub, Error, historyVars
  <2>2. CASE pvMem # 0 /\ pc' = "stub"
    BY <1>0, <1>5, <2>2, PageAssumption DEF WriteStub, Error, historyVars, TypeOK
  <2>3. CASE pvMem = 0
    BY <1>0, <1>5, <2>3 DEF WriteStub, Error, historyVars
  <2>. QED BY <1>5, <2>1, <2>2, <2>3 DEF WriteStub
<1>6. CASE WriteCallerStub
  BY <1>0, <1>6 DEF WriteCallerStub, Error, staticVars, interceptVars, historyVars
<1>7. CASE WriteRedirection
  BY <1>0, <1>7 DEF WriteRedirection, staticVars, historyVars
<1>8. CASE UNCHANGED vars
  BY <1>0, <1>8 DEF vars, staticVars, interceptVars, historyVars
<1>. QED BY <1>1, <1>2, <1>3, <1>4, <1>5, <1>6, <1>7, <1>8 DEF Next

\* The check allows every distance that the jump can span, and a few more below.
LEMMA NearIsEncodable ==
  ASSUME NEW from \in Nat, NEW to \in Nat, ~Far(from, to)
  PROVE  Encodable(Displacement(from, to)) \/ AtTheEdge([from |-> from, to |-> to])
<1>1. from - to \in Int /\ from - to <= Reach /\ to - from <= Reach
  BY FunctionAssumption DEF Far
<1>2. CASE from - to <= Reach + 1 - JumpSize
  BY <1>1, <1>2, FunctionAssumption DEF Displacement, Encodable
<1>3. CASE ~(from - to <= Reach + 1 - JumpSize)
  BY <1>1, <1>3, FunctionAssumption DEF AtTheEdge
<1>. QED BY <1>2, <1>3

(* As long as a page near is found whenever one is asked for stubs, the        *)
(* displacement of every jump that has been written leads to its stub, unless  *)
(* the stub is so far below that only the jump's own size takes it out of      *)
(* reach.                                                                      *)
THEOREM Reaches == Spec => []JumpsReach
<1>1. Init => ReachInv
  BY InitTypeOK DEF Init, ReachInv
<1>2. ReachInv => JumpsReach
  <2> SUFFICES ASSUME ReachInv, ~scarce, NEW r \in redirections
               PROVE  Encodable(Displacement(r.from, r.to)) \/ AtTheEdge(r)
    BY DEF JumpsReach
  <2>1. r.from \in Nat /\ r.to \in Nat /\ ~Far(r.from, r.to)
    BY FunctionAssumption DEF ReachInv, TypeOK
  <2>. QED BY <2>1, NearIsEncodable DEF AtTheEdge
<1>. QED BY <1>1, <1>2, NextReach, PTL DEF Spec
=============================================================================
