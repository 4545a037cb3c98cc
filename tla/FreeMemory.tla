----------------------------- MODULE FreeMemory -----------------------------
(***************************************************************************)
(* findFreeMemNear: the search for a free page near an address, on Win64,    *)
(* where a redirection is a jump of 32 bits.  It asks Windows about one      *)
(* region above and one page below after the other and reserves the first    *)
(* free one, while the application's threads allocate and free memory.       *)
(*                                                                           *)
(* Addresses are numbers of pages of PAGE_SIZE; 0 is the null pointer.       *)
(***************************************************************************)
EXTENDS Integers

CONSTANTS
  Top,         \* the last page a process may use
  Granule,     \* pages per unit of allocation: a reservation begins at a multiple
  Stops,       \* pages whose address is, in its lower 32 bits, at most PAGE_SIZE
  Memories,    \* what may be allocated at first
  MaxChanges   \* bound: allocations and frees of the application during a search

PageNumbers == 1..Top
Free == [base |-> 0, state |-> "free"]

\* The first page of the allocation a page belongs to.
Page == [base : 0..Top, state : {"free", "reserved", "committed"}]

ASSUME MemoryAssumption ==
  /\ Top \in Nat /\ Granule \in Nat \ {0} /\ MaxChanges \in Nat
  /\ Stops \subseteq 0..Top /\ {0, 1} \subseteq Stops
  /\ Memories \subseteq [PageNumbers -> Page]

VARIABLES
  memory,      \* the AUT's, or of the process to inject into
  phase,       \* where the search is
  near,        \* pvAddress
  upwards,     \* is it the search in another process, which goes up only?
  high, low,   \* pbHigh, pbLow
  mbih, mbil,  \* what Windows said last of each: where the region begins and ends, its state
  result,
  changes,
  throughout   \* history: pages that could have been had since the search began

searchVars == <<phase, near, upwards, high, low, mbih, mbil, result>>
memoryVars == <<memory, searchVars, changes, throughout>>

FirstOf(p) == p - (p % Granule)

\* VirtualAlloc reserves from the unit's first page on; not in the first unit.
Range(p) == FirstOf(p) .. p
Reservable(m, p) == FirstOf(p) > 0 /\ \A q \in Range(p) : m[q] = Free

Available(m) == {p \in PageNumbers : Reservable(m, p)}

\* VirtualQuery: the pages like p from p on.
Ends(m, p) == {e \in (p + 1) .. (Top + 1) : e \in PageNumbers => m[e] # m[p]}
EndOf(m, p) == CHOOSE e \in Ends(m, p) : \A d \in Ends(m, p) : e <= d

Query(m, p) == [base |-> p, end |-> EndOf(m, p), state |-> m[p].state]

Nothing == [base |-> 0, end |-> 0, state |-> "none"]

\* The truncation to 32 bits ends the search below at each 4 GB.
Above(region) == region.end + 1
Below(region) == IF region.base \in Stops THEN 0 ELSE region.base - 1

SearchInit ==
  /\ memory \in Memories
  /\ phase = "idle"
  /\ near = 0 /\ high = 0 /\ low = 0
  /\ upwards = FALSE
  /\ mbih = Nothing /\ mbil = Nothing
  /\ result = 0
  /\ changes = 0
  /\ throughout = {}

-----------------------------------------------------------------------------
(* The search. *)

\* In the server, from a function's address on, in both directions.
BeginNear(p) ==
  /\ phase = "idle"
  /\ phase' = "high"
  /\ near' = p
  /\ mbih' = Query(memory, p)
  /\ high' = Above(Query(memory, p))
  /\ low' = Below(Query(memory, p))
  /\ upwards' = FALSE
  /\ throughout' = Available(memory)
  /\ UNCHANGED <<memory, mbil, result, changes>>

\* In the process to inject into, from an address on, upwards.
BeginInProcess(p) ==
  /\ phase = "idle"
  /\ phase' = "high"
  /\ near' = p
  /\ high' = p
  /\ low' = 0
  /\ upwards' = TRUE
  /\ throughout' = Available(memory)
  /\ UNCHANGED <<memory, mbih, mbil, result, changes>>

\* Behind the last page the query fails, and what it said last stands.
QueryHigh ==
  /\ phase = "high"
  /\ IF high \in PageNumbers
     THEN mbih' = Query(memory, high) /\ UNCHANGED high
     ELSE high' = 0 /\ UNCHANGED mbih
  /\ phase' = "low"
  /\ UNCHANGED <<memory, near, upwards, low, mbil, result, changes, throughout>>

QueryLow ==
  /\ phase = "low"
  /\ mbil' = IF low \in PageNumbers THEN Query(memory, low) ELSE mbil
  /\ phase' = IF high = 0 /\ low = 0 THEN "none" ELSE "tryLow"
  /\ UNCHANGED <<memory, near, upwards, high, low, mbih, result, changes, throughout>>

Reserve(p) ==
  memory' = [q \in PageNumbers |->
    IF q \in Range(p) THEN [base |-> FirstOf(p), state |-> "reserved"] ELSE memory[q]]

\* The comparison of distances is one of signs: below always goes first.
TryLow ==
  /\ phase = "tryLow"
  /\ IF low # 0 /\ mbil.state = "free" /\ Reservable(memory, low)
     THEN Reserve(low) /\ result' = low /\ phase' = "found"
     ELSE phase' = "tryHigh" /\ UNCHANGED <<memory, result>>
  /\ UNCHANGED <<near, upwards, high, low, mbih, mbil, changes, throughout>>

TryHigh ==
  /\ phase = "tryHigh"
  /\ IF high # 0 /\ mbih.state = "free" /\ Reservable(memory, high)
     THEN Reserve(high) /\ result' = high /\ phase' = "found"
     ELSE phase' = "next" /\ UNCHANGED <<memory, result>>
  /\ UNCHANGED <<near, upwards, high, low, mbih, mbil, changes, throughout>>

\* To the unit below.
GoOnByUnits ==
  /\ phase = "next"
  /\ high' = Above(mbih)
  /\ low' = IF mbil.base <= Granule THEN 0 ELSE mbil.base - Granule
  /\ phase' = "high"
  /\ UNCHANGED <<memory, near, upwards, mbih, mbil, result, changes, throughout>>

\* From where the region began.
GoOnHere ==
  /\ phase = "next"
  /\ high' = Above(mbih)
  /\ low' = mbil.base
  /\ phase' = "high"
  /\ UNCHANGED <<memory, near, upwards, mbih, mbil, result, changes, throughout>>

\* mbil is still empty when there was nothing to ask about below.
GoOn ==
  /\ phase = "next"
  /\ high' = Above(mbih)
  /\ low' = Below(mbil)
  /\ phase' = "high"
  /\ UNCHANGED <<memory, near, upwards, mbih, mbil, result, changes, throughout>>

\* memoryAllocNear commits what was found; the reservation stays when that fails.
Commit ==
  /\ phase = "found"
  /\ \/ /\ memory' = [memory EXCEPT ![result].state = "committed"]
        /\ phase' = "done"
     \/ phase' = "failed" /\ UNCHANGED memory
  /\ UNCHANGED <<near, upwards, high, low, mbih, mbil, result, changes, throughout>>

Search == QueryHigh \/ QueryLow \/ TryLow \/ TryHigh \/ GoOn \/ Commit

-----------------------------------------------------------------------------
(* The application's threads. *)

AppAllocates(p) ==
  /\ changes < MaxChanges
  /\ p = FirstOf(p)
  /\ Reservable(memory, p)
  /\ memory' = [memory EXCEPT ![p] = [base |-> p, state |-> "committed"]]
  /\ throughout' = throughout \cap Available(memory')
  /\ changes' = changes + 1
  /\ UNCHANGED searchVars

\* Not HEAT's, and not the code that is being intercepted.
AppFrees(p) ==
  /\ changes < MaxChanges
  /\ memory[p].base = p
  /\ near \in PageNumbers => memory[near].base # p
  /\ result \in PageNumbers => memory[result].base # p
  /\ memory' = [q \in PageNumbers |-> IF memory[q].base = p THEN Free ELSE memory[q]]
  /\ throughout' = throughout \cap Available(memory')
  /\ changes' = changes + 1
  /\ UNCHANGED searchVars

Application == phase # "idle" /\ \E p \in PageNumbers : AppAllocates(p) \/ AppFrees(p)

Begin ==
  \E p \in PageNumbers :
    memory[p].state = "committed" /\ (BeginNear(p) \/ BeginInProcess(p))

SearchNext == Begin \/ Search \/ Application

SearchSpec == SearchInit /\ [][SearchNext]_memoryVars

\* The thread that searches is scheduled.
FairSearchSpec == SearchSpec /\ WF_memoryVars(Search)

-----------------------------------------------------------------------------
(* Properties. *)

Region == [base : 0..Top, end : 0..(Top + 1), state : {"free", "reserved", "committed", "none"}]

SearchTypeOK ==
  /\ memory \in [PageNumbers -> Page]
  /\ phase \in {"idle", "high", "low", "tryLow", "tryHigh", "next", "found",
               "none", "done", "failed"}
  /\ near \in 0..Top /\ upwards \in BOOLEAN
  /\ high \in (IF phase = "high" THEN Nat ELSE 0..Top) /\ low \in 0..Top
  /\ mbih \in Region /\ mbil \in Region
  /\ result \in 0..Top
  /\ changes \in 0..MaxChanges
  /\ throughout \subseteq PageNumbers

\* Where the search below would come to p.
InSegment(p) == \A q \in (p + 1) .. near : q \notin Stops

(* Below the address nothing is missed.  A page that could have been had all   *)
(* through the search is found if the search comes to nothing, and is not      *)
(* between the address and the page that is found below.  It may be missed     *)
(* when it is across a boundary of 4 GB, or above, where the search asks for   *)
(* one page of each region.                                                    *)
NothingMissedBelow ==
  ~upwards => \A p \in throughout : p < near =>
    /\ phase = "none" => ~InSegment(p)
    /\ (phase \in {"found", "done", "failed"} /\ result < near) => p <= result

(* The search ends, whatever the application does: with a page or with none.   *)
SearchEnds == (phase # "idle") ~> (phase \in {"none", "done", "failed"})
=============================================================================
