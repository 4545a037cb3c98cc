----------------------------- MODULE StubMemory -----------------------------
(***************************************************************************)
(* Where interceptFunction puts the code it generates.  The copied header    *)
(* and the caller stub get pages of their own.  Replacement stubs share      *)
(* pages: a static cursor, pvMem, moves through a page, and a base tells     *)
(* when it is full.                                                          *)
(*                                                                           *)
(* The search for a page (FreeMemory) is here a choice of any page that is   *)
(* not HEAT's yet, or of none.                                               *)
(***************************************************************************)
EXTENDS Integers

CONSTANTS
  Pages,       \* addresses where a page of HEAT's may begin
  PageSize,    \* PAGE_SIZE
  StubSize,    \* what the code keeps free for a stub, 0x300
  Sizes,       \* the sizes stubs have
  Functions,   \* addresses of functions
  Reach,       \* that the code checks distances against, 0x7fffffff
  JumpSize,    \* of a jmp rel32, 5
  MaxIntercepts   \* bound

ASSUME PageAssumption ==
  /\ PageSize \in Nat \ {0} /\ StubSize \in 1..PageSize
  /\ Sizes \subseteq 1..StubSize
  /\ Pages \subseteq {p \in Nat : p >= PageSize}
  /\ \A p, q \in Pages : p < q => p + PageSize <= q

ASSUME FunctionAssumption ==
  /\ Functions \subseteq Nat \ {0} /\ MaxIntercepts \in Nat
  /\ Reach \in Nat /\ JumpSize \in Nat

VARIABLES
  pages,         \* HEAT's
  initialised,   \* have the statics been initialised?
  pvMem, pvMemBase,
  pc, function, stub,   \* interceptFunction, what it intercepts, m_pvReplacementStub
  count,         \* calls of interceptFunction
  blocks,        \* code that has been written: where, and how much
  redirections,  \* functions and the stubs they jump to
  overwritten,   \* history: has code been written over other code?
  behind,        \* history: a new page lay below the page that the base is on
  scarce         \* history: no page, or a far one, was found for stubs

staticVars == <<initialised, pvMem, pvMemBase>>
interceptVars == <<function, stub>>
codeVars == <<blocks, overwritten>>
historyVars == <<behind, scarce>>
vars == <<pages, staticVars, pc, interceptVars, count, codeVars, redirections, historyVars>>

Far(a, b) == a - b > Reach \/ b - a > Reach

\* What a jmp at the address from to the address to adds to the address of the
\* instruction that follows it.
Displacement(from, to) == to - (from + JumpSize)

\* A displacement is a signed number of 32 bits: 0x80000000 below, 0x7fffffff above.
Encodable(d) == d \in -(Reach + 1)..Reach

\* memoryAllocExecutableNear finds a page or returns the null pointer.
Findable == (Pages \ pages) \cup {0}

With(p) == IF p = 0 THEN pages ELSE pages \cup {p}

Block(at, size) == [at |-> at, size |-> size]

Apart(b, c) == b.at + b.size <= c.at \/ c.at + c.size <= b.at

Write(at, size) ==
  /\ blocks' = blocks \cup {Block(at, size)}
  /\ overwritten' = (overwritten \/ \E b \in blocks : ~Apart(b, Block(at, size)))

Init ==
  /\ pages = {}
  /\ initialised = FALSE
  /\ pvMem = 0 /\ pvMemBase = 0
  /\ pc = "idle"
  /\ function = 0 /\ stub = 0
  /\ count = 0
  /\ blocks = {} /\ redirections = {}
  /\ overwritten = FALSE /\ behind = FALSE /\ scarce = FALSE

\* Frees of the error path: MEM_RELEASE with a size fails, nothing is freed.
Error == pc' = "idle" /\ function' = 0 /\ stub' = 0

-----------------------------------------------------------------------------
(* interceptFunction, for a function that has been resolved. *)

\* generateFunctionHeaderCopy, with pvStubMem = 0: a page of its own.
CopyHeader(f) ==
  /\ pc = "idle"
  /\ count < MaxIntercepts
  /\ count' = count + 1
  /\ \E p \in Findable :
       /\ pages' = With(p)
       /\ IF p = 0
          THEN Error /\ UNCHANGED codeVars
          ELSE pc' = "copied" /\ function' = f /\ Write(p, PageSize) /\ UNCHANGED stub
  /\ UNCHANGED <<staticVars, redirections, historyVars>>

\* The initial values of the statics, in the first call that comes here.
InitialiseStatics ==
  /\ pc = "copied"
  /\ ~initialised
  /\ \E p \in Findable :
       /\ pages' = With(p)
       /\ pvMem' = p
       /\ pvMemBase' = p
       /\ scarce' = (scarce \/ p = 0 \/ Far(function, p))
  /\ initialised' = TRUE
  /\ UNCHANGED <<pc, interceptVars, count, codeVars, redirections, behind>>

\* The distance of the cursor from its page, not from the function.
AllocIfPageFar ==
  /\ pc = "copied"
  /\ initialised
  /\ IF Far(pvMemBase, pvMem)
     THEN \E p \in Findable :
            /\ pages' = With(p)
            /\ pvMem' = p
            /\ scarce' = (scarce \/ p = 0 \/ Far(function, p))
            /\ behind' = (behind \/ (p # 0 /\ p < pvMemBase))
     ELSE UNCHANGED <<pages, pvMem, historyVars>>
  /\ pc' = "near"
  /\ UNCHANGED <<initialised, pvMemBase, interceptVars, count, codeVars, redirections>>

\* memoryAllocExecutableIfFar: the base stays.
AllocIfFar ==
  /\ pc = "copied"
  /\ initialised
  /\ IF Far(function, pvMem)
     THEN \E p \in Findable :
            /\ pages' = With(p)
            /\ pvMem' = p
            /\ scarce' = (scarce \/ p = 0 \/ Far(function, p))
            /\ behind' = (behind \/ (p # 0 /\ p < pvMemBase))
     ELSE UNCHANGED <<pages, pvMem, historyVars>>
  /\ pc' = "near"
  /\ UNCHANGED <<initialised, pvMemBase, interceptVars, count, codeVars, redirections>>

\* Up to the very end of the page.
CheckFull ==
  /\ pc = "near"
  /\ IF pvMem - pvMemBase >= PageSize
     THEN \E p \in Findable :
            /\ pages' = With(p)
            /\ pvMem' = p
            /\ pvMemBase' = p
            /\ scarce' = (scarce \/ p = 0 \/ Far(function, p))
     ELSE UNCHANGED <<pages, pvMem, pvMemBase, scarce>>
  /\ pc' = "space"
  /\ UNCHANGED <<initialised, interceptVars, count, codeVars, redirections, behind>>

\* Is there space left?  A new page moves the base, too.
CheckSpace ==
  /\ pc = "near"
  /\ IF pvMem - pvMemBase > PageSize - StubSize
     THEN \E p \in Findable :
            /\ pages' = With(p)
            /\ pvMem' = p
            /\ pvMemBase' = p
            /\ scarce' = (scarce \/ p = 0 \/ Far(function, p))
     ELSE UNCHANGED <<pages, pvMem, pvMemBase, scarce>>
  /\ pc' = "space"
  /\ UNCHANGED <<initialised, interceptVars, count, codeVars, redirections, behind>>

\* generateReplacementStub: at the cursor or, if there is none, on a page near
\* the copied header; or the replacement cannot be resolved.
WriteStub ==
  /\ pc = "space"
  /\ \/ /\ pvMem # 0
        /\ \E n \in Sizes : pvMem' = pvMem + n /\ Write(pvMem, n)
        /\ stub' = pvMem
        /\ pc' = "stub"
        /\ UNCHANGED <<pages, function>>
     \/ /\ pvMem = 0
        /\ \E p \in Findable \ {0}, n \in Sizes :
             pages' = With(p) /\ stub' = p /\ Write(p, n)
        /\ pc' = "stub"
        /\ UNCHANGED <<pvMem, function>>
     \/ Error /\ UNCHANGED <<pages, pvMem, codeVars>>
  /\ UNCHANGED <<initialised, pvMemBase, count, redirections, historyVars>>

\* Of a fully reentrant intercept, generateCallerStub, which may find no page.
\* Otherwise the copied header is the caller.
WriteCallerStub ==
  /\ pc = "stub"
  /\ \/ /\ \E p \in Findable \ {0} : pages' = With(p) /\ Write(p, PageSize)
        /\ pc' = "caller"
        /\ UNCHANGED interceptVars
     \/ pc' = "caller" /\ UNCHANGED <<pages, interceptVars, codeVars>>
     \/ Error /\ UNCHANGED <<pages, codeVars>>
  /\ UNCHANGED <<staticVars, count, redirections, historyVars>>

\* writeRedirection, or the page cannot be made writable.
WriteRedirection ==
  /\ pc = "caller"
  /\ \/ redirections' = redirections \cup {[from |-> function, to |-> stub]}
     \/ UNCHANGED redirections
  /\ pc' = "idle" /\ function' = 0 /\ stub' = 0
  /\ UNCHANGED <<pages, staticVars, count, codeVars, historyVars>>

Next ==
  \/ \E f \in Functions : CopyHeader(f)
  \/ InitialiseStatics
  \/ AllocIfFar
  \/ CheckSpace
  \/ WriteStub
  \/ WriteCallerStub
  \/ WriteRedirection

Spec == Init /\ [][Next]_vars

-----------------------------------------------------------------------------
(* Properties. *)

Blocks == [at : Nat, size : 1..PageSize]

TypeOK ==
  /\ pages \subseteq Pages
  /\ initialised \in BOOLEAN
  /\ pvMem \in Nat /\ pvMemBase \in Pages \cup {0}
  /\ pc \in {"idle", "copied", "near", "space", "stub", "caller"}
  /\ function \in (IF pc = "idle" THEN {0} ELSE Functions) /\ stub \in Nat
  /\ count \in 0..MaxIntercepts
  /\ blocks \subseteq Blocks
  /\ redirections \subseteq [from : Functions, to : Nat]
  /\ overwritten \in BOOLEAN /\ behind \in BOOLEAN /\ scarce \in BOOLEAN

Within(b, p) == p <= b.at /\ b.at + b.size <= p + PageSize

\* "check if we have space left on the page; our stub code can go upto 250h-300h
\* bytes" (sinativeintercept.cpp:99).
StubsFit == \A b \in blocks : \E p \in pages : Within(b, p)

(* Generated code is on HEAT's pages, and no piece is written over another,    *)
(* however calls succeed, fail and are repeated, as long as no page that       *)
(* memoryAllocExecutableIfFar provides is below the one before: the check for  *)
(* space then measures from the wrong base.                                    *)
CodeIsKept ==
  ~behind => StubsFit /\ ~overwritten

\* So far below the function that it passes the check of the distance, and that
\* the jump's own size takes it out of reach: the last JumpSize - 1 addresses.
AtTheEdge(r) == r.from - r.to \in (Reach + 2 - JumpSize)..Reach

(* The displacement in a function's jump leads to its stub, which may be on a  *)
(* page that was found for another function, as long as pages are found near   *)
(* at all. The check of the distance (sisystem.cpp:254) measures from the      *)
(* function, the displacement (sicodegen.h:71-76) counts from the end of the   *)
(* jump: a stub in the last addresses below passes the check, and its          *)
(* displacement overflows. Those are all that are missed.                      *)
JumpsReach ==
  ~scarce =>
    \A r \in redirections : Encodable(Displacement(r.from, r.to)) \/ AtTheEdge(r)
=============================================================================
