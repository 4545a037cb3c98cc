---------------------------- MODULE MCFreeMemory ----------------------------
(* Memories for FreeMemory. *)
EXTENDS FreeMemory

MCTop == 19
MCGranule == 4

\* 4 GB are three units.
MCStops == {0, 1, 12, 13}

\* In each unit but the first an allocation of none, one, three or four pages.
Lengths == {0, 1, 3, 4}

Taken(sizes, p) == p >= MCGranule /\ p % MCGranule < sizes[p \div MCGranule]

MCMemories ==
  {[p \in 1..MCTop |->
      IF Taken(sizes, p)
      THEN [base |-> p - (p % MCGranule), state |-> "committed"]
      ELSE [base |-> 0, state |-> "free"]] : sizes \in [1..(MCTop \div MCGranule) -> Lengths]}
=============================================================================
