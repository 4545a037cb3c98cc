---------------------------- MODULE MCStubMemory ----------------------------
(* Pages of four units for StubMemory: two low ones, two high ones that touch. *)
EXTENDS StubMemory

MCPages == {8, 12, 40, 44, 60}
MCSizes == {1, 2}
\* The pages at 8 and 12 are near the first, those from 40 on near the second.
\* A stub at 40 is at the edge of what the second one's jump can reach.
MCFunctions == {16, 56}
=============================================================================
