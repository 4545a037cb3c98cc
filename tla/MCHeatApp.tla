----------------------------- MODULE MCHeatApp -----------------------------
(* Instances of HeatApp for TLC. *)
EXTENDS HeatApp

CONSTANTS p1, p2, LocalAlloc, CreateFileW

MCOneProcess == {p1}
MCTwoProcesses == {p1, p2}
MCFunctions == {LocalAlloc, CreateFileW}
=============================================================================
