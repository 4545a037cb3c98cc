-------------------------- MODULE MCInterceptStubs --------------------------
(* Instances of InterceptStubs for TLC. *)
EXTENDS InterceptStubs, TLC

CONSTANTS t1, LocalAlloc, CreateFileW, s1, s2

MCThreads == {t1}
MCFunctions == {LocalAlloc, CreateFileW}
MCSites == {s1, s2}

\* Neither the sites nor the functions are told apart by any definition.
Symmetry == Permutations(MCSites) \cup Permutations(MCFunctions)
=============================================================================
