-------------------------- MODULE MCThreadRegistry --------------------------
(* ThreadRegistry with small numbers for ids. *)
EXTENDS ThreadRegistry

MCIds == 1..3
MCStarted == {1}
MCNobody == 0
=============================================================================
