------------------------------ MODULE MCPatching ------------------------------
(* Functions for Patching. *)
EXTENDS Patching, TLC

MCOut == -1
MCStub == -2
MCCallee == -3
MCTorn == -4

Plain(n, goes) == [len |-> n, call |-> FALSE, goes |-> goes]
Calls(n, next) == [len |-> n, call |-> TRUE, goes |-> {next}]

Last == Plain(1, {MCOut})

\* One long instruction; two short ones; a call that ends in the middle of the
\* jump and one that ends behind it; a loop into the middle, one to the start.
Long       == (0 :> Plain(5, {5})) @@ (5 :> Last)
Short      == (0 :> Plain(2, {2, 5})) @@ (2 :> Plain(3, {5})) @@ (5 :> Last)
CallInside == (0 :> Calls(2, 2)) @@ (2 :> Plain(3, {5})) @@ (5 :> Last)
CallAcross == (0 :> Plain(1, {1})) @@ (1 :> Calls(5, 6)) @@ (6 :> Last)
LoopInside == (0 :> Plain(2, {2})) @@ (2 :> Plain(4, {6})) @@ (6 :> Plain(2, {2, MCOut}))

MCCodes == {Long, Short, CallInside, CallAcross, LoopInside}
=============================================================================
