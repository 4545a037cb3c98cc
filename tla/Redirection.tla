---------------------------- MODULE Redirection ----------------------------
(***************************************************************************)
(* What the interception of a function promises to the threads that call    *)
(* it: at one moment the function is redirected.  Who calls it before runs  *)
(* the original, who calls it afterwards runs the replacement stub, and who  *)
(* is in the original at that moment finishes it.                           *)
(***************************************************************************)
CONSTANT Threads

VARIABLES redirected, where

vars == <<redirected, where>>

Init == redirected = FALSE /\ where = [t \in Threads |-> "out"]

\* From the stub the original is called, too, through the copied header.
Call(t) ==
  /\ where[t] = "out"
  /\ where' = [where EXCEPT ![t] = IF redirected THEN "stub" ELSE "original"]
  /\ UNCHANGED redirected

CallOriginal(t) ==
  /\ where[t] = "stub"
  /\ where' = [where EXCEPT ![t] = "original"]
  /\ UNCHANGED redirected

Return(t) ==
  /\ where[t] # "out"
  /\ where' = [where EXCEPT ![t] = "out"]
  /\ UNCHANGED redirected

Redirect == redirected' = TRUE /\ UNCHANGED where

Next == Redirect \/ \E t \in Threads : Call(t) \/ CallOriginal(t) \/ Return(t)

Spec == Init /\ [][Next]_vars
=============================================================================
