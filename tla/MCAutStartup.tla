---------------------------- MODULE MCAutStartup ----------------------------
(* The instance of AutStartup for TLC: its threads are model values. *)
EXTENDS AutStartup
=============================================================================
