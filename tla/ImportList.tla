----------------------------- MODULE ImportList -----------------------------
(***************************************************************************)
(* What starting a program with a DLL promises: a call puts the DLL in front *)
(* of the modules the program imports, in one step and before any is loaded, *)
(* or nothing happens.  Each call may do so, but none does it twice.  Only   *)
(* if the image cannot address what the call has made are the imports lost.  *)
(***************************************************************************)
EXTENDS Naturals, Sequences

CONSTANTS Dll, Imports

VARIABLES
  imports, loaded,
  calls, added,   \* calls, and has the last one added the DLL?
  cut             \* does the image point to what it cannot address?

vars == <<imports, loaded, calls, added, cut>>

Init ==
  /\ imports = Imports /\ loaded = <<>>
  /\ calls = 0 /\ added = FALSE
  /\ cut = FALSE

Call ==
  /\ loaded = <<>>
  /\ calls' = calls + 1
  /\ added' = FALSE
  /\ UNCHANGED <<imports, loaded, cut>>

Add ==
  /\ loaded = <<>>
  /\ calls > 0 /\ ~added
  /\ imports' = <<Dll>> \o imports
  /\ added' = TRUE
  /\ UNCHANGED <<loaded, calls, cut>>

\* Nothing is promised of the imports any more.
Lose ==
  /\ loaded = <<>>
  /\ cut'
  /\ UNCHANGED <<loaded, calls>>

Load ==
  /\ loaded = <<>>
  /\ loaded' = imports
  /\ UNCHANGED <<imports, calls, added, cut>>

Next == Call \/ Add \/ Lose \/ Load

Spec == Init /\ [][Next]_vars
=============================================================================
