---------------------------- MODULE FunctionCode ----------------------------
(***************************************************************************)
(* A function as it was compiled, executed from its first instruction until *)
(* it returns or jumps somewhere else.  The copy of an intercepted          *)
(* function's header, with what is left of the function behind it, has to   *)
(* do the same.                                                             *)
(***************************************************************************)
EXTENDS Cpu

VARIABLE code  \* the instruction at each address where one starts

Init == /\ pc = 0
        /\ flags \in {"z", "nz"}
        /\ used = Exit

Next == /\ pc \in DOMAIN code
        /\ Execute(code[pc], pc)
        /\ UNCHANGED code

Spec == Init /\ [][Next]_<<code, cpu>>
=============================================================================
