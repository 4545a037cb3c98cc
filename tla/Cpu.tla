-------------------------------- MODULE Cpu --------------------------------
(***************************************************************************)
(* What the processor does with the instructions that relocation tells      *)
(* apart.  Everything that can be copied byte by byte is "plain"; "cmp" is  *)
(* one of these that sets the flags, "rip" one that refers to data relative *)
(* to its own end, "indirect" a call through a register.                    *)
(***************************************************************************)
EXTENDS Integers

CONSTANTS Exit,  \* the caller: where a function returns to
          Crash  \* executing something that is no instruction

VARIABLES pc,     \* address of the next instruction
          flags,  \* the flag that conditional jumps test: "z" or "nz"
          used    \* the last function called or datum referred to

cpu == <<pc, flags, used>>

Short == {"jmp8", "jcc8", "loop8"}
Jcc == {"jcc8", "jcc32"}
Branches == Short \cup {"jmp32", "jcc32"}
Relative == Branches \cup {"call", "rip"}
Ops == Relative \cup {"plain", "cmp", "ret", "retImm", "indirect"}

\* A displacement byte, read as signed.
Signed(byte) == IF byte < 128 THEN byte ELSE byte - 256

\* Displacements count from the end of the instruction.
Target(i, a) == a + i.len + IF i.op \in Short THEN Signed(i.disp) ELSE i.disp

\* Executing instruction i at address a.
Execute(i, a) ==
  LET next == a + i.len IN
  \/ /\ i.op \in {"plain", "indirect"}
     /\ pc' = next
     /\ UNCHANGED <<flags, used>>
  \/ /\ i.op = "cmp"
     /\ pc' = next
     /\ flags' \in {"z", "nz"}
     /\ UNCHANGED used
  \/ /\ i.op \in {"jmp8", "jmp32"}
     /\ pc' = Target(i, a)
     /\ UNCHANGED <<flags, used>>
  \/ /\ i.op \in Jcc
     /\ pc' = IF flags = "z" THEN Target(i, a) ELSE next
     /\ UNCHANGED <<flags, used>>
  \/ /\ i.op = "loop8"
     /\ pc' \in {Target(i, a), next}
     /\ UNCHANGED <<flags, used>>
  \/ /\ i.op \in {"call", "rip"}
     /\ pc' = next
     /\ used' = Target(i, a)
     /\ UNCHANGED flags
  \/ /\ i.op \in {"ret", "retImm"}
     /\ pc' = Exit
     /\ UNCHANGED <<flags, used>>
=============================================================================
