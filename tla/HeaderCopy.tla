----------------------------- MODULE HeaderCopy -----------------------------
(***************************************************************************)
(* How an intercepted function goes on working: its first instructions,     *)
(* the header, are copied elsewhere and followed by a jump back, before the *)
(* jump to the replacement stub is written over them.  Instructions that    *)
(* are relative to their place are rewritten on the way, for Win32 by       *)
(* siinstrreloc32.h and for Win64 by siinstrreloc64.h.  The original is     *)
(* then run by way of the copy.                                             *)
(***************************************************************************)
EXTENDS Cpu, Sequences

CONSTANTS Codes,     \* functions: the instruction at each address
          Pages,     \* where the copy may be; functions start at 0
          Reach      \* the greatest 32-bit displacement

\* The jump to the replacement stub takes five bytes on both platforms.
Overwritten == 0..4

TargetsOf(c) == {Target(c[a], a) : a \in {b \in DOMAIN c : c[b].op \in Branches}}

Ends == {"ret", "retImm", "jmp8", "jmp32"}

\* Functions are instructions one behind the other; control does not run out
\* of them.  The copy is written to a page that is nobody else's.
ASSUME CodeAssumption ==
  /\ Pages \subseteq Int /\ Reach \in Nat
  /\ Exit \in Int \ Overwritten /\ Crash \in Int
  /\ \A c \in Codes :
       /\ 0 \in DOMAIN c /\ DOMAIN c \subseteq Nat /\ Exit \notin DOMAIN c
       /\ \A a \in DOMAIN c :
            /\ c[a] \in [op : Ops, len : 1..15, disp : Int]
            /\ c[a].op \in Short => c[a].disp \in 0..255
            /\ c[a].op = "retImm" => c[a].len = 3
            /\ c[a].op \notin Ends => a + c[a].len \in DOMAIN c
            /\ \A b \in DOMAIN c : a < b => a + c[a].len <= b
       /\ \A p \in Pages :
            p..(p + 4095) \cap (Overwritten \cup DOMAIN c \cup TargetsOf(c) \cup {Exit}) = {}

VARIABLES
  x64,     \* built for Win64?
  code,    \* the function
  base,    \* address of the copy
  phase,   \* "copying", "copied", "running" or "failed"
  src,     \* address of the instruction to copy next
  copy,    \* what has been written, piece by piece
  meant    \* history: the flag as the function would have it

copyVars == <<x64, code, base, phase, src, copy, meant, cpu>>

SIZE_OF_JMP == IF x64 THEN 9 ELSE 5

\* A piece of the copy: an instruction at its address, and the address in the
\* original that the processor is meant to be at when it gets there.
Piece(op, at, len, disp, means) ==
  [op |-> op, at |-> at, len |-> len, disp |-> disp, means |-> means]

\* What is left of a displacement in 32 bits; on Win32 addresses wrap as well.
DWord(n) ==
  IF x64 THEN ((n + Reach + 1) % (2 * (Reach + 1))) - (Reach + 1) ELSE n

NearFromStart(op, at, len, to, means) ==
  Piece(op, at, len, DWord(to - at), means)

\* writeDisplacement, writeDWord(dest, to - (dest + 4)).
Near(op, at, len, to, means) ==
  Piece(op, at, len, DWord(to - (at + len)), means)

EndOf(pieces) ==
  IF pieces = <<>> THEN base
  ELSE pieces[Len(pieces)].at + pieces[Len(pieces)].len

dest == EndOf(copy)

CopyInit ==
  /\ x64 \in BOOLEAN
  /\ code \in Codes
  /\ (\E a \in DOMAIN code : code[a].op = "rip") => x64
  /\ base \in Pages
  /\ phase = "copying"
  /\ src = 0
  /\ copy = <<>>
  /\ pc = 0
  /\ flags \in {"z", "nz"}
  /\ used = Exit
  /\ meant = flags

-----------------------------------------------------------------------------
(* The handlers: what is written at address d for an instruction i at a.     *)

\* writeJump of Win64.  The near form is never chosen: its two bounds exclude
\* each other.  The short form measures from the end of a near one.  The far
\* form, a ret, changes the flags.
WriteJump64(d, to, means) ==
  LET distance == to - (d + 5) IN
  IF -128 < distance /\ distance < 127
  THEN <<Piece("jmp8", d, 2, distance % 256, means)>>
  ELSE <<Piece("jmpRet", d, 26, to - (d + 26), means)>>

WriteJump(d, to, means) ==
  IF x64 THEN WriteJump64(d, to, means) ELSE <<Near("jmp32", d, 5, to, means)>>

\* Where the handlers of Win64 take a jump to go: they add the displacement,
\* a byte without its sign, to a pointer that reading it moves, in either
\* order.  The handlers of Win32 get it right.
JumpTargets(i, a) ==
  IF x64
  THEN {a + i.len + i.disp,
        a + i.len - (IF i.op \in Short THEN 1 ELSE 4) + i.disp}
  ELSE {Target(i, a)}

JumpTargetsUnsigned(i, a) == {a + i.len + i.disp}

\* JumpShort, JumpNear.
Jump(i, a, d) == {WriteJump(d, to, a) : to \in JumpTargets(i, a)}

JumpCondOverlapping(i, a, d) ==
  {LET jump == WriteJump64(d + 10, to, Target(i, a))
   IN <<Piece("jcc32", d, 6, 5, a),
        Near("jmp32", d + 6, 5, EndOf(jump), a + i.len)>> \o jump
   : to \in JumpTargets(i, a)}

\* JumpCondShort, JumpCondNear.  Win64: skip a jump that skips the far jump.
JumpCond(i, a, d) ==
  IF x64
  THEN {LET jump == WriteJump64(d + 11, to, Target(i, a))
        IN <<Piece("jcc32", d, 6, 5, a),
             Near("jmp32", d + 6, 5, EndOf(jump), a + i.len)>> \o jump
        : to \in JumpTargets(i, a)}
  ELSE {<<Near("jcc32", d, 6, to, a)>> : to \in JumpTargets(i, a)}

LoopShortSkipping(i, a, d) ==
  {<<Piece("loop8", d, 2, 2, a),
     Piece("jmp8", d + 2, 2, 4, a + i.len),
     Near("jmp32", d + 4, 5, Target(i, a), Target(i, a))>>}

\* LoopingInstructionRelocate.
LoopShort(i, a, d) ==
  {<<Piece("loop8", d, 2, 2, a),
     Piece("jmp8", d + 2, 2, 5, a + i.len),
     Near("jmp32", d + 4, 5, Target(i, a), Target(i, a))>>}

\* CallNear.  A Win64 call out of reach goes through rbx, saved on the stack
\* between the return address and the callee's parameters.
CallNear(i, a, d) ==
  LET to == Target(i, a) IN
  IF x64 /\ (to - d > Reach \/ d - to > Reach)
  THEN {<<Piece("callShifted", d, 14, 0, a)>>}
  ELSE {<<Near("call", d, 5, to, a)>>}

\* ModRM with a 32-bit displacement from rip.
RIP(i, a, d) == {<<Near("rip", d, i.len, Target(i, a), a)>>}

\* Everything else is copied.  Of a ret with an operand, IMMED16, only one
\* byte of the operand; the next decoding starts with the other one.  A call
\* through a register takes the handler of a near call on Win64.
Copied(i, a, d) ==
  IF x64 /\ i.op = "indirect"
  THEN {<<Piece("bytes", d, 5, 0, a)>>}
  ELSE {<<Piece(i.op, d, IF i.op = "retImm" THEN 2 ELSE i.len, i.disp, a)>>}

\* copyNextOpcode.
Relocated(i, a, d) ==
  CASE i.op \in {"jmp8", "jmp32"} -> Jump(i, a, d)
    [] i.op \in Jcc               -> JumpCond(i, a, d)
    [] i.op = "loop8"             -> LoopShort(i, a, d)
    [] i.op = "call"              -> CallNear(i, a, d)
    [] i.op = "rip"               -> RIP(i, a, d)
    [] OTHER                      -> Copied(i, a, d)

\* How far copyNextOpcode moves src.
Decoded(i) == CASE i.op = "retImm" -> 2
                [] i.op = "indirect" /\ x64 -> i.len + 4
                [] OTHER -> i.len

\* What is decoded at address a: an instruction, or whatever the bytes inside
\* or behind one happen to look like.
At(a) == IF a \in DOMAIN code THEN {code[a]}
         ELSE [op : {"bytes"}, len : 1..2, disp : {0}]

-----------------------------------------------------------------------------
(* generateFunctionHeaderCopy and writeRedirection. *)

CopyMoreEarly == src < SIZE_OF_JMP - 1

CopyMore == src < SIZE_OF_JMP

CopyInstruction ==
  /\ phase = "copying"
  /\ CopyMore
  /\ \E i \in At(src) :
       /\ \E pieces \in Relocated(i, src, dest) : copy' = copy \o pieces
       /\ src' = src + Decoded(i)
  /\ UNCHANGED <<x64, code, base, phase, meant, cpu>>

JumpBackPastRedirection ==
  /\ phase = "copying"
  /\ ~CopyMore
  /\ copy' = copy \o WriteJump(dest, SIZE_OF_JMP, src)
  /\ phase' = "copied"
  /\ UNCHANGED <<x64, code, base, src, meant, cpu>>

JumpBack ==
  /\ phase = "copying"
  /\ ~CopyMore
  /\ copy' = copy \o WriteJump(dest, src, src)
  /\ phase' = "copied"
  /\ UNCHANGED <<x64, code, base, src, meant, cpu>>

\* The page of the function may stay read-only.  Then a replacement, or
\* anybody, calls the original.
WriteRedirection ==
  /\ phase = "copied"
  /\ \/ phase' = "running" /\ pc' = base
     \/ phase' = "failed" /\ UNCHANGED pc
  /\ UNCHANGED <<x64, code, base, src, copy, meant, flags, used>>

-----------------------------------------------------------------------------
(* The processor runs the original through the copy. *)

\* A ret whose operand lost a byte is whole if the byte was copied next.
Whole(i) == i.op = "retImm" =>
  \E n \in 1..Len(copy) : copy[n].op = "bytes" /\ copy[n].at = EndOf(<<i>>)

RunCopy(i) ==
  /\ phase = "running"
  /\ pc = i.at
  /\ \/ /\ Whole(i)
        /\ Execute(i, pc)
        /\ meant' = IF i.op = "cmp" THEN flags' ELSE meant
     \/ /\ i.op = "jmpRet"
        /\ pc' = Target(i, pc)
        /\ flags' = "nz"
        /\ UNCHANGED <<used, meant>>
     \/ /\ i.op \in {"bytes", "callShifted"} \/ ~Whole(i)
        /\ pc' = Crash
        /\ UNCHANGED <<flags, used, meant>>
  /\ UNCHANGED <<x64, code, base, phase, src, copy>>

\* At the start of the function is the jump to the replacement now, and
\* nothing that makes sense behind it.
RunOriginal ==
  /\ phase = "running"
  /\ IF pc \in Overwritten
     THEN pc' = Crash /\ UNCHANGED <<flags, used, meant>>
     ELSE /\ pc \in DOMAIN code
          /\ Execute(code[pc], pc)
          /\ meant' = IF code[pc].op = "cmp" THEN flags' ELSE meant
  /\ UNCHANGED <<x64, code, base, phase, src, copy>>

CopyNext ==
  \/ CopyInstruction
  \/ JumpBack
  \/ WriteRedirection
  \/ \E n \in 1..Len(copy) : RunCopy(copy[n])
  \/ RunOriginal

CopySpec == CopyInit /\ [][CopyNext]_copyVars

-----------------------------------------------------------------------------
(* Properties. *)

(* Types; the pieces follow each other without a gap, and every displacement   *)
(* byte that was written is a byte.                                            *)
CopyTypeOK ==
  /\ x64 \in BOOLEAN /\ base \in Pages
  /\ phase \in {"copying", "copied", "running", "failed"}
  /\ src \in Nat /\ pc \in Int
  /\ flags \in {"z", "nz"} /\ meant \in {"z", "nz"}
  /\ \A n \in 1..Len(copy) :
       /\ copy[n].at = EndOf(SubSeq(copy, 1, n - 1))
       /\ copy[n].op \in Short => copy[n].disp \in 0..255

Header == {a \in DOMAIN code : a < SIZE_OF_JMP}
Targets == TargetsOf(code)

\* A ret with an operand does not end the header, and no call through a
\* register is in it on Win64: both are decoded wrong.
Decodable ==
  \A a \in Header :
    /\ code[a].op = "retImm" => a + 2 < SIZE_OF_JMP
    /\ code[a].op = "indirect" => ~x64

\* A short jump of Win64 goes astray: the copy is not just above the function.
\* (memoryAllocNear looks below it first.)
Distant == x64 => base \notin 0..255

\* What else the copy cannot deal with: branches to the overwritten bytes;
\* and on Win64, jumps in the header, references out of reach, and flags that are
\* tested behind the jump back and set before it.
Regular ==
  /\ Decodable /\ Distant
  /\ Targets \cap Overwritten = {}
  /\ x64 =>
       /\ \A a \in Header :
            /\ code[a].op \notin Branches \ {"loop8"}
            /\ code[a].op \in Relative =>
                 Target(code[a], a) - base \in (120 - Reach)..Reach
       /\ \A b \in DOMAIN code \ Header : code[b].op \in Jcc =>
            /\ b \notin Targets
            /\ \E c \in DOMAIN code \ Header :
                 code[c].op = "cmp" /\ c + code[c].len = b

(* The jump back goes to an instruction that the redirection leaves whole, or  *)
(* behind the function's end ("jmp back to the original function (offset by    *)
(* the size of the instructions we've already executed by now)").              *)
BackToAnInstruction ==
  (phase \in {"copied", "running"} /\ Decodable /\ Distant) =>
    LET back == copy[Len(copy)] IN
    /\ Target(back, back.at) \notin Overwritten
    /\ \/ Target(back, back.at) \in DOMAIN code
       \/ \E a \in DOMAIN code : /\ code[a].op \in Ends
                                 /\ a < Target(back, back.at)

Place ==
  IF phase # "running" \/ ~Regular THEN 0
  ELSE IF \E n \in 1..Len(copy) : copy[n].at = pc
       THEN copy[CHOOSE n \in 1..Len(copy) : copy[n].at = pc].means
       ELSE pc

(* The copy of a regular function, with the rest of the function, does what    *)
(* the function did: it takes the same jumps, calls the same functions, refers *)
(* to the same data and returns.                                               *)
FC == INSTANCE FunctionCode WITH
        pc <- Place,
        flags <- IF Regular THEN meant ELSE "z",
        used <- IF Regular THEN used ELSE Exit

RunsAsCompiled == FC!Spec
=============================================================================
