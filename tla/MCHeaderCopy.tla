---------------------------- MODULE MCHeaderCopy ----------------------------
(* Functions for HeaderCopy: three instructions and a tail. *)
EXTENDS HeaderCopy, FiniteSets

\* Instructions, with the place a relative one refers to.
Menu == [op : {"jmp8", "jcc8", "loop8"}, to : {"tail", "before"}] \cup
        [op : {"jmp32", "jcc32", "call"}, to : {"before", "far"}] \cup
        [op : {"plain", "cmp", "ret", "retImm", "indirect", "rip"}, to : {"before"}] \cup
        [op : {"loop8"}, to : {"start"}]

Length(op) == CASE op \in {"jmp8", "jcc8", "loop8", "cmp", "indirect"} -> 2
                [] op \in {"jmp32", "call"} -> 5
                [] op = "jcc32" -> 6
                [] op = "rip" -> 7
                [] op = "retImm" -> 3
                [] OTHER -> 1

\* Instruction m at address a in front of a tail that starts at address t.
Assemble(m, a, t) ==
  LET to == CASE m.to = "tail" -> t [] m.to = "before" -> -20
              [] m.to = "far" -> -62000 [] m.to = "start" -> 0
      disp == to - (a + Length(m.op))
  IN [op |-> m.op, len |-> Length(m.op),
      disp |-> IF m.op \in Short THEN disp % 256
               ELSE IF m.op \in Relative THEN disp ELSE 0]

\* With or without a comparison in front of the tail's conditional jump.
Tails == {<<"cmp", "jcc8", "plain", "ret">>, <<"jcc8", "plain", "ret">>}

Function(header, tail) ==
  LET ops == [n \in 1..3 |-> header[n]] \o
             [n \in 1..Len(tail) |-> [op |-> tail[n], to |-> "before"]]
      start[n \in 1..(Len(ops) + 1)] ==
        IF n = 1 THEN 0 ELSE start[n - 1] + Length(ops[n - 1].op)
      place(a) == CHOOSE n \in 1..Len(ops) : start[n] = a
  IN [a \in {start[n] : n \in 1..Len(ops)} |->
        Assemble(ops[place(a)], a, start[4])]

\* By the third most headers are long enough: the longer jumps are left out.
Third == {m \in Menu : m.op \notin {"jmp8", "jmp32", "jcc32", "loop8"} /\ m.to # "tail"}

MCCodes == {Function(<<p, q, r>>, tail) : p, q \in Menu, r \in Third, tail \in Tails}

\* Pages just above the function, above it, and below it.
MCPages == {64, 4096, -8192}

MCExit == -1
MCCrash == -2
=============================================================================
