------------------------- MODULE ImportTableProofs -------------------------
(***************************************************************************)
(* Proofs about ImportTable: whatever fails and whoever dies, the process    *)
(* has the imports it had, or these with the server in front, unless its     *)
(* header leads to a distance that was cut.  Imports and calls may be as     *)
(* many as one likes.                                                        *)
(***************************************************************************)
EXTENDS ImportTable, SequenceTheorems, TLAPS

Descriptors == [module : Modules \cup {Dll, End}, block : Places]

\* A table that a loader can use: it ends, and what it points to is there.
Whole(table, written) ==
  /\ table \in Seq(Descriptors)
  /\ Len(table) >= 1
  /\ table[Len(table)].module = End
  /\ \A i \in 1..(Len(table) - 1) :
       table[i].module # End /\ table[i].block \in written

Before(table) == [i \in 1..(Len(table) - 1) |-> table[i].module]

\* Listed, of what has been written.
ListedFrom(table, written) ==
  LET ends == {i \in 1..Len(table) : table[i].module = End}
      length == (CHOOSE i \in ends : \A j \in ends : i <= j) - 1
  IN IF ends = {} \/ \E i \in 1..length : table[i].block \notin written
     THEN Broken
     ELSE [i \in 1..length |-> table[i].module]

\* The loader takes all that is before the end of a whole table.
LEMMA ListedWhole ==
  ASSUME NEW table, NEW written, Whole(table, written)
  PROVE  ListedFrom(table, written) = Before(table)
<1> DEFINE ends == {i \in 1..Len(table) : table[i].module = End}
<1>1. Len(table) \in Nat /\ Len(table) \in ends
  BY DEF Whole
<1>2. \A j \in ends : Len(table) <= j
  BY <1>1 DEF Whole
<1>3. (CHOOSE i \in ends : \A j \in ends : i <= j) = Len(table)
  BY <1>1, <1>2
<1>4. ends # {} /\ \A i \in 1..(Len(table) - 1) : table[i].block \in written
  BY <1>1 DEF Whole
<1>. QED BY <1>3, <1>4 DEF ListedFrom, Before

\* What a loader takes are modules.
LEMMA BeforeType ==
  ASSUME NEW table, NEW written, Whole(table, written)
  PROVE  Before(table) \in Seq(Modules \cup {Dll})
<1>1. Len(table) - 1 \in Nat
  BY DEF Whole
<1>2. \A i \in 1..(Len(table) - 1) : table[i] \in Descriptors /\ table[i].module # End
  BY <1>1 DEF Whole
<1>3. \A i \in 1..(Len(table) - 1) : table[i].module \in Modules \cup {Dll}
  BY <1>2 DEF Descriptors
<1>. QED BY <1>1, <1>3 DEF Before

\* With a descriptor in front there is one module more, in front.
LEMMA BeforeFront ==
  ASSUME NEW table \in Seq(Descriptors), Len(table) >= 1, NEW d \in Descriptors
  PROVE  Before(<<d>> \o table) = <<d.module>> \o Before(table)
<1> DEFINE longer == <<d>> \o table
<1> DEFINE modules == Modules \cup {Dll, End}
<1>1. /\ longer \in Seq(Descriptors) /\ Len(longer) = Len(table) + 1
      /\ longer[1] = d
      /\ \A i \in 1..Len(table) : longer[i + 1] = table[i]
  OBVIOUS
<1>2. Len(table) \in Nat \ {0}
  OBVIOUS
<1>3. /\ Before(table) \in Seq(modules) /\ Len(Before(table)) = Len(table) - 1
      /\ \A i \in 1..(Len(table) - 1) : Before(table)[i] = table[i].module
  <2>1. \A i \in 1..(Len(table) - 1) : table[i].module \in modules
    <3>1. \A i \in 1..(Len(table) - 1) : table[i] \in Descriptors
      BY <1>2
    <3>. QED BY <3>1 DEF Descriptors
  <2>2. Len(table) - 1 \in Nat
    BY <1>2
  <2>. HIDE DEF modules
  <2>. QED BY <2>1, <2>2 DEF Before
<1>4. /\ Before(longer) \in Seq(modules) /\ Len(Before(longer)) = Len(table)
      /\ \A i \in 1..Len(table) : Before(longer)[i] = longer[i].module
  <2>1. \A i \in 1..Len(table) : longer[i].module \in modules
    <3>1. \A i \in 1..Len(table) : longer[i] \in Descriptors
      BY <1>1, <1>2
    <3>. QED BY <3>1 DEF Descriptors
  <2>2. Len(longer) - 1 = Len(table)
    BY <1>1, <1>2
  <2>. HIDE DEF longer, modules
  <2>. QED BY <1>2, <2>1, <2>2 DEF Before
<1>5. d.module \in modules
  BY DEF Descriptors
<1>. HIDE DEF longer, modules
<1>6. <<d.module>> \o Before(table) \in Seq(modules)
  BY <1>3, <1>5
<1>7. Len(<<d.module>> \o Before(table)) = Len(table)
  BY <1>2, <1>3, <1>5
<1>8. \A i \in 1..Len(table) : Before(longer)[i] = (<<d.module>> \o Before(table))[i]
  <2>1. TAKE i \in 1..Len(table)
  <2>2. CASE i = 1
    BY <1>1, <1>2, <1>3, <1>4, <1>5, <2>2
  <2>3. CASE i # 1
    <3>1. i - 1 \in 1..(Len(table) - 1)
      BY <1>2, <2>3
    <3>2. longer[i] = table[i - 1]
      <4>1. i - 1 \in 1..Len(table) /\ (i - 1) + 1 = i
        BY <1>2, <3>1
      <4>. QED BY <1>1, <4>1
    <3>3. (<<d.module>> \o Before(table))[i] = Before(table)[i - 1]
      BY <1>3, <1>5, <2>3, <3>1
    <3>. QED BY <1>3, <1>4, <3>1, <3>2, <3>3
  <2>. QED BY <2>2, <2>3
<1>9. Before(longer) = <<d.module>> \o Before(table)
  BY <1>4, <1>6, <1>7, <1>8, SeqEqual
<1>. QED BY <1>9 DEF longer

\* With a descriptor whose thunks and name are there a table stays whole.
LEMMA FrontWhole ==
  ASSUME NEW written, NEW table, Whole(table, written),
         NEW d \in Descriptors, d.module # End, d.block \in written
  PROVE  Whole(<<d>> \o table, written) /\ Len(<<d>> \o table) >= 2 /\ (<<d>> \o table)[1] = d
<1> DEFINE longer == <<d>> \o table
<1>1. /\ table \in Seq(Descriptors) /\ Len(table) \in Nat \ {0}
      /\ longer \in Seq(Descriptors) /\ Len(longer) = Len(table) + 1
      /\ longer[1] = d
      /\ \A i \in 1..Len(table) : longer[i + 1] = table[i]
  BY DEF Whole
<1>. HIDE DEF longer
<1>2. longer[Len(longer)] = table[Len(table)]
  BY <1>1
<1>3. ASSUME NEW i \in 1..(Len(longer) - 1)
      PROVE  longer[i].module # End /\ longer[i].block \in written
  <2>1. CASE i = 1
    BY <1>1, <2>1
  <2>2. CASE i # 1
    <3>1. i - 1 \in 1..(Len(table) - 1)
      BY <1>1, <2>2
    <3>2. longer[i] = table[i - 1]
      BY <1>1, <3>1
    <3>. QED BY <3>1, <3>2 DEF Whole
  <2>. QED BY <2>1, <2>2
<1>4. Whole(longer, written)
  BY <1>1, <1>2, <1>3 DEF Whole
<1>. QED BY <1>1, <1>4 DEF longer

\* What has been written stays written.
LEMMA MoreWritten ==
  ASSUME NEW table, NEW written, NEW more, Whole(table, written), written \subseteq more
  PROVE  Whole(table, more)
BY DEF Whole

\* The image's own table is whole, and lists the program's imports.
LEMMA OwnWhole == Whole(Own, {0}) /\ Before(Own) = Imports /\ Own \in Seq(Descriptors)
<1> DEFINE n == Len(Imports)
<1>1. n \in Nat /\ \A i \in 1..n : Imports[i] \in Modules
  BY ImportAssumption
<1>2. 0 \in Places
  BY ImportAssumption DEF Blocks, Places
<1>3. \A i \in 1..(n + 1) :
        Descriptor(IF i > n THEN End ELSE Imports[i], 0) \in Descriptors
  BY <1>1, <1>2 DEF Descriptor, Descriptors
<1>4. Own \in Seq(Descriptors) /\ Len(Own) = n + 1
  BY <1>1, <1>3 DEF Own
<1>5. Own[n + 1].module = End
  BY <1>1 DEF Own, Descriptor
<1>6. \A i \in 1..n : Own[i].module = Imports[i] /\ Own[i].block = 0
  BY <1>1 DEF Own, Descriptor
<1>7. Len(Own) - 1 = n
  BY <1>1, <1>4
<1>8. Whole(Own, {0})
  BY <1>1, <1>4, <1>5, <1>6, <1>7, ImportAssumption DEF Whole
<1>9. Before(Own) = [i \in 1..n |-> Imports[i]]
  BY <1>6, <1>7 DEF Before
<1>10. Imports = [i \in 1..n |-> Imports[i]]
  BY ImportAssumption
<1>. QED BY <1>4, <1>8, <1>9, <1>10

-----------------------------------------------------------------------------
(* The inductive invariant. *)

Steps == {"read", "allocate", "thunks", "name", "table", "unlock", "header", "lock", "resume"}

Types ==
  /\ TypeOK
  /\ calls \in 0..MaxCalls
  /\ m_nth \in [table : Places \cup {NoTable}, bound : BOOLEAN]
  /\ m_pbIT \in Seq(Descriptors)
  /\ tables \in [Places -> Seq(Descriptors)]

\* The image's table is whole, whoever looks at it, unless a distance was cut.
Image ==
  /\ ~cut /\ header.table # NoTable =>
       header.table # Elsewhere /\ Whole(tables[header.table], thunks \cap names)
  /\ header.table \in Blocks => header.table <= calls
  /\ tables[0] = Own
  /\ header.bound => header.table \in {0, NoTable}
  /\ suspended => loaded = <<>>

Longer == <<Front(calls, reach)>> \o tables[header.table]

\* The block this call has allocated is not the image's table until the header
\* is written, and then all of it is there.
Call ==
  /\ pc \in Steps => suspended /\ calls > 0
  /\ pc \in Steps \ {"lock", "resume"} => header = before /\ header.table # calls
  /\ pc \in Steps \ {"read", "lock", "resume"} => header.table # NoTable
  /\ pc = "allocate" => m_pbIT = tables[header.table]
  /\ pc \in {"thunks", "name", "table", "unlock", "header"} =>
       target = calls /\ m_pbIT = Longer
  /\ pc \in {"allocate", "thunks", "name", "table", "unlock"} => m_nth = header
  /\ pc \in {"name", "table", "unlock", "header"} => calls \in thunks
  /\ pc \in {"table", "unlock", "header"} => calls \in names
  /\ pc \in {"unlock", "header"} => tables[calls] = m_pbIT
  /\ pc = "header" => m_nth = [table |-> TableOf(calls, reach), bound |-> FALSE]

Pointed ==
  ~cut =>
    /\ header = [table |-> calls, bound |-> FALSE]
    /\ Len(tables[calls]) >= 2 /\ tables[calls][1].module = Dll

Answers ==
  /\ pc \in {"lock", "resume"} => Pointed
  /\ pc \in Steps => relocked
  /\ (pc = "idle" /\ answer = "true") => Pointed /\ calls > 0
  /\ (pc = "idle" /\ answer = "false" /\ relocked) => header = before

\* Calls that have not begun have added nothing.
Idle == calls = 0 => header = before

ImportInv == Types /\ Image /\ Call /\ Answers /\ Idle

\* What the process imports, from its header and its tables.
Imported(h, t) == IF h.bound \/ h.table = NoTable THEN Imports ELSE Before(t[h.table])

LEMMA ImportsNow ==
  ASSUME Image, ~cut
  PROVE  ImportsOf = Imported(header, tables)
<1>1. header.table # NoTable => Listed(tables[header.table]) = Before(tables[header.table])
  <2>1. header.table # NoTable =>
          ListedFrom(tables[header.table], thunks \cap names) = Before(tables[header.table])
    BY ListedWhole DEF Image
  <2>. QED BY <2>1 DEF Listed, ListedFrom
<1>. QED BY <1>1 DEF ImportsOf, Imported

\* The same, of the next state.
LEMMA ImportsNext ==
  ASSUME Image', ~cut'
  PROVE  ImportsOf' = Imported(header', tables')
<1>1. header'.table # NoTable => Listed(tables[header.table])' = Before(tables'[header'.table])
  <2>1. header'.table # NoTable =>
          ListedFrom(tables'[header'.table], thunks' \cap names') = Before(tables'[header'.table])
    BY ListedWhole DEF Image
  <2>. QED BY <2>1 DEF Listed, ListedFrom
<1>. QED BY <1>1 DEF ImportsOf, Imported

\* The invariant holds at the start.
LEMMA InitInv == Init => ImportInv
<1> SUFFICES ASSUME Init PROVE ImportInv
  OBVIOUS
<1>1. /\ 0 \in Blocks /\ 0 \in Places /\ 0 # Elsewhere
      /\ NoTable \notin Blocks /\ NoTable \in Nat
  BY ImportAssumption DEF Blocks, NoTable, Elsewhere, Places
<1>2. tables \in [Places -> Seq(Descriptors)] /\ tables[0] = Own
  BY <1>1, OwnWhole DEF Init
<1>3. Types
  <2>1. /\ header \in [table : Places \cup {NoTable}, bound : BOOLEAN] /\ m_nth = header
        /\ thunks \subseteq Blocks /\ names \subseteq Blocks /\ target \in Blocks
    BY <1>1 DEF Init
  <2>2. loaded \in Seq(Modules \cup {Dll}) /\ m_pbIT \in Seq(Descriptors) /\ calls \in 0..MaxCalls
    BY ImportAssumption DEF Init
  <2>. QED BY <1>2, <2>1, <2>2 DEF Init, Types, TypeOK, Reach
<1>4. Image
  BY <1>1, <1>2, OwnWhole DEF Init, Image
<1>5. Call /\ Answers /\ Idle
  BY DEF Init, Call, Answers, Steps, Idle
<1>. QED BY <1>3, <1>4, <1>5 DEF ImportInv

\* An access that fails leaves all as it was.
LEMMA FailInv ==
  ASSUME ImportInv, Fail, pc \in Steps, pc # "resume",
         UNCHANGED <<processVars, imageVars, copyVars, calls, before, cut>>,
         (relocked' = relocked /\ pc # "lock") \/ relocked' = FALSE
  PROVE  ImportInv'
<1> USE DEF processVars, imageVars, copyVars, Fail
<1>1. Types'
  BY DEF ImportInv, Types, TypeOK
<1>2. Image'
  BY DEF ImportInv, Image
<1>3. Call' /\ Answers' /\ Idle'
  BY DEF ImportInv, Call, Answers, Steps, Idle
<1>. QED BY <1>1, <1>2, <1>3 DEF ImportInv

\* The new descriptor.
LEMMA NewDescriptor ==
  ASSUME calls \in 1..MaxCalls
  PROVE  /\ \A r \in Reach : Front(calls, r) \in Descriptors
         /\ Front(calls, "block").module = Dll /\ Front(calls, "block").block = calls
         /\ Dll # End
BY ImportAssumption DEF Front, Descriptor, Descriptors, Blocks, Places, Elsewhere

\* The client's steps one by one.
LEMMA ClientInv == ImportInv /\ Client => ImportInv'
<1> SUFFICES ASSUME ImportInv, Client PROVE ImportInv'
  OBVIOUS
<1> USE DEF processVars, imageVars, copyVars, handleVars, historyVars
<1>0. Types /\ Image /\ Call /\ Answers /\ Idle
  BY DEF ImportInv
<1>t. /\ MaxCalls \in Nat /\ NoTable = MaxCalls + 1 /\ Blocks = 0..MaxCalls
      /\ Elsewhere = MaxCalls + 2 /\ Places = Blocks \cup {Elsewhere}
      /\ calls \in 0..MaxCalls
  BY <1>0, ImportAssumption DEF NoTable, Elsewhere, Places, Blocks, Types
<1>c. /\ pc \in Steps =>
           calls \in 1..MaxCalls /\ calls \in Blocks /\ calls # NoTable /\ calls # Elsewhere
  BY <1>0, <1>t DEF Call
<1>1. CASE Open
  <2>1. Types'
    BY <1>0, <1>1, <1>t DEF Open, Types, TypeOK
  <2>2. Image'
    BY <1>0, <1>1, <1>t DEF Open, Image, Types, TypeOK
  <2>3. header'.table # calls'
    BY <1>0, <1>1, <1>t DEF Open, Image, Types, TypeOK
  <2>4. Call' /\ Answers' /\ Idle'
    BY <1>0, <1>1, <1>t, <2>3 DEF Open, Call, Answers, Steps, Idle
  <2>. QED BY <2>1, <2>2, <2>4 DEF ImportInv
<1>2. CASE Read
  <2>1. CASE Fail /\ UNCHANGED <<imageVars, copyVars, historyVars>>
    BY <1>2, <2>1, FailInv DEF Read, Access, Steps
  <2>2. CASE pc' = "allocate"
    <3>1. /\ pc = "read" /\ header.table # NoTable /\ m_nth' = header
          /\ m_pbIT' = tables[header.table]
          /\ UNCHANGED <<processVars, imageVars, target, reach, historyVars, calls, answer>>
      BY <1>2, <2>2 DEF Read, Access, Fail
    <3>2. Types'
      BY <1>0, <2>2, <3>1, <1>t DEF Types, TypeOK
    <3>3. Image'
      BY <1>0, <3>1 DEF Image
    <3>4. Call' /\ Answers' /\ Idle'
      BY <1>0, <2>2, <3>1 DEF Call, Answers, Steps, Idle
    <3>. QED BY <3>2, <3>3, <3>4 DEF ImportInv
  <2>. QED BY <1>2, <2>1, <2>2 DEF Read, Access
<1>3. CASE Allocate
  <2>1. CASE Fail /\ UNCHANGED <<imageVars, copyVars, historyVars>>
    BY <1>3, <2>1, FailInv DEF Allocate, Access, Steps
  <2>2. CASE pc' = "thunks"
    <3>1. /\ pc = "allocate" /\ target' = calls /\ reach' \in Reach
          /\ m_pbIT' = <<Front(calls, reach')>> \o m_pbIT
          /\ UNCHANGED <<processVars, imageVars, m_nth, historyVars, calls, answer>>
      BY <1>3, <2>2 DEF Allocate, Access, Fail
    <3>2. calls \in Blocks /\ Front(calls, reach') \in Descriptors
      BY <1>c, <3>1, NewDescriptor DEF Steps
    <3>3. m_pbIT' \in Seq(Descriptors)
      BY <1>0, <3>1, <3>2 DEF Types
    <3>4. Types'
      BY <1>0, <2>2, <3>1, <3>2, <3>3 DEF Types, TypeOK
    <3>5. Image'
      BY <1>0, <3>1 DEF Image
    <3>6. m_pbIT' = Longer'
      BY <1>0, <3>1 DEF Call, Longer
    <3>7. Call' /\ Answers' /\ Idle'
      BY <1>0, <2>2, <3>1, <3>6 DEF Call, Answers, Steps, Idle
    <3>. QED BY <3>4, <3>5, <3>7 DEF ImportInv
  <2>. QED BY <1>3, <2>1, <2>2 DEF Allocate, Access
<1>4. CASE WriteThunks
  <2>1. CASE Fail /\ UNCHANGED <<imageVars, copyVars, historyVars>>
    BY <1>4, <2>1, FailInv DEF WriteThunks, Access, Steps
  <2>2. CASE pc' = "name"
    <3>1. /\ pc = "thunks" /\ thunks' = thunks \cup {target}
          /\ UNCHANGED <<processVars, header, tables, names, copyVars, historyVars, calls, answer>>
      BY <1>4, <2>2 DEF WriteThunks, Access, Fail
    <3>2. Types'
      BY <1>0, <2>2, <3>1 DEF Types, TypeOK
    <3>3. thunks \cap names \subseteq thunks' \cap names'
      BY <3>1
    <3>4. Image'
      BY <1>0, <3>1, <3>3, MoreWritten DEF Image
    <3>5. Call' /\ Answers' /\ Idle'
      BY <1>0, <2>2, <3>1 DEF Call, Longer, Answers, Steps, Idle
    <3>. QED BY <3>2, <3>4, <3>5 DEF ImportInv
  <2>. QED BY <1>4, <2>1, <2>2 DEF WriteThunks, Access
<1>5. CASE WriteName
  <2>1. CASE Fail /\ UNCHANGED <<imageVars, copyVars, historyVars>>
    BY <1>5, <2>1, FailInv DEF WriteName, Access, Steps
  <2>2. CASE pc' = "table"
    <3>1. /\ pc = "name" /\ names' = names \cup {target}
          /\ UNCHANGED <<processVars, header, tables, thunks, copyVars, historyVars, calls, answer>>
      BY <1>5, <2>2 DEF WriteName, Access, Fail
    <3>2. Types'
      BY <1>0, <2>2, <3>1 DEF Types, TypeOK
    <3>3. thunks \cap names \subseteq thunks' \cap names'
      BY <3>1
    <3>4. Image'
      BY <1>0, <3>1, <3>3, MoreWritten DEF Image
    <3>5. Call' /\ Answers' /\ Idle'
      BY <1>0, <2>2, <3>1 DEF Call, Longer, Answers, Steps, Idle
    <3>. QED BY <3>2, <3>4, <3>5 DEF ImportInv
  <2>. QED BY <1>5, <2>1, <2>2 DEF WriteName, Access
<1>6. CASE WriteTable
  <2>1. CASE Fail /\ UNCHANGED <<imageVars, copyVars, historyVars>>
    BY <1>6, <2>1, FailInv DEF WriteTable, Access, Steps
  <2>2. CASE pc' = "unlock"
    <3>1. /\ pc = "table" /\ tables' = [tables EXCEPT ![target] = m_pbIT]
          /\ UNCHANGED <<processVars, header, thunks, names, copyVars, historyVars, calls, answer>>
      BY <1>6, <2>2 DEF WriteTable, Access, Fail
    <3>2. Types'
      BY <1>0, <2>2, <3>1 DEF Types, TypeOK
    <3>3. target = calls /\ header.table # calls /\ calls \in 1..MaxCalls
      BY <1>0, <1>c, <3>1 DEF Call, Steps
    <3>4. /\ tables'[calls] = m_pbIT
          /\ \A b \in Places : b # calls => tables'[b] = tables[b]
      BY <1>0, <1>t, <3>1, <3>3 DEF Types
    <3>5. header.table # NoTable => tables'[header.table] = tables[header.table]
      BY <1>0, <3>3, <3>4 DEF Types, TypeOK
    <3>6. tables'[0] = Own
      BY <1>0, <1>t, <3>3, <3>4 DEF Image
    <3>7. Image'
      BY <1>0, <3>1, <3>5, <3>6 DEF Image
    <3>8. header.table # NoTable /\ Longer' = Longer
      BY <1>0, <3>1, <3>5 DEF Longer, Call, Steps
    <3>9. Call' /\ Answers' /\ Idle'
      BY <1>0, <2>2, <3>1, <3>3, <3>4, <3>8 DEF Call, Answers, Steps, Idle
    <3>. QED BY <3>2, <3>7, <3>9 DEF ImportInv
  <2>. QED BY <1>6, <2>1, <2>2 DEF WriteTable, Access
<1>7. CASE UnlockHeader
  <2>1. CASE Fail /\ UNCHANGED <<imageVars, copyVars, historyVars>>
    BY <1>7, <2>1, FailInv DEF UnlockHeader, Access, Steps
  <2>2. CASE pc' = "header"
    <3>1. /\ pc = "unlock" /\ m_nth' = [table |-> TableOf(target, reach), bound |-> FALSE]
          /\ UNCHANGED <<processVars, imageVars, m_pbIT, target, reach, historyVars, calls, answer>>
      BY <1>7, <2>2 DEF UnlockHeader, Access, Fail
    <3>2. Types'
      <4>1. pc \in Steps => TableOf(target, reach) \in Places
        BY <1>0, <1>t DEF TableOf, Types, TypeOK
      <4>. QED BY <1>0, <2>2, <3>1, <4>1 DEF Types, TypeOK, Steps
    <3>3. Image'
      BY <1>0, <3>1 DEF Image
    <3>4. Call' /\ Answers' /\ Idle'
      BY <1>0, <2>2, <3>1 DEF Call, Longer, Answers, Steps, Idle
    <3>. QED BY <3>2, <3>3, <3>4 DEF ImportInv
  <2>. QED BY <1>7, <2>1, <2>2 DEF UnlockHeader, Access
<1>8. CASE WriteHeader
  <2>1. CASE Fail /\ UNCHANGED <<imageVars, copyVars, historyVars>>
    BY <1>8, <2>1, FailInv DEF WriteHeader, Access, Steps
  <2>2. CASE pc' = "lock"
    <3>1. /\ pc = "header" /\ header' = m_nth /\ cut' = (cut \/ reach # "block")
          /\ UNCHANGED <<processVars, tables, thunks, names, copyVars, relocked, before, calls, answer>>
      BY <1>8, <2>2 DEF WriteHeader, Access, Fail
    <3>2. Types'
      BY <1>0, <2>2, <3>1 DEF Types, TypeOK
    <3>3. /\ header' = [table |-> TableOf(calls, reach), bound |-> FALSE] /\ header.table # NoTable
          /\ tables[calls] = Longer /\ calls \in thunks /\ calls \in names
          /\ suspended /\ calls \in 1..MaxCalls /\ calls \in Blocks
      BY <1>0, <1>c, <3>1 DEF Call, Steps
    <3>4. TableOf(calls, reach) \in {calls, Elsewhere} /\ Elsewhere \notin Blocks \cup {NoTable}
      BY <1>t DEF TableOf
    <3>5. ASSUME ~cut'
          PROVE  /\ header' = [table |-> calls, bound |-> FALSE]
                 /\ Whole(Longer, thunks \cap names) /\ Len(Longer) >= 2
                 /\ Longer[1].module = Dll
      <4>1. ~cut /\ reach = "block"
        BY <3>1, <3>5
      <4>2. Whole(tables[header.table], thunks \cap names)
        BY <1>0, <3>3, <4>1 DEF Image
      <4>3. "block" \in Reach
        BY DEF Reach
      <4>4. /\ Front(calls, "block") \in Descriptors /\ Front(calls, "block").module # End
            /\ Front(calls, "block").block \in thunks \cap names
        BY <3>3, <4>3, NewDescriptor
      <4>5. /\ Whole(Longer, thunks \cap names) /\ Len(Longer) >= 2
            /\ Longer[1] = Front(calls, "block")
        BY <4>1, <4>2, <4>4, FrontWhole DEF Longer
      <4>. QED BY <3>3, <4>1, <4>5, NewDescriptor DEF TableOf
    <3>6. /\ ~cut' /\ header'.table # NoTable =>
               header'.table # Elsewhere /\ Whole(tables'[header'.table], thunks' \cap names')
      BY <1>c, <3>1, <3>3, <3>5 DEF Steps
    <3>7. Image'
      BY <1>0, <1>t, <3>1, <3>3, <3>4, <3>6 DEF Image
    <3>8. Pointed'
      BY <3>1, <3>3, <3>5 DEF Pointed
    <3>9. Call' /\ Answers' /\ Idle'
      BY <1>0, <2>2, <3>1, <3>3, <3>8 DEF Call, Answers, Steps, Idle
    <3>. QED BY <3>2, <3>7, <3>9 DEF ImportInv
  <2>. QED BY <1>8, <2>1, <2>2 DEF WriteHeader, Access
<1>9. CASE LockHeader
  <2>1. CASE Fail /\ relocked' = FALSE /\ UNCHANGED <<imageVars, copyVars, before, cut>>
    BY <1>9, <2>1, FailInv DEF LockHeader, Access, Steps
  <2>2. CASE pc' = "resume"
    <3>1. /\ pc = "lock"
          /\ UNCHANGED <<processVars, imageVars, copyVars, historyVars, calls, answer>>
      BY <1>9, <2>2 DEF LockHeader, Access, Fail
    <3>2. Types'
      BY <1>0, <2>2, <3>1 DEF Types, TypeOK
    <3>3. Image'
      BY <1>0, <3>1 DEF Image
    <3>4. Call' /\ Answers' /\ Idle'
      BY <1>0, <2>2, <3>1 DEF Call, Longer, Pointed, Answers, Steps, Idle
    <3>. QED BY <3>2, <3>3, <3>4 DEF ImportInv
  <2>. QED BY <1>9, <2>1, <2>2 DEF LockHeader, Access
<1>10. CASE Resume
  <2>1. Types'
    BY <1>0, <1>10 DEF Resume, Types, TypeOK
  <2>2. Image'
    BY <1>0, <1>10 DEF Resume, Image
  <2>3. Call' /\ Answers' /\ Idle'
    BY <1>0, <1>10 DEF Resume, Call, Pointed, Answers, Steps, Idle
  <2>. QED BY <2>1, <2>2, <2>3 DEF ImportInv
<1>. QED BY <1>1, <1>2, <1>3, <1>4, <1>5, <1>6, <1>7, <1>8, <1>9, <1>10 DEF Client

\* A process that starts loads modules.
LEMMA ImportsType == Image /\ ~cut => ImportsOf \in Seq(Modules \cup {Dll})
<1> SUFFICES ASSUME Image, ~cut PROVE ImportsOf \in Seq(Modules \cup {Dll})
  OBVIOUS
<1>1. Imports \in Seq(Modules \cup {Dll})
  BY ImportAssumption
<1>2. header.table # NoTable => Before(tables[header.table]) \in Seq(Modules \cup {Dll})
  BY BeforeType DEF Image
<1>. QED BY <1>1, <1>2, ImportsNow DEF Imported

\* Every step keeps the invariant.
LEMMA NextInv == ImportInv /\ [Next]_vars => ImportInv'
<1> SUFFICES ASSUME ImportInv, [Next]_vars PROVE ImportInv'
  OBVIOUS
<1> USE DEF processVars, imageVars, copyVars, handleVars, historyVars
<1>0. Types /\ Image /\ Call /\ Answers /\ Idle
  BY DEF ImportInv
<1>1. CASE Client
  BY <1>1, ClientInv
<1>2. CASE ClientCrashes
  <2>1. Types' /\ Image'
    BY <1>0, <1>2 DEF ClientCrashes, Types, TypeOK, Image
  <2>2. Call' /\ Answers' /\ Idle'
    BY <1>0, <1>2 DEF ClientCrashes, Call, Answers, Steps, Idle
  <2>. QED BY <2>1, <2>2 DEF ImportInv
<1>3. CASE OtherResumes
  <2>1. Types' /\ Image'
    BY <1>0, <1>3 DEF OtherResumes, Types, TypeOK, Image
  <2>2. Call' /\ Answers' /\ Idle'
    BY <1>0, <1>3 DEF OtherResumes, Call, Answers, Pointed, Steps, Idle
  <2>. QED BY <2>1, <2>2 DEF ImportInv
<1>4. CASE Load
  <2>1. ~cut' => loaded' \in Seq(Modules \cup {Dll})
    BY <1>0, <1>4, ImportsType DEF Load
  <2>2. Types' /\ Image'
    BY <1>0, <1>4, <2>1 DEF Load, Types, TypeOK, Image
  <2>3. Call' /\ Answers' /\ Idle'
    BY <1>0, <1>4 DEF Load, Call, Longer, Answers, Pointed, Steps, Idle
  <2>. QED BY <2>2, <2>3 DEF ImportInv
<1>5. CASE Killed
  <2>0. /\ UNCHANGED <<suspended, loaded, fits, header, tables, thunks, names, pc, m_nth, m_pbIT>>
        /\ UNCHANGED <<target, reach, calls, answer, relocked, before, cut>>
        /\ alive' = FALSE
    BY <1>5 DEF Killed
  <2>1. Types' /\ Image'
    <3>1. TypeOK'
      BY <1>0, <2>0 DEF Types, TypeOK
    <3>2. Types'
      BY <1>0, <2>0, <3>1 DEF Types
    <3>. QED BY <1>0, <2>0, <3>2 DEF Image
  <2>2. Call' /\ Answers' /\ Idle'
    BY <1>0, <1>5 DEF Killed, Call, Longer, Answers, Pointed, Steps, Idle
  <2>. QED BY <2>1, <2>2 DEF ImportInv
<1>6. CASE UNCHANGED vars
  <2>1. Types' /\ Image'
    BY <1>0, <1>6 DEF vars, Types, TypeOK, Image
  <2>2. Call' /\ Answers' /\ Idle'
    BY <1>0, <1>6 DEF vars, Call, Longer, Answers, Pointed, Steps, Idle
  <2>. QED BY <2>1, <2>2 DEF ImportInv
<1>. QED BY <1>1, <1>2, <1>3, <1>4, <1>5, <1>6 DEF Next

\* Hence it always holds.
LEMMA AlwaysInv == Spec => []ImportInv
BY InitInv, NextInv, PTL DEF Spec

(* Every variable keeps its type: in particular a process loads only modules,  *)
(* and never a table that is broken, as long as its header does not lead to a  *)
(* distance that was cut.                                                      *)
THEOREM TypeCorrect == Spec => []TypeOK
<1>1. ImportInv => TypeOK
  BY DEF ImportInv, Types
<1>. QED BY AlwaysInv, <1>1, PTL

(* As long as the image can address the tables its header leads to, TRUE tells *)
(* that the loader will find the server; FALSE tells, wherever the table is,   *)
(* that the header is as it was, unless its protection could not be restored.  *)
(* So it is for any imports and any number of calls that failed before.        *)
THEOREM Truthful == Spec => []AnswerIsTruthful
<1>1. ImportInv => AnswerIsTruthful
  <2> SUFFICES ASSUME ImportInv, pc = "idle" PROVE AnswerIsTruthful
    BY DEF AnswerIsTruthful
  <2>0. Types /\ Image /\ Answers
    BY DEF ImportInv
  <2>1. ASSUME answer = "true", ~cut
        PROVE  header.table = calls /\ Head(ImportsOf) = Dll
    <3>1. Pointed /\ calls \in 1..MaxCalls /\ NoTable = MaxCalls + 1
      BY <2>0, <2>1, ImportAssumption DEF Answers, Types, NoTable
    <3>2. header.table = calls /\ header.table # NoTable /\ ~header.bound
      BY <2>1, <3>1, ImportAssumption DEF Pointed
    <3>3. ImportsOf = Before(tables[calls])
      BY <2>0, <2>1, <3>2, ImportsNow DEF Imported
    <3>4. Len(tables[calls]) >= 2 /\ tables[calls][1].module = Dll /\ Len(tables[calls]) \in Nat
      BY <2>0, <2>1, <3>1, <3>2 DEF Pointed, Image, Whole
    <3>5. Before(tables[calls])[1] = Dll
      BY <3>4 DEF Before
    <3>6. Before(tables[calls]) \in Seq(Modules \cup {Dll})
      BY <2>0, <2>1, <3>2, BeforeType DEF Image
    <3>. QED BY <3>2, <3>3, <3>5, <3>6
  <2>2. answer = "false" /\ relocked => header = before
    BY <2>0 DEF Answers
  <2>. QED BY <2>1, <2>2 DEF AnswerIsTruthful
<1>. QED BY AlwaysInv, <1>1, PTL

\* A step of the image's: its imports change when its header is written.
LEMMA StepAdds ==
  ASSUME ImportInv, ImportInv', [Next]_vars
  PROVE  L!Next \/ UNCHANGED L!vars
<1> USE DEF processVars, imageVars, copyVars, handleVars, historyVars
<1>0. Types /\ Image /\ Call /\ Image' /\ Types' /\ Answers /\ Idle
  BY DEF ImportInv
<1>1. ~cut' => ImportsOf = Imported(header, tables) /\ ImportsOf' = Imported(header', tables')
  <2>1. ~cut' => ~cut
    BY DEF Next, Client, Open, Read, Allocate, WriteThunks, WriteName, WriteTable,
           UnlockHeader, WriteHeader, LockHeader, Resume, Access, ClientCrashes,
           OtherResumes, Load, Killed, vars
  <2>. QED BY <1>0, <2>1, ImportsNow, ImportsNext
<1>2. ASSUME UNCHANGED imageVars PROVE ImportsOf' = ImportsOf
  BY <1>2 DEF ImportsOf, Listed
<1>3. CASE Load
  <2>1. ImportsOf' = ImportsOf /\ UNCHANGED <<header, before, cut, calls>>
    BY <1>2, <1>3 DEF Load
  <2>. QED BY <1>3, <2>1 DEF Load, L!Next, L!Load
<1>4. CASE Open
  <2>1. ImportsOf' = ImportsOf /\ UNCHANGED <<header, loaded, cut>> /\ before' = header
    BY <1>2, <1>4 DEF Open
  <2>2. loaded = <<>> /\ calls' = calls + 1
    BY <1>0, <1>4 DEF Open, Image
  <2>. QED BY <2>1, <2>2 DEF L!Next, L!Call
<1>5. CASE WriteThunks \/ WriteName \/ WriteTable
  <2>1. /\ loaded = <<>> /\ header = before /\ header.table # calls
        /\ target = calls
    BY <1>0, <1>5 DEF WriteThunks, WriteName, WriteTable, Access, Call, Image, Steps
  <2>2. UNCHANGED <<header, loaded, cut, calls, before>>
    BY <1>5 DEF WriteThunks, WriteName, WriteTable, Access
  <2>3. CASE cut'
    BY <2>1, <2>2, <2>3 DEF L!Next, L!Lose
  <2>4. CASE ~cut'
    <3>1. tables' = tables \/ tables' = [tables EXCEPT ![calls] = m_pbIT]
      BY <1>5, <2>1 DEF WriteThunks, WriteName, WriteTable, Access
    <3>2. header.table # NoTable => tables'[header.table] = tables[header.table]
      BY <1>0, <2>1, <3>1 DEF Types, TypeOK
    <3>3. ImportsOf' = ImportsOf
      BY <1>1, <2>2, <2>4, <3>2 DEF Imported
    <3>. QED BY <2>2, <3>3 DEF L!vars
  <2>. QED BY <2>3, <2>4
<1>6. CASE WriteHeader /\ pc' = "lock"
  <2>1. /\ pc = "header" /\ header' = m_nth /\ cut' = (cut \/ reach # "block")
        /\ UNCHANGED <<tables, loaded, before, calls>>
    BY <1>6 DEF WriteHeader, Access, Fail
  <2>2. /\ header' = [table |-> TableOf(calls, reach), bound |-> FALSE]
        /\ header.table # NoTable /\ header = before /\ header.table # calls
        /\ tables[calls] = Longer /\ suspended /\ calls \in 1..MaxCalls
    BY <1>0, <2>1 DEF Call, Steps, Types
  <2>3. loaded = <<>>
    BY <1>0, <2>2 DEF Image
  <2>4. CASE cut'
    BY <2>1, <2>3, <2>4 DEF L!Next, L!Lose
  <2>5. CASE ~cut'
    <3>1. reach = "block" /\ ~cut
      BY <2>1, <2>5
    <3>2. header' = [table |-> calls, bound |-> FALSE] /\ header' # before
      BY <2>2, <3>1 DEF TableOf
    <3>3. ImportsOf = Before(tables[header.table])
      BY <1>0, <1>1, <2>2, <2>5, OwnWhole DEF Imported, Image
    <3>4. calls # NoTable
      BY <2>2, ImportAssumption DEF NoTable
    <3>5. ImportsOf' = Before(Longer)
      BY <1>1, <2>1, <2>2, <2>5, <3>2, <3>4 DEF Imported
    <3>6. tables[header.table] \in Seq(Descriptors) /\ Len(tables[header.table]) >= 1
      BY <1>0, <2>2, <3>1 DEF Image, Whole
    <3>7. "block" \in Reach
      BY DEF Reach
    <3>8. ImportsOf' = <<Dll>> \o ImportsOf
      BY <2>2, <3>1, <3>3, <3>5, <3>6, <3>7, BeforeFront, NewDescriptor DEF Longer
    <3>9. calls > 0 /\ cut' = cut /\ UNCHANGED <<loaded, calls>>
      BY <1>0, <2>1, <2>2, <2>5, <3>1 DEF Types, TypeOK
    <3>10. ~(header # before) /\ (header # before)' = TRUE
      BY <2>1, <2>2, <3>2
    <3>11. L!Add
      BY <2>3, <3>8, <3>9, <3>10, Zenon DEF L!Add
    <3>. QED BY <3>11 DEF L!Next
  <2>. QED BY <2>4, <2>5
<1>7. ASSUME UNCHANGED <<imageVars, loaded, calls, before, cut>> PROVE UNCHANGED L!vars
  BY <1>2, <1>7 DEF L!vars
<1>8. CASE Client
  <2>1. CASE Read \/ Allocate \/ UnlockHeader \/ LockHeader \/ Resume
    BY <1>7, <2>1 DEF Read, Allocate, UnlockHeader, LockHeader, Resume, Access
  <2>2. CASE WriteHeader
    <3>1. pc' = "lock" \/ UNCHANGED <<imageVars, loaded, calls, before, cut>>
      BY <2>2 DEF WriteHeader, Access
    <3>. QED BY <1>6, <1>7, <2>2, <3>1
  <2>. QED BY <1>4, <1>5, <1>8, <2>1, <2>2 DEF Client
<1>9. CASE ClientCrashes \/ OtherResumes \/ Killed \/ UNCHANGED vars
  BY <1>7, <1>9 DEF ClientCrashes, OtherResumes, Killed, vars
<1>. QED BY <1>3, <1>8, <1>9 DEF Next

(* ImportTable implements ImportList: the ten accesses to the process, the     *)
(* deaths of both parties and the loader's start come down, for each call, to  *)
(* one step that puts the server in front of the imports, or to none.  A call  *)
(* that is repeated may do so again.  Of imports that the image cannot address *)
(* nothing is said.                                                            *)
THEOREM Implements == Spec => AddsImport
<1>1. Init => L!Init
  <2> SUFFICES ASSUME Init PROVE L!Init
    OBVIOUS
  <2>1. Image /\ ~cut
    BY InitInv DEF ImportInv, Init
  <2>2. ImportsOf = Imported(header, tables)
    BY <2>1, ImportsNow
  <2>3. header.table # NoTable => Before(tables[header.table]) = Imports
    <3>1. header.table # NoTable => header.table = 0
      BY DEF Init
    <3>2. tables[0] = Own
      BY <2>1 DEF Image
    <3>. QED BY <3>1, <3>2, OwnWhole
  <2>4. ImportsOf = Imports
    BY <2>2, <2>3 DEF Imported
  <2>. QED BY <2>4 DEF L!Init, Init
<1>2. ImportInv /\ ImportInv' /\ [Next]_vars => [L!Next]_(L!vars)
  BY StepAdds
<1>. QED BY AlwaysInv, <1>1, <1>2, PTL DEF Spec, AddsImport, L!Spec
=============================================================================
