----------------------------- MODULE ImportTable -----------------------------
(***************************************************************************)
(* injectIntoProcess and sistartwith: the client gives a process that was    *)
(* created suspended a second import table, with the server in front, points *)
(* the header to it and lets the process run.  Every access to the other     *)
(* process may fail, the process may be killed and the client may crash      *)
(* between any two; after a failure the user may resume the process or try   *)
(* again.                                                                    *)
(*                                                                           *)
(* An image addresses its tables by distances of 32 bits.  The place of the  *)
(* new table is searched upwards from the image without a limit              *)
(* (sisystem.cpp:175-192), and distances are cut to 32 bits                  *)
(* (sistartwith.h:272-274,286): what lies 4 GB above, or more, is not what   *)
(* the image then points to.                                                 *)
(***************************************************************************)
EXTENDS Naturals, Sequences

CONSTANTS
  Dll,        \* the server
  Modules,    \* other modules
  Imports,    \* what the program imports
  End,        \* the null descriptor
  MaxCalls    \* bound: calls of injectIntoProcess

ASSUME ImportAssumption ==
  /\ Imports \in Seq(Modules) /\ Imports # <<>>
  /\ Dll \notin Modules /\ End \notin Modules \cup {Dll}
  /\ MaxCalls \in Nat

\* Blocks with a table: 0 is the image's own, others are allocated for it.
Blocks == 0..MaxCalls

NoTable == MaxCalls + 1

\* Where a distance that has been cut leads: into the image or the 4 GB above it,
\* where there is nothing of a table.
Elsewhere == MaxCalls + 2

Places == Blocks \cup {Elsewhere}

\* What the image can address of a new block: all of it, the table but not the
\* thunks and the name, which come after it, or nothing.
Reach == {"block", "table", "none"}

\* A descriptor points to the thunks and the name of its module, in a block.
Descriptor(module, block) == [module |-> module, block |-> block]

\* The distances of a new block's thunks and name, cut to 32 bits.
Front(block, reach) == Descriptor(Dll, IF reach = "block" THEN block ELSE Elsewhere)

\* The distance of its table.
TableOf(block, reach) == IF reach = "none" THEN Elsewhere ELSE block

Own == [i \in 1..(Len(Imports) + 1) |->
          Descriptor(IF i > Len(Imports) THEN End ELSE Imports[i], 0)]

VARIABLES
  alive, suspended, loaded,   \* the process, and what the loader has loaded
  fits,                       \* is it for this machine?
  header,                     \* of the image: its import table, if any, and is there a bound one?
  tables, thunks, names,      \* blocks and what has been written to them
  pc, hProcess, hThread,      \* the client
  m_nth, m_pbIT,              \* its copies of the header and the table
  target, reach,              \* m_pbITTarget, and what the image can address of it
  calls, answer,
  relocked,                   \* history: has the call restored the header's protection, or left it alone?
  before,                     \* history: the header when the call began
  cut                         \* history: does the header lead to a distance that was cut?

processVars == <<alive, suspended, loaded, fits>>
imageVars == <<header, tables, thunks, names>>
handleVars == <<hProcess, hThread>>
copyVars == <<m_nth, m_pbIT, target, reach>>
historyVars == <<relocked, before, cut>>
vars == <<processVars, imageVars, pc, handleVars, copyVars, calls, answer, historyVars>>

Init ==
  /\ alive = TRUE /\ suspended = TRUE /\ loaded = <<>>
  /\ fits \in BOOLEAN
  /\ header \in [table : {0, NoTable}, bound : BOOLEAN]
  /\ tables = [b \in Places |-> IF b = 0 THEN Own ELSE <<>>]
  /\ thunks = {0} /\ names = {0}
  /\ pc = "idle"
  /\ hProcess = FALSE /\ hThread = FALSE
  /\ m_nth = header /\ m_pbIT = <<>> /\ target = 0 /\ reach = "none"
  /\ calls = 0
  /\ answer = "none"
  /\ relocked = TRUE /\ before = header /\ cut = FALSE

-----------------------------------------------------------------------------
(* The client. *)

\* A handle that cannot be opened is NULL, which the checks let pass.
Open ==
  /\ pc = "idle"
  /\ suspended
  /\ calls < MaxCalls
  /\ calls' = calls + 1
  /\ hProcess' \in {alive, FALSE}
  /\ hThread' \in {alive, FALSE}
  /\ pc' = "read"
  /\ answer' = "none"
  /\ relocked' = TRUE
  /\ before' = header
  /\ UNCHANGED <<processVars, imageVars, copyVars, cut>>

Fail ==
  /\ pc' = "idle"
  /\ answer' = "false"

Reaches == hProcess /\ alive

\* One access to the process: it is done, with what it changes, or it fails.
Access(from, to, Changed, Unchanged) ==
  /\ pc = from
  /\ \/ Reaches /\ Changed /\ pc' = to /\ UNCHANGED answer
     \/ Fail /\ Unchanged
  /\ UNCHANGED <<processVars, handleVars, calls>>

\* findImage, the machine, refreshIT; the image has to have a table.
Read ==
  Access("read", "allocate",
    /\ fits
    /\ header.table # NoTable
    /\ m_nth' = header
    /\ m_pbIT' = tables[header.table]
    /\ UNCHANGED <<imageVars, target, reach, historyVars>>,
    UNCHANGED <<imageVars, copyVars, historyVars>>)

\* The size of the new table taken from the header.
AllocateShort ==
  Access("allocate", "thunks",
    /\ target' = calls
    /\ reach' \in Reach
    /\ m_pbIT' = SubSeq(<<Front(calls, reach')>> \o m_pbIT, 1, Len(m_pbIT))
    /\ UNCHANGED <<imageVars, m_nth, historyVars>>,
    UNCHANGED <<imageVars, copyVars, historyVars>>)

\* The old table is made writable, too, and stays so.  The block is the first one
\* above the image that can be had, at whatever distance.
Allocate ==
  Access("allocate", "thunks",
    /\ target' = calls
    /\ reach' \in Reach
    /\ m_pbIT' = <<Front(calls, reach')>> \o m_pbIT
    /\ UNCHANGED <<imageVars, m_nth, historyVars>>,
    UNCHANGED <<imageVars, copyVars, historyVars>>)

WriteThunks ==
  Access("thunks", "name",
    /\ thunks' = thunks \cup {target}
    /\ UNCHANGED <<header, tables, names, copyVars, historyVars>>,
    UNCHANGED <<imageVars, copyVars, historyVars>>)

WriteName ==
  Access("name", "table",
    /\ names' = names \cup {target}
    /\ UNCHANGED <<header, tables, thunks, copyVars, historyVars>>,
    UNCHANGED <<imageVars, copyVars, historyVars>>)

WriteTable ==
  Access("table", "unlock",
    /\ tables' = [tables EXCEPT ![target] = m_pbIT]
    /\ UNCHANGED <<header, thunks, names, copyVars, historyVars>>,
    UNCHANGED <<imageVars, copyVars, historyVars>>)

\* The directory of bound imports left alone.
UnlockHeaderBound ==
  Access("unlock", "header",
    /\ m_nth' = [m_nth EXCEPT !.table = TableOf(target, reach)]
    /\ UNCHANGED <<imageVars, m_pbIT, target, reach, historyVars>>,
    UNCHANGED <<imageVars, copyVars, historyVars>>)

\* dumpNTH: protection, header, protection.  Bound imports are cleared.
UnlockHeader ==
  Access("unlock", "header",
    /\ m_nth' = [table |-> TableOf(target, reach), bound |-> FALSE]
    /\ UNCHANGED <<imageVars, m_pbIT, target, reach, historyVars>>,
    UNCHANGED <<imageVars, copyVars, historyVars>>)

WriteHeader ==
  Access("header", "lock",
    /\ header' = m_nth
    /\ cut' = (cut \/ reach # "block")
    /\ UNCHANGED <<tables, thunks, names, copyVars, relocked, before>>,
    UNCHANGED <<imageVars, copyVars, historyVars>>)

LockHeader ==
  Access("lock", "resume",
    UNCHANGED <<imageVars, copyVars, historyVars>>,
    relocked' = FALSE /\ UNCHANGED <<imageVars, copyVars, before, cut>>)

\* The result of ResumeThread is not looked at.
Resume ==
  /\ pc = "resume"
  /\ suspended' = (suspended /\ ~(hThread /\ alive))
  /\ pc' = "idle"
  /\ answer' = "true"
  /\ UNCHANGED <<alive, loaded, fits, imageVars, handleVars, copyVars, calls, historyVars>>

ClientCrashes ==
  /\ pc # "crashed"
  /\ pc' = "crashed"
  /\ answer' = "none"
  /\ UNCHANGED <<processVars, imageVars, handleVars, copyVars, calls, historyVars>>

-----------------------------------------------------------------------------
(* The process, and others that may let it run. *)

\* The user gives up, or somebody else who has a handle.
OtherResumes ==
  /\ pc = "crashed" \/ (pc = "idle" /\ answer = "false")
  /\ alive /\ suspended
  /\ suspended' = FALSE
  /\ UNCHANGED <<alive, loaded, fits, imageVars, pc, handleVars, copyVars, calls, answer, historyVars>>

\* What a loader makes of a table: it stops at the null descriptor.
Broken == <<End>>

Listed(table) ==
  LET ends == {i \in 1..Len(table) : table[i].module = End}
      length == (CHOOSE i \in ends : \A j \in ends : i <= j) - 1
  IN IF ends = {} \/ \E i \in 1..length : table[i].block \notin thunks \cap names
     THEN Broken
     ELSE [i \in 1..length |-> table[i].module]

\* A bound directory comes first and names the modules there were.
ImportsOf ==
  IF header.bound \/ header.table = NoTable THEN Imports
  ELSE Listed(tables[header.table])

Load ==
  /\ alive /\ ~suspended
  /\ loaded = <<>>
  /\ loaded' = ImportsOf
  /\ UNCHANGED <<alive, suspended, fits, imageVars, pc, handleVars, copyVars, calls, answer, historyVars>>

Killed ==
  /\ alive
  /\ alive' = FALSE
  /\ UNCHANGED <<suspended, loaded, fits, imageVars, pc, handleVars, copyVars, calls, answer, historyVars>>

Client ==
  \/ Open
  \/ Read
  \/ Allocate
  \/ WriteThunks
  \/ WriteName
  \/ WriteTable
  \/ UnlockHeader
  \/ WriteHeader
  \/ LockHeader
  \/ Resume

Next == Client \/ ClientCrashes \/ OtherResumes \/ Load \/ Killed

Spec == Init /\ [][Next]_vars

-----------------------------------------------------------------------------
TypeOK ==
  /\ alive \in BOOLEAN /\ suspended \in BOOLEAN /\ fits \in BOOLEAN
  /\ (~cut => loaded \in Seq(Modules \cup {Dll}))
  /\ header \in [table : Places \cup {NoTable}, bound : BOOLEAN]
  /\ thunks \subseteq Blocks /\ names \subseteq Blocks
  /\ target \in Blocks /\ reach \in Reach
  /\ pc \in {"idle", "read", "allocate", "thunks", "name", "table", "unlock",
             "header", "lock", "resume", "crashed"}
  /\ answer \in {"none", "true", "false"}
  /\ relocked \in BOOLEAN /\ cut \in BOOLEAN

(* As long as the new tables are where the image can address them, less than  *)
(* 4 GB above, injectIntoProcess answers TRUE only if the image points to the *)
(* table this call made and the loader will take the server from it first,    *)
(* bound imports or not.  It answers FALSE only if the image's header is as   *)
(* it was before the call, wherever the table is.  The exception is a header  *)
(* that was written but whose protection could not be restored: the answer is *)
(* FALSE, and the server will be loaded all the same.  Of a table out of      *)
(* reach the answer may be TRUE, and the loader does not find the server.     *)
AnswerIsTruthful ==
  pc = "idle" =>
    /\ answer = "true" /\ ~cut => header.table = calls /\ Head(ImportsOf) = Dll
    /\ answer = "false" /\ relocked => header = before

(* Whatever fails, whoever dies and whoever resumes the process, its loader   *)
(* meets the imports it had, or the same with the server in front, once for   *)
(* each call that has written the header: never a table without an end or a   *)
(* descriptor whose name or thunks are not there.  A call that is repeated    *)
(* after a FALSE that was not true (see AnswerIsTruthful), or after a         *)
(* ResumeThread that failed, puts the server in front a second time.  If the  *)
(* header leads to a distance that was cut, the process has no imports that   *)
(* anything could be said about.                                              *)
L == INSTANCE ImportList WITH imports <- ImportsOf, added <- header # before

AddsImport == L!Spec
=============================================================================
