\* Both ways of injection, one first command.
SPECIFICATION Spec
CONSTANTS
  Main = Main
  Remote = Remote
  Worker = Worker
  Server = Server
  NoThread = NoThread
INVARIANTS ServerIsShielded
\* The program may end up suspended, and nothing else is left to do.
CHECK_DEADLOCK FALSE
