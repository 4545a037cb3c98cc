\* Both ways of injection, one first command.
SPECIFICATION FairSpec
CONSTANTS
  Main = Main
  Remote = Remote
  Worker = Worker
  Server = Server
  NoThread = NoThread
INVARIANTS TypeOK HeldUntilRun AutReleased Registered
PROPERTIES Served
\* The program may end up suspended, and nothing else is left to do.
CHECK_DEADLOCK FALSE
