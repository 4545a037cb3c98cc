\* Two threads, a third one created on the way, two calls of the client.
SPECIFICATION FairSpec
CONSTANTS
  Main = main
  Server = server
  worker = worker
  late = late
  LocalAlloc = LocalAlloc
  CreateFileW = CreateFileW
  Threads <- MCThreads
  Created <- MCCreated
  Functions <- MCFunctions
  NoFunction = NoFunction
  NoCommand = NoCommand
  Nobody = Nobody
  MaxCalls = 2
INVARIANTS TypeOK PausedWhileInstalling
PROPERTIES BatchRestores AnswerMatchesEffect AnswersOrWedged IsRemoteCall
\* The client may stop calling, the AUT may die.
CHECK_DEADLOCK FALSE
