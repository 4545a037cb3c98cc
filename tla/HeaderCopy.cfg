\* Every header of three instructions from a menu, on both platforms.
SPECIFICATION CopySpec
CONSTANTS
  Codes <- MCCodes
  Exit <- MCExit
  Crash <- MCCrash
  Pages <- MCPages
  Reach = 65535
INVARIANTS CopyTypeOK BackToAnInstruction
PROPERTIES RunsAsCompiled
\* Functions return.
CHECK_DEADLOCK FALSE
