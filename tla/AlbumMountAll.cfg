\* All commands, the unlocked one included. The clients may stop
\* calling: EveryRequestIsAnswered says what freedom from deadlock means here.
SPECIFICATION FairSpec
CONSTANTS
  SystemThread = SystemThread
  ApplicationThread = ApplicationThread
  Nand = Nand
  Sd = Sd
  InvalidStorage = InvalidStorage
  NoThread = NoThread
  Thread <- MCThread
  Commands <- AllCommands
INVARIANTS
  TypeOK
  NeverUnmountedTwice
  FilesOnMountedStorage
PROPERTIES
  EveryRequestIsAnswered
CHECK_DEADLOCK FALSE
