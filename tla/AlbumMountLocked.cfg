\* The commands that take g_AlbumMutex, from both threads.
SPECIFICATION Spec
CONSTANTS
  SystemThread = SystemThread
  ApplicationThread = ApplicationThread
  Nand = Nand
  Sd = Sd
  InvalidStorage = InvalidStorage
  NoThread = NoThread
  Thread <- MCThread
  Commands <- LockedCommands
INVARIANTS
  StatusIsTrue
  NeverMountedTwice
  SavingStorageMounted
PROPERTIES
  ClosedStaysClosed
  AtomicSpec
