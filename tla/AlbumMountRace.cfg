\* GenerateCurrentAlbumFileId races the commands that hold g_AlbumMutex.
SPECIFICATION Spec
CONSTANTS
  SystemThread = SystemThread
  ApplicationThread = ApplicationThread
  Nand = Nand
  Sd = Sd
  InvalidStorage = InvalidStorage
  NoThread = NoThread
  Thread <- MCThread
  Commands <- AllCommands
INVARIANTS
  NeverMountedTwice
