\* Two files of one type on two storages with room for one; one of them is copied.
SPECIFICATION MCFairSpec
CONSTANTS
  Nand = Nand
  Sd = Sd
  f1 = f1
  f2 = f2
  Screenshot = Screenshot
  Storage <- MCStorage
  Type <- MCType
  File <- TwoFiles
  Asked <- OneFile
  TypeOf <- OneType
  Absent = Absent
  Versions = 4
  AllowedFileSize = 3
  WorkMemorySize = 2
  FileMaxCount = 1
  Word = 2
INVARIANTS
  NoFragmentAtRest
PROPERTIES
  CopyIsFaithful
  LimitIsKept
  FailedCopyKeepsOrDrops
  EveryCommandEnds
