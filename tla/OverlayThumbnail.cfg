\* One writer and one reader of both thumbnails. The clients may stop calling:
\* EveryCallReturns says what freedom from deadlock means here.
SPECIFICATION FairSpec
CONSTANTS
  Screenshot = Screenshot
  Movie = Movie
  Kind <- MCKind
  Chunks = 3
  MaxWrites = 3
INVARIANTS
  ReadIsRecent
  HolderAtRest
PROPERTIES
  EveryCallReturns
CHECK_DEADLOCK FALSE
