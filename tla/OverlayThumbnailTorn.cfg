\* A read that meets a memcpy of the writer.
SPECIFICATION FairSpec
CONSTANTS
  Screenshot = Screenshot
  Movie = Movie
  Kind <- MCKind
  Chunks = 3
  MaxWrites = 3
INVARIANTS
  ThumbnailIsWhole
