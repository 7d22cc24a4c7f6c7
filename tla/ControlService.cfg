\* Two resources instead of four, two ids besides 0 of each sort; two ids a second
\* instead of a hundred, three seconds, and two offsets of the local time.
SPECIFICATION MCSpec
CONSTANTS
  Slots = 2
  Aruid = {0, 1, 2}
  ApplicationId = {0, 1, 2}
  LastId = 1
  MaxTime = 2
  MaxOffset = 1
INVARIANTS
  EntryReadableWhileRegistered
  EntryIsPrivate
  IdsTypeOK
  IdsAreUnique
