\* Three streams at once, with room for two files.
SPECIFICATION FairSpec
CONSTANTS
  Slot = {s1, s2, s3}
  Path = {p1, p2, p3}
  Limit = 3
  Tries = 2
  None = None
INVARIANTS
  CountIsExact
  LimitIsKept
  NoFileLeftBehind
  NeverAborts
PROPERTIES
  EveryCallReturns
