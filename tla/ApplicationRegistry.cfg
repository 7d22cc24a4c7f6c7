\* Two resources instead of four, two ids besides 0 of each sort.
SPECIFICATION Spec
CONSTANTS
  Slots = 2
  Aruid = {0, 1, 2}
  ApplicationId = {0, 1, 2}
INVARIANTS
  ResourcesFollowCalls
