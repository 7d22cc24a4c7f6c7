\* The manager of caps:c with two sessions, and room for one of an object.
SPECIFICATION Spec
CONSTANTS
  caps_c = caps_c
  Services <- MCServices
  MaxSessions = 2
  SessionCount = 3
  None = None
INVARIANTS
  TypeOK
  LinkedOnce
  PortsFitInMemory
PROPERTIES
  RequestIsServed
  ConnectionIsAccepted
