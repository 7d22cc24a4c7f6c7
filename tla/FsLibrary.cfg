\* Two threads, two names; three accessors, so that freed ones are used again.
SPECIFICATION Spec
CONSTANTS
  Thread = {t1, t2}
  Name = {NA, SD}
  Accessor = {a1, a2, a3}
  Handle = {h1, h2}
  None = None
INVARIANTS
  TypeOK
  AccessorsAccounted
  FoundIsMounted
  NeverAborts
  NonePending
PROPERTIES
  TableSpec
