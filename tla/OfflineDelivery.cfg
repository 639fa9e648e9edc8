SPECIFICATION Spec
CONSTANTS
  Publishers = {"session", "ocmf"}
  MaxOutbox = 1
  Coincidences = {"lateack", "stale", "torn", "lateid", "delete"}
  MaxFiles = 2
  MaxValues = 3
  MaxItems = 2
  MaxWork = 3
  MaxTroubles = 1
INVARIANTS
  Reported
  SessionsKept
  ReadingsKept
  RightlyClosed
PROPERTIES
  InOrder
  Resumes
CHECK_DEADLOCK FALSE
