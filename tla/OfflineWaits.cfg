SPECIFICATION Spec
CONSTANTS
  Publishers = {"session", "ocmf"}
  MaxOutbox = 2
  Coincidences = {}
  MaxFiles = 2
  MaxValues = 3
  MaxItems = 2
  MaxWork = 1
  MaxTroubles = 1
PROPERTY
  Delivered
CHECK_DEADLOCK FALSE
