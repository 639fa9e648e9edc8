SPECIFICATION Spec
CONSTANTS
  Polled <- GoPolled
  Callers = {"session"}
  Requests <- McuRequests
  MaxLine = 2
  MaxErrors = 1
INVARIANTS
  AckIsReal
  ReadyMeansAll
PROPERTIES
  PollRecovers
  DeadNoticed
CHECK_DEADLOCK FALSE
