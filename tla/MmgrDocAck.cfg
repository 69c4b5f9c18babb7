SPECIFICATION Spec
CONSTANTS
  MaxRequests = 3
  MaxEvents = 0
  Events = {}
INVARIANT SuccessMeansAck
CHECK_DEADLOCK FALSE
