SPECIFICATION Spec
CONSTANTS
  MaxRequests = 2
  MaxEvents = 2
  Events = {"UP", "DOWN", "COLD_RESET"}
INVARIANT TrueMeansReceived
CHECK_DEADLOCK FALSE
