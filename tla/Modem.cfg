\* Two requests and one event; two operations, two events and three direct calls;
\* two starts and two reads.
SPECIFICATION ModemSpec
CONSTANTS
  MaxRequests = 2
  MaxEvents = 1
  Events = {"UP"}
  MaxMsmTasks = 2
  MaxMsmEvents = 2
  MaxMsmCalls = 3
  MaxStmStarts = 2
  MaxStmReads = 2
INVARIANTS
  ListenersGetTheirResults
  DisconnectedHearsNothing
  StmdStatusIsRight
PROPERTIES
  ModemCallsEnd
CHECK_DEADLOCK FALSE
