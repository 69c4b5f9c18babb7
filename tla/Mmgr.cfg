\* Five requests; three events of three kinds; three frames cut anywhere.
SPECIFICATION MmgrSpec
CONSTANTS
  MaxRequests = 5
  MaxEvents = 3
  Events <- MCEvents
  MaxFrames = 3
  MaxFrPayload = 2
INVARIANTS
  NoSleepOnHandledAck
  LatestEventsArePosted
  BoundaryReadsAreExact
CHECK_DEADLOCK FALSE
