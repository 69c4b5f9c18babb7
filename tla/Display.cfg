SPECIFICATION MCSpec
CONSTANTS
  MaxObsEvents = 3
  MaxTouches = 1
  HdcpTries = 2
  MaxLegEvents = 3
  Players = {"p1"}
  VideoGarbage = {"PREPARED", "OTHER"}
INVARIANTS
  ObserverFollowsTheService
  ComposerModeIsTrue
  
PROPERTIES
  DisplayRequestsEnd
CHECK_DEADLOCK FALSE
