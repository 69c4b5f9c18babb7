\* Three listener slots, two sessions, two players, sinks of up to two modes,
\* a service that restarts once.
SPECIFICATION MCSpec
CONSTANTS
  MaxListeners = 3
  MaxSessions = 2
  Clients = {c1, c2}
  Infos = {c1, c2}
  OverscanMax = 1
  OverscanArgs <- MCOverscanArgs
  HdmiModes <- MCHdmiModes
  MaxSinkModes = 2
  MaxPlugs = 2
  MaxBndStarts = 2
  MaxBndCount = 2
  LtFirst <- MCLtFirst
  LtSecond <- MCLtSecond
  LtRates = {0, 24, 30}
INVARIANTS
  SessionsAreSound
  VideoBitTracksSessions
  ListenersKnowTheMode
  CachedScalingIsApplied
  LiveSessionsAreHeld
  TimingsFollowTheSink
  CallsReachTheService
  ChosenTimingIsTheSinks
PROPERTIES
  ListenersKeepTheirIds
CHECK_DEADLOCK FALSE
