SPECIFICATION MCSpec
CONSTANTS
  MaxGpsRequests = 1
  MaxLinkChanges = 3
  MaxGpsFaults = 1
  MaxNavInputs = 4
  MaxNavFaults = 1
  MaxFixes = 1
INVARIANTS
  DownloadsAreBalanced
  EngineServesItsClients

  
CHECK_DEADLOCK FALSE
