CONSTANTS
  Labels = {"boot", "recovery", "reserved", "data"}
  Lbas = {1, 2}
  Abbrev = {}
  Scripts <- MCScripts
  OsipLba <- MCOsipLba
  Images = {"new"}
  Volumes <- MCVolumes
  BufferBlocks = 2
  MaxOemFaults = 1
  Polls = 3
  BootImages = {"i1"}
  MaxDbFaults = 1
  Nibbles = {0, 15}
  FruSize = 2
  Groups <- MCGroups
  PayloadMax = 2
  PrintMax = 5
  BomZips <- MCBomZips
  MaxTeeFaults = 2
  MaxRecFaults = 3
  HbLevels = {0, 50}
  MaxHbUpdates = 2
  MaxHbEvents = 2
  MaxHbFaults = 1
SPECIFICATION MCSpec
INVARIANTS
  
  FactoryDataIsWhole
  HelperRunsAlone
PROPERTIES
  ToolStepsAreRight
  ToolsFinish
