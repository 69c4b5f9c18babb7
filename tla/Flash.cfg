SPECIFICATION MCSpec
CONSTANTS
  N = 2
  LastUsable = 3
  MaxPriority = 1
  Guids = {g1, g2}
  Uuids = {u1}
  AddParams <- MCAddParams
  MaxFaults = 1
  EmmcImages <- MCEmmcImages
  Family <- MCFamily
  Tokens = {"t1", "t2"}
  UmipBytes = {"b1"}
  MaxZip = 2
  MaxEmmcFaults = 2
  IpcImages <- MCIpcImages
  IpcFactory <- MCIpcFactory
  DnxBinaries = {"d1", "d2"}
  MaxIpcFaults = 3
  Capsules <- MCCapsules
  Device <- MCDevice
  Containers <- MCContainers
  MaxCapsules = 2
  MaxCapFaults = 2
INVARIANTS
  AcceptedTablesAreDisjoint  
  FirmwareStaysBootable
PROPERTIES
  RepairKeepsTheTable
  
SYMMETRY GuidSymmetry
