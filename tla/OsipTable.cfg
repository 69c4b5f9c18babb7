\* A table of two entries, three OS slots of three sectors, a power cut anywhere.
SPECIFICATION Spec
CONSTANTS
  MAX_OSIP_DESC = 2
  FW_START_OFFSET = 2
  FW_MAX_LBA = 2
  OS_MAX_LBA = 3
  DiskSize = 15
  TestSize = 4
  Destinations = {"boot", "splashscreen", "splashscreen2"}
  Images <- MCImages
  ImageSize <- MCImageSize
  ImageAttr <- MCImageAttr
  NoImage = NoImage
  Unprotected = Unprotected
  Torn = Torn
  FactoryTables <- MCFactoryTables
INVARIANTS
  TypeOK
  NamedImagesAreWhole
  SlotStaysAvailable
  UpdaterNeverOverruns
PROPERTIES
  InvalidationSurvives
  ContractHolds
CONSTRAINT Explored
VIEW BackupAside
