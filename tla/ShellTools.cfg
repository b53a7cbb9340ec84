CONSTANTS
  Bytes = {"old", "new", "x", "y"}
  Worlds <- MCWorlds
  Texts <- MCTexts
  Guids = {"g1", "g2", "zero"}
  Asked <- MCAsked
  Platforms <- MCPlatforms
  NAME_STRING_LENGTH = 3
  KnownProtocols = {"known"}
  SizeOfTeHeader = 2
  None = None
  MaxPdb = 4
  PciPlatforms <- MCPciPlatforms
  OpromCommands <- MCOpromCommands
  Machines <- MCMachines
  Updates <- MCUpdates
  Word = 4
  Maps <- MCMaps
  ImageTables <- MCImageTables
  Profiles <- MCProfiles
  MaxDataEntries = 3
  MaxSplits = 2
  MaxProfileAllocFailures = 1
  Firmwares <- MCFirmwares
  DescriptorTypeSize = 4
SPECIFICATION ToolsSpec
INVARIANTS
  FilesRight
  NamesRight
  RomRight
  ProcessorsRight
  ProfileRight
  FirmwareRight
PROPERTIES
  ToolsEnd
CHECK_DEADLOCK FALSE
