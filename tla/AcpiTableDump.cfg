CONSTANTS
  Memories <- MCMemories
  MaxBody = 3
SPECIFICATION Spec
INVARIANTS
  TypeOK
  OnStructure
  LengthWalksOnStructure
  OutputExact
PROPERTY DumpTerminates
CHECK_DEADLOCK FALSE
