SPECIFICATION Spec
CONSTANTS
  Blocks <- MCBlocks
  Ports <- MCPorts
  Regs <- MCRegs
  Units <- MCUnits
  NoUop = NoUop
  NumROBEntries = 5
  NumPhysicalRegisters = 50
  MaxNumIterations = 3
  FetchBytes = 4
  ParseWidth = 2
  DecodeWidth = 2
  RenameWidth = 3
  RetireWidth = 1
  IQCapacity = 3
  IDQCapacity = 5
  PortCapacity = 1
INVARIANT GaplessTrace
PROPERTIES
  KeepsROBContract
  Terminates
