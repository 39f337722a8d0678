SPECIFICATION Spec
CONSTANTS
  Blocks <- MCMixed
  Ports <- MCPorts
  Regs <- MCRegs
  Units <- MCUnits
  NoUop = NoUop
  NumROBEntries = 2
  NumPhysicalRegisters = 50
  MaxNumIterations = 3
  FetchBytes = 4
  ParseWidth = 2
  DecodeWidth = 2
  RenameWidth = 2
  RetireWidth = 3
  IQCapacity = 3
  IDQCapacity = 5
  PortCapacity = 1
INVARIANT NoRetiredDependency
