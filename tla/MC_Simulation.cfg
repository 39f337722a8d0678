SPECIFICATION Spec
CONSTANTS
  ProcResUnits <- Resource
  SchedClasses <- Classes
  SchedClassOf <- ClassOfOpcode
  Insts <- SomeInsts
  Units <- MCUnits
  Instructions <- MCInstructions
  NumPhysicalRegisters = 6
  NoUop = NoUop
  UopsPerCycle = 2
  MaxInstrs = 4
  SimpleStages = 3
  NumStages = 2
  NumCyclesPerStage = 2
  NumElements = 4
  Capacity = 3
  MaxBatch = 3
  MaxElements = 8
  DispatchPorts = {0, 1}
  BBLength = 2
  MaxNumIterations = 3
  MaxNumCycles = 5
  Window = 2
INVARIANTS
  CachedIsFresh
  UopsAreThoseOfTheModel
  NamesAreUnique
  UsesLastWriters
  OneCycleAtATime
  ExactlyOnce
  OnTime
  PressureIsOneIteration
  ThroughputsAgree
PROPERTIES
  StallsEndAndAllArrive
  AllWrittenBack
  ImplementsChannel
