SPECIFICATION Spec
CHECK_DEADLOCK FALSE
CONSTANTS
  PortMasks <- SmallHaswell
  LoadStoreMask = 4
  StoreAddressMask = 5
  StoreDataMask = 6
  Unit = 6
  InstructionSets <- SmallSets
  UpdateCodeUops <- AddRsi
  PortEvents <- OneEventPerPort
  Threads <- SomeThreads
  Main = "main"
  EventCategories <- HaswellEvents
  MaxEvaluations = 2
INVARIANTS
  SameAsOnItsOwn
  SuccessIsComplete
  StoresFollowTheirAddress
  LibraryIsReady
  EveryRunIsCountedOnce
