SPECIFICATION Spec
CONSTANTS
  Manuals <- MCManuals
  Inputs <- MC_Inputs
  LinkOrders <- MC_LinkOrders
  HashOrders <- MC_HashOrders
INVARIANTS
  EveryInstructionOnce
  OperandsAreOfTheirTable
  SameForEveryBuild
  EveryOperandHasAPlace
  SpecAgreesWithRaw
  WidthsAreDistinct
CHECK_DEADLOCK FALSE
