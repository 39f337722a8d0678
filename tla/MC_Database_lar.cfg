SPECIFICATION Spec
CONSTANTS
  Manuals = {}
  Inputs <- LarInputs
  LinkOrders <- MC_LinkOrders
  HashOrders <- MC_HashOrders
INVARIANT SpecAgreesWithRaw
CHECK_DEADLOCK FALSE
