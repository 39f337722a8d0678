SPECIFICATION Spec
CONSTANTS
  Manuals <- ExtensionManuals
  Inputs = {}
  LinkOrders <- MC_LinkOrders
  HashOrders <- MC_HashOrders
INVARIANT PagesOfOneGroup
CHECK_DEADLOCK FALSE
