SPECIFICATION CodecSpec
CONSTANTS
  Database <- EvexDatabase
  Inputs = {}
  MaxCalls = 0
  RegisterNames = {}
  SmallDisplacements = {}
  LargeDisplacements = {}
  Following <- NextBytes
INVARIANT RoundTrip
