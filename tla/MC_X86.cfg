SPECIFICATION CodecSpec
CONSTANTS
  Database <- SmallX86
  Inputs <- ParserInputs
  MaxCalls = 2
  RegisterNames = {"ebp", "xmm9", "r12"}
  SmallDisplacements <- SmallOnes
  LargeDisplacements <- LargeOnes
  Following <- NextBytes
INVARIANTS
  RoundTrip
  TruncatedIsRefused
  AssignedOperandsAreEncoded
  AddressingModesAgree
  SpecificationMatches
PROPERTY CallAdvances
