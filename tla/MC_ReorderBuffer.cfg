SPECIFICATION Spec
CONSTANTS
  NumROBEntries = 3
  Regs = {r1}
  Ports = {p1}
  MaxUops = 4
  DistinctDefs = TRUE
  PromptUops = TRUE
INVARIANTS
  InOrderRetirement
  InFlightMatchesState
  DependencyGraph
  WaitsForProducers
  PortlessUopsNeverLinger
PROPERTY ImplementsDataflow
