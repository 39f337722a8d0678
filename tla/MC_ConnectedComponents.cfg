SPECIFICATION FairSpec
CONSTANT MaxNodes = 4
INVARIANT ForestMatchesGraph
PROPERTY ImplementsPartition
