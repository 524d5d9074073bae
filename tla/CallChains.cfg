\* All call graphs on three nodes, all sets of roots, chains of at most two.
CONSTANTS
  Node <- MCNode
  Graphs <- MCGraphs
  Limit = 2
SPECIFICATION FairSpec
INVARIANTS
  TypeOK
  PathIsChain
  CyclesAreExact
  DepthIsExact
PROPERTY DiagnosticsEnd
CHECK_DEADLOCK FALSE
