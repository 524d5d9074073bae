\* Three edges of every class on a cyclic graph, depths up to 3 and their
\* default, path limits that are and are not reached, one hop per budget.
CONSTANTS
  Node <- MCNode
  Edge <- MCEdge
  Inputs <- MCInputs
  DefaultMaxDepth = 2
  DefaultMaxEvidencePaths = 50
  MaxReusableWorkflowHops = 1
  MaxCompositeActionForwardingHops = 1
SPECIFICATION FairSpec
INVARIANTS
  TypeOK
  PathsAreSimple
  PathsAreWithinBudgets
  PathsAreNoStrongerThanEdges
  RetainsExactly
  OmissionIsMarked
PROPERTY TraversalEnds
CHECK_DEADLOCK FALSE
