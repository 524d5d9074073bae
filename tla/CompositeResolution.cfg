\* Every layout of MCLayouts, every choice of workflow references, cancellation
\* at any point and one edit by another program at any point.
CONSTANTS
  Dir <- MCDir
  Contents <- MCContents
  Layouts <- MCLayouts
  NotCached = NotCached
  Unresolved = Unresolved
  NoDir = NoDir
  MaxEdits = 1
SPECIFICATION FairSpec
INVARIANTS
  TypeOK
  QueueIsSound
  ResolvedIsCached
  DoneIsComplete
  OnlyReachable
PROPERTIES
  CacheStable
  Terminates
CHECK_DEADLOCK FALSE
