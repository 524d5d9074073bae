\* The repository is not edited: how often is a directory read?
CONSTANTS
  Dir <- MCDir
  Contents <- MCContents
  Layouts <- MCLayouts
  NotCached = NotCached
  Unresolved = Unresolved
  NoDir = NoDir
  MaxEdits = 0
SPECIFICATION Spec
INVARIANT DirectoryReadOnce
CHECK_DEADLOCK FALSE
