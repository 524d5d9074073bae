\* The repository is not edited and the caller may cancel: which metadata is blamed?
CONSTANTS
  Dir <- MCDir
  Contents <- MCContents
  Layouts <- MCLayouts
  NotCached = NotCached
  Unresolved = Unresolved
  NoDir = NoDir
  MaxEdits = 0
SPECIFICATION Spec
INVARIANT MalformedIsMalformed
CHECK_DEADLOCK FALSE
