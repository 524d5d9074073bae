\* A root below a symbolic link, and nobody else.
CONSTANTS
  Path <- MCPath
  Kind <- MCKind
  Rank <- MCRank
  Config = cfg
  Content <- MCContent
  Parses <- MCParses
  Risky <- MCRisky
  Calls <- MCCalls
  Settings <- MCSettings
  Default <- MCDefault
  Fits <- MCFits
  Choices <- MCChoices
  Absent = Absent
  None = None
  Unset = Unset
  cfg = cfg
  ci = ci
  compose = compose
  act = act
  leaks = leaks
  out = out
  policy = policy
  caller = caller
  clean = clean
  leak = leak
  broken = broken
  Place = {"linked"}
  MaxEdits = 0
SPECIFICATION Spec
INVARIANTS
  ParsedInputsSurvive
CHECK_DEADLOCK FALSE
