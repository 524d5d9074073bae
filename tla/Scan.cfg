\* Every kind of invocation, two edits by other programs.
CONSTANTS
  Path <- MCPath
  Kind <- MCKind
  Rank <- MCRank
  Config = cfg
  Content <- MCContent
  Parses <- MCParses
  Risky <- MCRisky
  Calls <- MCCalls
  Settings <- MCSettings
  Default <- MCDefault
  Fits <- MCFits
  Choices <- MCChoices
  Absent = Absent
  None = None
  Unset = Unset
  cfg = cfg
  ci = ci
  compose = compose
  act = act
  leaks = leaks
  out = out
  policy = policy
  caller = caller
  clean = clean
  leak = leak
  broken = broken
  Place = {"root", "elsewhere", "linked"}
  MaxEdits = 2
SPECIFICATION Spec
INVARIANTS
  TypeOK
  PassMeansClean
  ReportMatchesCode
  OnlyTheReportChanges
  OutputsDescribeReport
CHECK_DEADLOCK FALSE
