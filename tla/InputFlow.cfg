\* Three actions that call one another, chains of at most three actions.
CONSTANTS
  Dir <- MCDir
  Name <- MCName
  NoName = NoName
  NoCall = NoCall
  Programs <- MCPrograms
  MaxCompositeActionNestingDepth = 3
SPECIFICATION FairSpec
INVARIANTS
  TypeOK
  FlowsAreSound
  LinkIsExact
PROPERTY LinkEnds
CHECK_DEADLOCK FALSE
