\* Two writers below two parent directories, on both kinds of platform.
CONSTANTS
  Writer = {w1, w2}
  Previous = Previous
  Other = Other
  Absent = Absent
  Incomplete = Incomplete
  Parents = 2
SPECIFICATION FairSpec
INVARIANTS
  TypeOK
  DestinationIsSound
  NoSpuriousFailure
  LeavesNothingBehind
PROPERTIES
  ImplementsSlot
  WritersEnd
CHECK_DEADLOCK FALSE
