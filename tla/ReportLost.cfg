\* Two writers on a platform whose renames replace: a failed replacement puts an
\* older report back over one that landed meanwhile.
CONSTANTS
  Writer = {w1, w2}
  Previous = Previous
  Other = Other
  Absent = Absent
  Incomplete = Incomplete
  Parents = 0
SPECIFICATION Spec
INVARIANT LatestSurvives
CHECK_DEADLOCK FALSE
