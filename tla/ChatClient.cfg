CONSTANTS
  Courses = {c, d}
  Convs = {k1, k2}
  Sends = {s1, s2}
  Deletes = {d1}
  FirstCourse = c
  None = none
  PageSize = 1
  MaxLapses = 1
SPECIFICATION Spec
INVARIANT RowsAreReal
INVARIANT CalmScreenIsTheServer
INVARIANT CalmHistoryIsTheServer
SYMMETRY Symmetry
CHECK_DEADLOCK FALSE
