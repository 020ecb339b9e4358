CONSTANTS
  c = c
  d = d
  e = e
  m1 = m1
  m2 = m2
  m3 = m3
  m4 = m4
  Courses = {c, d, e}
  Milestones = {m1, m2, m3, m4}
  FirstCourses = {c, d}
  FirstMilestones <- Milestones0
  None = none
  MaxWrites = 3
  MaxSwitches = 2
  MaxFaults = 1
SPECIFICATION Spec
CHECK_DEADLOCK FALSE
SYMMETRY Symmetry
INVARIANT AddedCourseStaysOpen
PROPERTY NewMilestonesGoLast
