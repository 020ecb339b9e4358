CONSTANTS
  p1 = p1
  p2 = p2
  p3 = p3
  c1 = c1
  c2 = c2
  c3 = c3
  u1 = u1
  u2 = u2
  Turns = {p1, p2, p3, t1, t2}
  Deletes = {d1}
  Users = {u1, u2}
  Courses = {c1, c2, c3}
  Convs = {k1, k2, k3}
  None = none
  HistoryTurns = 2
  Registered <- OneCourseEach
  Past <- ThreeTurns
  PastUser = u1
  PastCourse = c1
  PastConv = k1
  MaxCrashes = 1
SPECIFICATION Spec
INVARIANT TurnsAreWhole
INVARIANT TurnsStayPrivate
INVARIANT HistoryIsTheConversation
SYMMETRY Symmetry
