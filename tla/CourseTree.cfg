CONSTANTS
  Courses = {c1, c2}
  Folders = {f1, f2, f3}
  Files = {g1}
  Milestones = {m1}
  Keys = {k1, k2}
  Requests = {r1, r2}
  DefaultFolders = 1
  None = none
  Gone = gone
  Keep = keep
SPECIFICATION Spec
SYMMETRY Symmetry
INVARIANT TreeIsConsistent
INVARIANT AttachmentsStayInCourse
PROPERTY NothingElseIsLost
PROPERTY ArchivedStaysArchived
