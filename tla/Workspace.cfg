CONSTANTS
  c = c
  d = d
  f1 = f1
  f2 = f2
  Courses = {c, d}
  Files = {f1, f2}
  CourseOf <- HomeOf
  lectures = lectures
  Folders = {lectures}
  FolderOf <- OneFolder
  WholeCourse = all
  Leftovers = {lectures}
  Pdf = {f1}
  Cited = {f1}
  MaxViewers = 1
  FirstCourse = c
  None = none
  MaxReloads = 1
  MaxReplacements = 1
  MaxBurst = 1
SPECIFICATION ScopeSpec
CHECK_DEADLOCK FALSE
INVARIANT BannerTellsTheScope
INVARIANT DeskIsInOrder
INVARIANT ActiveIsMounted
INVARIANT ShownBytesAreFresh
