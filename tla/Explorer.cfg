CONSTANTS
  c = c
  d = d
  f1 = f1
  g1 = g1
  g2 = g2
  h1 = h1
  Courses = {c, d}
  Files = {f1}
  Folders = {g1, g2, h1}
  Names = {"lectures", "labs"}
  CourseOf <- HomeOf
  FirstFiles <- Rows0
  FirstFolders <- Names0
  FirstCourse = c
  None = none
  MaxWrites = 2
  MaxSwitches = 1
  MaxFaults = 1
SPECIFICATION Spec
CHECK_DEADLOCK FALSE
INVARIANT CalmListsAreTheServer
INVARIANT WhatFitsIsShown
PROPERTY BadgeFollowsTheTask
