CONSTANTS
  x = x
  y = y
  g1 = g1
  g2 = g2
  Locals = {x, y}
  Folders = {g1, g2}
  None = none
  MaxTries = 2
  MaxSwitches = 2
  MaxFaults = 2
SPECIFICATION UploadSpec
CHECK_DEADLOCK FALSE
INVARIANT CompleteMeansStored
INVARIANT UploadsReachTheList
