CONSTANTS
  Files = {f1}
  Runs = {r1, r2}
  Puts = {p1, p2}
  Dels = {d1}
  Original = original
  NoContent = none
  NoFile = nofile
  MaxCrashes = 1
SPECIFICATION Spec
SYMMETRY Symmetry
INVARIANT ServedRunsAreWhole
INVARIANT RowHasObject
INVARIANT UnfinishedRunHasTask
INVARIANT ServedTextIsStored
INVARIANT StatusIsHonest
INVARIANT DigestIsAccountedFor
INVARIANT IInv
