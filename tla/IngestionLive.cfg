CONSTANTS
  Files = {f1}
  Runs = {r1, r2}
  Puts = {p1}
  Dels = {d1}
  Original = original
  NoContent = none
  NoFile = nofile
  MaxCrashes = 1
SPECIFICATION FairSpec
PROPERTY RunsSettle
PROPERTY LocksAreReleased
PROPERTY ImplementsLifecycle
