CONSTANTS
  f1 = f1
  f2 = f2
  u1 = u1
  u2 = u2
  Files = {f1, f2}
  Runs = {r1, r2}
  Puts = {}
  Dels = {d1}
  Original = original
  NoContent = none
  NoFile = nofile
  MaxCrashes = 1
  Asks = {a1}
  Users = {u1, u2}
  Owner <- TwoOwners
SPECIFICATION SpecWithAsks
SYMMETRY Symmetry
INVARIANT SourcesStayInScope
INVARIANT SummaryIsOneGeneration
