CONSTANTS
  Quotes = {q1, q2}
  Blank = blank
  Empty = empty
  Slots = {k1, k2, k3}
  MaxMarker = 2
  MaxSources = 2
  Nothing = none
SPECIFICATION GateSpec
SYMMETRY Symmetry
INVARIANT GateIsExact
INVARIANT NoiseIsHarmless
 
