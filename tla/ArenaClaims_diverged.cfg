SPECIFICATION Spec
CONSTANTS
  Arenas = {a1}
  Stamp = {s1, s2, s3, s4}
  NoStamp = NoStamp
  MaxValues = 4
  MaxBlock = 2
SYMMETRY Symmetry
CHECK_DEADLOCK FALSE
INVARIANTS DivergedMeansReplaced
