SPECIFICATION Spec
CONSTANTS
  Threads = {t1, t2}
  Stamp = {s1, s2}
  NoStamp = NoStamp
  Empty = Empty
  MaxSlots = 5
  Addressable = 3
  MaxValues = 6
  MaxBlock = 2
SYMMETRY Symmetry
CONSTRAINT OneCheckpoint
CHECK_DEADLOCK FALSE
INVARIANTS IndicesExact WaitsServed
