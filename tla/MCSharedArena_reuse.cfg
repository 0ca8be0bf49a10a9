SPECIFICATION Spec
CONSTANTS
  Threads = {t1, t2}
  Stamp = {s1, s2, s3}
  NoStamp = NoStamp
  Empty = Empty
  MaxSlots = 3
  Addressable = 3
  MaxValues = 3
  MaxBlock = 2
SYMMETRY Symmetry
CHECK_DEADLOCK FALSE
INVARIANTS IndicesExact CheckpointsExact
PROPERTIES ImplementsSharedLog
