SPECIFICATION Spec
CONSTANTS
  Threads = {t1}
  Stamp = {s1, s2}
  NoStamp = NoStamp
  Empty = Empty
  MaxSlots = 4
  Addressable = 3
  MaxValues = 6
  MaxBlock = 2
SYMMETRY Symmetry
CHECK_DEADLOCK FALSE
INVARIANTS ReservedNeverOccupied
