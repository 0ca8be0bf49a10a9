SPECIFICATION Spec
CONSTANTS
  Threads = {t1, t2, t3}
  Stamp = {s1, s2}
  NoStamp = NoStamp
  Empty = Empty
  MaxSlots = 2
  Addressable = 2
  MaxValues = 3
  MaxBlock = 2
SYMMETRY Symmetry
CHECK_DEADLOCK FALSE
INVARIANTS TypeOK PublishedFilled NoSlotOccupied IdentityAgreed
PROPERTIES PublishedStable
