SPECIFICATION FairSpec
CONSTANTS
  Threads = {t1, t2}
  Stamp = {s1, s2}
  NoStamp = NoStamp
  Empty = Empty
  MaxSlots = 3
  Addressable = 3
  MaxValues = 2
  MaxBlock = 2
CHECK_DEADLOCK FALSE
PROPERTIES CallsReturn
