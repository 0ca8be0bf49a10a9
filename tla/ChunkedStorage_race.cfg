SPECIFICATION Spec
CONSTANTS
  Threads = {t1, t2, t3}
  NoThread = NoThread
  BITS = 4
  Empty = Empty
  Unallocated = Unallocated
  Allocatable = 3
  Indices = {1, 2, 6, 7}
  MaxValues = 3
CHECK_DEADLOCK FALSE
INVARIANTS TypeOK LayoutExact AcceptedKept
PROPERTIES ImplementsArray SetsReturn
