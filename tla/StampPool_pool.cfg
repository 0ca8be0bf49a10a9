SPECIFICATION FairSpec
CONSTANTS
  Threads = {t1, t2, t3}
  LOCAL_RESERVATION_LEN = 2
  MaxRaw = 8
  MaxDraws = 5
CHECK_DEADLOCK FALSE
INVARIANTS TypeOK DrawsUnique RangesDisjoint IInv
PROPERTIES ExhaustionFinal ImplementsSequence ReserveReturns
