SPECIFICATION Spec
CONSTANTS
  Stamp = {s1, s2}
  NoStamp = NoStamp
  None = None
  MaxUsize = 6
CHECK_DEADLOCK FALSE
INVARIANTS TypeOK EachIndexOnce MembershipExact
