SPECIFICATION Spec
CONSTANTS
  Arenas = {a1, a2}
  Stamp = {s1, s2, s3, s4}
  NoStamp = NoStamp
  MaxValues = 3
  MaxBlock = 2
SYMMETRY Symmetry
CHECK_DEADLOCK FALSE
INVARIANTS TypeOK IndicesExact CheckpointsExact CachesCoherent ForeignRejected CapabilitiesUnique AnswersAgree IInv
PROPERTIES RejectedForever ImplementsLog
