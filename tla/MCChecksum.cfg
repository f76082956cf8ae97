SPECIFICATION Spec
CONSTANTS
  Byte = 3
  MaxLength = 8
INVARIANTS
  TypeOK
  AccumulatorFits
  AnswerIsNetworkChecksum
\* in_cksum returns
CHECK_DEADLOCK FALSE
