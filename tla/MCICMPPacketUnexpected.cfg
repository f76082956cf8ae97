\* The doc of didReceiveUnexpectedPacket, against the packet the delegate is handed.
SPECIFICATION Spec
CONSTANTS
  SequenceModulus = 65536
  ReplyWindow = 120
  Identifier = 515
  FirstNumber = 65534
  Payloads = {0, 65535}
  Lengths = {1, 8, 20, 27, 28, 35, 67, 68, 100}
  MaxPings = 3
INVARIANTS
  UnexpectedHasNoIPHeader
CHECK_DEADLOCK FALSE
