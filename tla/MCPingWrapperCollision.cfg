\* Two pingers that drew the same identifier.
SPECIFICATION Safety
CONSTANTS
  SequenceModulus = 2
  ReplyWindow = 1
  Hosts = {h1, h2}
  Identifiers = {i1, i2}
  SocketBuffer = 2
SYMMETRY HostSymmetry
INVARIANT FoundIsAnsweredAlways
CHECK_DEADLOCK FALSE
