\* Two hosts, two identifiers (equal, distinct or a foreigner's), every fault of the resolver,
\* the sockets and the network.
SPECIFICATION Spec
CONSTANTS
  SequenceModulus = 2
  ReplyWindow = 1
  Hosts = {h1, h2}
  Identifiers = {i1, i2}
  SocketBuffer = 2
INVARIANTS TypeOK AtMostOneReport ReportedIsQuiet PendingHasWakeup FoundIsAnsweredIfDistinct
PROPERTIES EventuallyReported ImplementsHostProbe
CHECK_DEADLOCK FALSE
