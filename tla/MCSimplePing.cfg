\* One client, up to 3 starts and 8 pings.  A modulus of 5 with a window of 3
\* wraps the sequence number inside the 8 pings and leaves numbers outside it.
SPECIFICATION Spec
CONSTANTS
  SequenceModulus = 5
  ReplyWindow = 3
  Style = "v4"
  MaxStarts = 3
  MaxSends = 8
INVARIANTS SourcesAreCurrent PhaseAgreed CallbackContract RecentAccepted
PROPERTY StartAnswered
CHECK_DEADLOCK FALSE
