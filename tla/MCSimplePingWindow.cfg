\* The comment of validateSequenceNumber against its code.
SPECIFICATION Spec
CONSTANTS
  SequenceModulus = 5
  ReplyWindow = 3
  Style = "v4"
  MaxStarts = 1
  MaxSends = 6
INVARIANT AcceptedAreLastSent
CHECK_DEADLOCK FALSE
