\* Three pings across the wrap of the sequence number, with real sizes of
\* bytes, words and headers; lengths around each of the tests.
SPECIFICATION Spec
CONSTANTS
  SequenceModulus = 65536
  ReplyWindow = 120
  Identifier = 515
  FirstNumber = 65534
  Payloads = {0, 65535}
  Lengths = {1, 8, 20, 27, 28, 35, 67, 68, 100}
  MaxPings = 3
INVARIANTS
  OwnReplyIsRecognised
  DamagedIsRefused
  StaysInPacket
  HandedUpIntact
CHECK_DEADLOCK FALSE
