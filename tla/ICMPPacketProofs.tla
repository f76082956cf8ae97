--------------------------- MODULE ICMPPacketProofs ---------------------------
(***************************************************************************)
(* For every identifier, first number, payload and packet of another       *)
(* program: the validation finds the object's replies, refuses a damaged   *)
(* one, and keeps inside the packet, which it hands on as it came.         *)
(***************************************************************************)
EXTENDS ICMPPacket, TLAPS

AnyMessage == [type : Int, code : Int, checksum : Int, identifier : Int,
               sequenceNumber : Int, data : Int]
AnyPacket == [version : Int, protocol : Int, header : Nat, message : AnyMessage,
              length : Nat]

\* A request as pingPacketWithType builds it, with its number.
Built(m, number) ==
  /\ m.code = 0
  /\ m.identifier = OSSwapInt16(Identifier)
  /\ m.sequenceNumber = OSSwapInt16(number)

\* The object and what it has sent.
Sending ==
  /\ ping \in Object
  /\ ping.hostAddress \in Families
  /\ sent \in Seq([message : AnyMessage, number : Words])
  /\ \A i \in 1 .. Len(sent) :
       /\ sent[i].number = (FirstNumber + i - 1) % Word
       /\ Built(sent[i].message, sent[i].number)
  /\ ping.nextSequenceNumber = (FirstNumber + Len(sent)) % Word
  /\ (ping.nextSequenceNumberHasWrapped <=> FirstNumber + Len(sent) >= Word)

IInv ==
  /\ Sending /\ OwnReplyIsRecognised /\ DamagedIsRefused
  /\ StaysInPacket /\ HandedUpIntact

-----------------------------------------------------------------------------
(* Arithmetic *)

\* The number of words, and what the constants are.
LEMMA Sizes ==
  /\ Word = 65536 /\ SequenceModulus = 65536
  /\ Identifier \in Nat /\ Identifier < 65536 /\ FirstNumber \in Nat /\ FirstNumber < 65536
<1>1. Word = 65536
  BY DEF Word, Byte
<1>0. SequenceModulus = Word
  BY PacketAssumption
<1>2. Identifier \in 0 .. Word - 1 /\ FirstNumber \in 0 .. Word - 1
  BY PacketAssumption DEF Words
<1>3. Word \in Nat
  BY DEF Word, Byte
<1>4. Identifier \in Nat /\ Identifier < Word /\ FirstNumber \in Nat /\ FirstNumber < Word
  BY <1>2, <1>3
<1>5. SequenceModulus = 65536
  BY <1>0, <1>1
<1>6. Identifier < 65536 /\ FirstNumber < 65536
  BY <1>1, <1>4
<1> QED BY <1>1, <1>4, <1>5, <1>6

\* A word is a number, and below that of words.
LEMMA WordBounds ==
  ASSUME NEW n PROVE n \in Words <=> n \in Nat /\ n < 65536
<1>1. Word \in Nat
  BY DEF Word, Byte
<1>2. n \in Words <=> n \in Nat /\ n < Word
  BY <1>1 DEF Words
<1>3. Word = 65536
  BY DEF Word, Byte
<1> QED BY <1>2, <1>3

\* Exchanging bytes makes a number of a number.
LEMMA SwapInt ==
  ASSUME NEW n \in Int
  PROVE  OSSwapInt16(n) \in Int
BY DEF OSSwapInt16, Byte

\* Exchanging the bytes of a word twice gives the word.
LEMMA SwapTwice ==
  ASSUME NEW n \in Nat, n < 65536 PROVE OSSwapInt16(OSSwapInt16(n)) = n
<1> DEFINE low == n % 256
           high == n \div 256
           swapped == (256 * low) + high
           low2 == swapped % 256
           high2 == swapped \div 256
<1>1. low \in 0 .. 255 /\ high \in 0 .. 255 /\ n = (256 * high) + low
  BY SMTT(30)
<1>2. OSSwapInt16(n) = swapped
  BY DEF OSSwapInt16, Byte
<1> HIDE DEF low, high
<1>3. swapped \in Int
  BY <1>1
<1> HIDE DEF swapped
<1>4. low2 \in 0 .. 255 /\ high2 \in Int /\ swapped = (256 * high2) + low2
  BY <1>3, SMTT(30)
<1>5. OSSwapInt16(swapped) = (256 * low2) + high2
  BY <1>3 DEF OSSwapInt16, Byte
<1> HIDE DEF low2, high2
<1>6. low2 = high /\ high2 = low
  BY <1>1, <1>4 DEF swapped
<1> QED BY <1>1, <1>2, <1>5, <1>6

\* Sums that differ by less than a full word are folded to different words.
LEMMA FoldedTellsApart ==
  ASSUME NEW x \in Int, NEW y \in Int, x # y, x - y < 65535, y - x < 65535
  PROVE  folded(x) # folded(y)
<1> DEFINE q == (x - 1) \div 65535
           r == (x - 1) % 65535
           p == (y - 1) \div 65535
           s == (y - 1) % 65535
<1>1. folded(x) = (IF x = 0 THEN 0 ELSE 1 + r) /\ folded(y) = (IF y = 0 THEN 0 ELSE 1 + s)
  BY DEF folded, Word, Byte
<1>2. q \in Int /\ r \in Int /\ r >= 0 /\ x - 1 = (65535 * q) + r
  BY SMTT(30)
<1>3. p \in Int /\ s \in Int /\ s >= 0 /\ y - 1 = (65535 * p) + s
  BY SMTT(30)
<1> HIDE DEF q, r, p, s
<1>4. r # s
  BY <1>2, <1>3
<1> QED BY <1>1, <1>2, <1>3, <1>4

\* The difference of two words, as a word, is that of the numbers they are made of.
LEMMA DifferenceOfWords ==
  ASSUME NEW x \in Int, NEW y \in Int, y - x >= 0, y - x < 65536
  PROVE  ((y % 65536) - (x % 65536)) % 65536 = y - x
<1> DEFINE q == x \div 65536
           r == x % 65536
           p == y \div 65536
           s == y % 65536
           d == (s - r) % 65536
           e == (s - r) \div 65536
<1>1. q \in Int /\ r \in Int /\ x = (65536 * q) + r
  BY SMTT(30)
<1>2. p \in Int /\ s \in Int /\ y = (65536 * p) + s
  BY SMTT(30)
<1> HIDE DEF q, r, p, s
<1>3. d \in Int /\ e \in Int /\ d >= 0 /\ d < 65536 /\ s - r = (65536 * e) + d
  BY <1>1, <1>2, SMTT(30)
<1> HIDE DEF d, e
<1>4. d = y - x
  BY <1>1, <1>2, <1>3
<1> QED BY <1>4 DEF d, r, s

\* The word after a word is that of the number after.
LEMMA NextWord ==
  ASSUME NEW n \in Nat PROVE ((n % 65536) + 1) % 65536 = (n + 1) % 65536
<1> DEFINE q == n \div 65536
           r == n % 65536
<1>1. q \in Int /\ r \in Int /\ r >= 0 /\ r < 65536 /\ n = (65536 * q) + r
  BY SMTT(30)
<1> HIDE DEF q, r
<1>2. (r + 1) % 65536 = ((65536 * q) + r + 1) % 65536
  BY <1>1, SMTT(30)
<1> QED BY <1>1, <1>2 DEF r

\* Flipping a bit adds it or subtracts it.
LEMMA FlipEffect ==
  ASSUME NEW n, NEW bit \in Bits PROVE Flip(n, bit) = n - bit \/ Flip(n, bit) = n + bit
BY DEF Flip

-----------------------------------------------------------------------------
(* The validation *)

\* The offset is that of a header that fits, with a message, into the packet.
LEMMA OffsetEffect ==
  ASSUME NEW packet \in AnyPacket, icmpHeaderOffsetInIPv4Packet(packet) # NSNotFound
  PROVE  /\ icmpHeaderOffsetInIPv4Packet(packet) = packet.header
         /\ packet.length >= packet.header + 8
BY DEF icmpHeaderOffsetInIPv4Packet, ICMPHeaderSize

\* The validation changes nothing, and takes only the IPv4 header off.
LEMMA ValidateKeeps ==
  ASSUME NEW packet \in AnyPacket, NEW p
  PROVE  LET answer == validatePingResponsePacket4or6(p, packet)
         IN  /\ answer.packet.message = packet.message
             /\ answer.packet.length - answer.packet.header
                  = packet.length - packet.header
             /\ answer.valid /\ p.hostAddress = "AF_INET" => answer.packet.header = 0
             /\ p.hostAddress # "AF_INET" => answer.packet = packet
<1> DEFINE restored == [[packet EXCEPT !.message.checksum = 0]
                          EXCEPT !.message.checksum = packet.message.checksum]
<1>1. restored = packet
  BY DEF AnyPacket, AnyMessage
<1>2. CASE p.hostAddress = "AF_INET"
  <2>1. CASE icmpHeaderOffsetInIPv4Packet(packet) = NSNotFound
    BY <1>2, <2>1 DEF validatePingResponsePacket4or6, validatePing4ResponsePacket
  <2>2. CASE icmpHeaderOffsetInIPv4Packet(packet) # NSNotFound
    <3> DEFINE answer == validatePingResponsePacket4or6(p, packet)
    <3>1. \/ answer = [valid |-> FALSE, packet |-> packet]
          \/ answer = [valid |-> TRUE,
                       packet |-> [packet EXCEPT !.header = 0, !.length = @ - packet.header]]
      BY <1>1, <1>2, <2>2, OffsetEffect
         DEF validatePingResponsePacket4or6, validatePing4ResponsePacket
    <3> HIDE DEF answer
    <3>2. /\ answer.packet.message = packet.message
          /\ answer.packet.length - answer.packet.header = packet.length - packet.header
          /\ answer.valid => answer.packet.header = 0
      <4>1. CASE answer = [valid |-> FALSE, packet |-> packet]
        BY <4>1
      <4>2. CASE answer =
                   [valid |-> TRUE,
                    packet |-> [packet EXCEPT !.header = 0, !.length = @ - packet.header]]
        <5> DEFINE shorter == [packet EXCEPT !.header = 0, !.length = @ - packet.header]
        <5>1. shorter.message = packet.message /\ shorter.header = 0
              /\ shorter.length = packet.length - packet.header
          BY DEF AnyPacket
        <5>2. packet.length \in Int /\ packet.header \in Int
          BY DEF AnyPacket
        <5>3. answer.packet = shorter
          BY <4>2
        <5> HIDE DEF shorter
        <5> QED BY <5>1, <5>2, <5>3
      <4> QED BY <3>1, <4>1, <4>2
    <3> QED BY <1>2, <3>2 DEF answer
  <2> QED BY <2>1, <2>2
<1>3. CASE p.hostAddress # "AF_INET"
  BY <1>3 DEF validatePingResponsePacket4or6, validatePing6ResponsePacket
<1> QED BY <1>2, <1>3

\* What it touches is in the packet.
LEMMA TouchedInside ==
  ASSUME NEW packet \in AnyPacket, NEW p, p.hostAddress \in Families
  PROVE  Touched(p, packet) \subseteq 0 .. packet.length - 1
<1>1. CASE p.hostAddress = "AF_INET6"
  BY <1>1 DEF Touched, ICMPHeaderSize, AnyPacket
<1>2. CASE p.hostAddress = "AF_INET"
  BY <1>2, OffsetEffect DEF Touched, ICMPHeaderSize, IPv4HeaderSize, AnyPacket
<1> QED BY <1>1, <1>2 DEF Families

-----------------------------------------------------------------------------
(* When it accepts *)

\* What the words of a message but its checksum add up to.
Rest(m) == m.type + (256 * m.code) + m.identifier + m.sequenceNumber + m.data

\* It is a number.
LEMMA RestInt == ASSUME NEW m \in AnyMessage PROVE Rest(m) \in Int
<1>1. /\ m.type \in Int /\ m.code \in Int /\ m.identifier \in Int
      /\ m.sequenceNumber \in Int /\ m.data \in Int
  BY DEF AnyMessage
<1> QED BY <1>1 DEF Rest

\* The checksum of a message whose checksum is 0.
LEMMA ChecksumOfCleared ==
  ASSUME NEW m \in AnyMessage, m.checksum = 0
  PROVE  in_cksum(m) = 65535 - folded(Rest(m))
<1>1. /\ m.type \in Int /\ m.code \in Int /\ m.identifier \in Int
      /\ m.sequenceNumber \in Int /\ m.data \in Int
  BY DEF AnyMessage
<1> DEFINE sum == m.type + (Byte * m.code) + m.checksum + m.identifier
                    + m.sequenceNumber + m.data
<1>2. sum = Rest(m)
  BY <1>1 DEF Rest, Byte
<1>3. Word - 1 = 65535
  BY DEF Word, Byte
<1>4. in_cksum(m) = Word - 1 - folded(sum)
  BY DEF in_cksum
<1> HIDE DEF sum
<1> QED BY <1>2, <1>3, <1>4

\* folded gives a number.
LEMMA FoldedInt == ASSUME NEW n \in Int PROVE folded(n) \in Int
BY DEF folded, Word, Byte

\* The validation of IPv4 compares the checksum with that of the rest.
LEMMA Valid4 ==
  ASSUME NEW packet \in AnyPacket, NEW p, p.hostAddress = "AF_INET"
  PROVE  validatePingResponsePacket4or6(p, packet).valid <=>
           /\ icmpHeaderOffsetInIPv4Packet(packet) # NSNotFound
           /\ packet.message.checksum = 65535 - folded(Rest(packet.message))
           /\ Matches(p, packet.message, ICMPv4TypeEchoReply)
<1> DEFINE m == packet.message
           cleared == [packet EXCEPT !.message.checksum = 0]
           restored == [cleared EXCEPT !.message.checksum = m.checksum]
<1>1. m \in AnyMessage /\ restored = packet
  BY DEF AnyPacket, AnyMessage
<1>2. cleared.message \in AnyMessage /\ cleared.message.checksum = 0
      /\ Rest(cleared.message) = Rest(m)
  BY DEF AnyPacket, AnyMessage, Rest
<1>3. in_cksum(cleared.message) = 65535 - folded(Rest(m))
  BY <1>2, ChecksumOfCleared
<1>4. validatePing4ResponsePacket(p, packet).valid <=>
        /\ icmpHeaderOffsetInIPv4Packet(packet) # NSNotFound
        /\ in_cksum(cleared.message) = m.checksum
        /\ Matches(p, restored.message, ICMPv4TypeEchoReply)
  BY DEF validatePing4ResponsePacket
<1>5. validatePingResponsePacket4or6(p, packet) = validatePing4ResponsePacket(p, packet)
  BY DEF validatePingResponsePacket4or6
<1> HIDE DEF m, cleared, restored
<1>6. restored.message = m
  BY <1>1 DEF m
<1> QED BY <1>3, <1>4, <1>5, <1>6 DEF m

\* A number of the window is accepted, also across the wrap.
LEMMA WindowAccepts ==
  ASSUME Sending, NEW i \in 1 .. Len(sent), Len(sent) - i + 1 < ReplyWindow
  PROVE  validateSequenceNumber(ping, sent[i].number)
<1> DEFINE len == Len(sent)
           number == sent[i].number
           next == ping.nextSequenceNumber
           wrapped == ping.nextSequenceNumberHasWrapped
<1>1. len \in Nat
  BY DEF Sending
<1>2. number = (FirstNumber + i - 1) % 65536 /\ next = (FirstNumber + len) % 65536
      /\ (wrapped <=> FirstNumber + len >= 65536)
  BY Sizes DEF Sending
<1>3. FirstNumber \in Nat /\ FirstNumber < 65536
  BY Sizes
<1>4. ReplyWindow \in Nat /\ ReplyWindow < 65536
  BY Sizes, SequenceAssumption
<1>5. validateSequenceNumber(ping, number) <=>
        IF wrapped THEN (next - number) % 65536 < ReplyWindow ELSE number < next
  BY Sizes DEF validateSequenceNumber
<1>6. i \in Int /\ 1 <= i /\ i <= len /\ len - i + 1 < ReplyWindow
  BY <1>1
<1> HIDE DEF len, number, next, wrapped
<1>7. CASE FirstNumber + len < 65536
  <2>1. number = FirstNumber + i - 1 /\ next = FirstNumber + len
    BY <1>1, <1>2, <1>3, <1>6, <1>7
  <2>2. ~wrapped
    BY <1>1, <1>2, <1>3, <1>7
  <2>3. number < next
    BY <1>1, <1>3, <1>6, <2>1
  <2> QED BY <1>5, <2>2, <2>3 DEF number
<1>8. CASE FirstNumber + len >= 65536
  <2>1. (next - number) % 65536 = len - i + 1
    <3> DEFINE x == FirstNumber + i - 1
               y == FirstNumber + len
    <3>1. x \in Int /\ y \in Int /\ y - x = len - i + 1
      BY <1>1, <1>3, <1>6
    <3>2. y - x >= 0 /\ y - x < 65536
      BY <1>1, <1>4, <1>6, <3>1
    <3>3. number = x % 65536 /\ next = y % 65536
      BY <1>2
    <3> HIDE DEF x, y
    <3>4. ((y % 65536) - (x % 65536)) % 65536 = y - x
      BY <3>1, <3>2, DifferenceOfWords
    <3> QED BY <3>1, <3>3, <3>4
  <2>2. wrapped
    BY <1>1, <1>2, <1>3, <1>8
  <2> QED BY <1>5, <1>6, <2>1, <2>2 DEF number
<1> QED BY <1>1, <1>3, <1>7, <1>8

-----------------------------------------------------------------------------
(* What arrives *)

\* The answer to a message has its fields and the checksum of the rest.
LEMMA EchoEffect ==
  ASSUME NEW m \in AnyMessage
  PROVE  /\ Echo(m) \in AnyMessage
         /\ Echo(m).type = EchoReply /\ Echo(m).code = m.code
         /\ Echo(m).identifier = m.identifier /\ Echo(m).sequenceNumber = m.sequenceNumber
         /\ ping.hostAddress = "AF_INET" =>
              Echo(m).checksum = 65535 - folded(Rest(Echo(m)))
<1> DEFINE reply == [m EXCEPT !.type = EchoReply, !.checksum = 0]
<1>1. EchoReply \in Int
  BY DEF EchoReply, ICMPv4TypeEchoReply, ICMPv6TypeEchoReply
<1>2. /\ reply \in AnyMessage /\ reply.checksum = 0
      /\ reply.type = EchoReply /\ reply.code = m.code
      /\ reply.identifier = m.identifier /\ reply.sequenceNumber = m.sequenceNumber
  <2> DEFINE type == EchoReply
  <2>1. type \in Int
    BY <1>1
  <2> HIDE DEF type
  <2> DEFINE typed == [m EXCEPT !.type = type]
             r == [typed EXCEPT !.checksum = 0]
  <2>2. /\ typed \in AnyMessage /\ typed.type = type /\ typed.code = m.code
        /\ typed.identifier = m.identifier /\ typed.sequenceNumber = m.sequenceNumber
    BY <2>1 DEF AnyMessage
  <2>3. reply = r
    BY DEF AnyMessage, type
  <2> HIDE DEF typed
  <2>4. /\ r \in AnyMessage /\ r.checksum = 0 /\ r.type = typed.type /\ r.code = typed.code
        /\ r.identifier = typed.identifier /\ r.sequenceNumber = typed.sequenceNumber
    BY <2>2 DEF AnyMessage
  <2> HIDE DEF r, reply
  <2> QED BY <2>2, <2>3, <2>4 DEF type
<1> HIDE DEF reply
<1>3. in_cksum(reply) = 65535 - folded(Rest(reply)) /\ in_cksum(reply) \in Int
  BY <1>2, ChecksumOfCleared, RestInt, FoldedInt
<1>4. Echo(m) = IF ping.hostAddress = "AF_INET"
                THEN [reply EXCEPT !.checksum = in_cksum(reply)] ELSE reply
  BY DEF Echo, reply
<1>5. CASE ping.hostAddress = "AF_INET"
  <2> DEFINE echo == [reply EXCEPT !.checksum = in_cksum(reply)]
  <2>1. /\ echo \in AnyMessage /\ echo.checksum = in_cksum(reply)
        /\ echo.type = reply.type /\ echo.code = reply.code
        /\ echo.identifier = reply.identifier
        /\ echo.sequenceNumber = reply.sequenceNumber /\ echo.data = reply.data
    BY <1>2, <1>3 DEF AnyMessage
  <2>2. Rest(echo) = Rest(reply)
    BY <2>1 DEF Rest
  <2> HIDE DEF echo
  <2>3. Echo(m) = echo
    BY <1>4, <1>5 DEF echo
  <2> QED BY <1>2, <1>3, <2>1, <2>2, <2>3
<1>6. CASE ping.hostAddress # "AF_INET"
  BY <1>2, <1>4, <1>6
<1> QED BY <1>5, <1>6

\* The kernel delivers a packet whose message is found.
LEMMA DeliveredEffect ==
  ASSUME NEW m \in AnyMessage, NEW header \in Headers \cup {IPv4HeaderSize},
         ping.hostAddress = "AF_INET" => header # 0
  PROVE  /\ Delivered(m, header) \in AnyPacket
         /\ Delivered(m, header).message = m
         /\ Delivered(m, header).length >= 8
         /\ ping.hostAddress = "AF_INET" =>
              icmpHeaderOffsetInIPv4Packet(Delivered(m, header)) # NSNotFound
<1>1. header \in Nat /\ (ping.hostAddress = "AF_INET" => header >= 20)
  BY DEF Headers, HeaderLengths, IPv4HeaderSize
<1>2. /\ Delivered(m, header) \in AnyPacket /\ Delivered(m, header).message = m
      /\ Delivered(m, header).header = header
      /\ Delivered(m, header).length = header + 10
      /\ Delivered(m, header).protocol = IPPROTO_ICMP
      /\ ping.hostAddress = "AF_INET" => Delivered(m, header).version = 4
  BY <1>1 DEF Delivered, AnyPacket, ICMPHeaderSize, IPPROTO_ICMP
<1> QED BY <1>1, <1>2
        DEF icmpHeaderOffsetInIPv4Packet, ICMPHeaderSize, IPv4HeaderSize, NSNotFound

\* Reading any packet keeps what does not depend on where it came from.
LEMMA ReadKeeps ==
  ASSUME IInv, NEW packet \in AnyPacket, NEW origin, NEW number,
         readData(packet, origin, number),
         ping.hostAddress # "AF_INET" => packet.header = 0
  PROVE  /\ Sending' /\ StaysInPacket' /\ HandedUpIntact'
         /\ callback'.origin = origin /\ callback'.number = number
         /\ Accepted' <=> validatePingResponsePacket4or6(ping, packet).valid
         /\ callback'.sequenceNumber = OSSwapInt16(packet.message.sequenceNumber)
<1> DEFINE answer == validatePingResponsePacket4or6(ping, packet)
<1>1. ping.hostAddress \in Families
  BY DEF IInv, Sending
<1>2. /\ answer.packet.message = packet.message
      /\ answer.packet.length - answer.packet.header = packet.length - packet.header
      /\ answer.valid /\ ping.hostAddress = "AF_INET" => answer.packet.header = 0
      /\ ping.hostAddress # "AF_INET" => answer.packet = packet
  BY ValidateKeeps
<1>3. /\ callback' =
           [name |-> IF answer.valid THEN "didReceivePingResponsePacket"
                     ELSE "didReceiveUnexpectedPacket",
            received |-> packet, packet |-> answer.packet,
            sequenceNumber |-> OSSwapInt16(answer.packet.message.sequenceNumber),
            origin |-> origin, number |-> number]
      /\ UNCHANGED <<ping, sent>>
  BY DEF readData
<1> HIDE DEF answer
<1>4. /\ callback'.received = packet /\ callback'.packet = answer.packet
      /\ callback'.origin = origin /\ callback'.number = number
      /\ callback'.sequenceNumber = OSSwapInt16(packet.message.sequenceNumber)
      /\ callback'.name = "didReceivePingResponsePacket" <=> answer.valid
  BY <1>2, <1>3
<1>5. Sending'
  BY <1>3 DEF IInv, Sending, Built
<1>6. StaysInPacket'
  <2>1. Touched(ping, packet) \subseteq 0 .. packet.length - 1
    BY <1>1, TouchedInside
  <2> QED BY <1>3, <1>4, <2>1 DEF StaysInPacket
<1>7. HandedUpIntact'
  BY <1>2, <1>4 DEF HandedUpIntact, Accepted
<1> QED BY <1>4, <1>5, <1>6, <1>7 DEF Accepted, answer

-----------------------------------------------------------------------------
(* The steps *)

\* Nothing is sent or read yet.
LEMMA InitIInv == Init => IInv
<1> SUFFICES ASSUME Init PROVE IInv
  OBVIOUS
<1>1. PICK family \in Families :
        ping = [initWithHostName EXCEPT !.hostAddress = family, !.socket = 1,
                                        !.nextSequenceNumber = FirstNumber]
  BY DEF Init
<1>2. ping.hostAddress = family /\ ping.nextSequenceNumber = FirstNumber
      /\ ~ping.nextSequenceNumberHasWrapped
  BY <1>1 DEF initWithHostName
<1>3. sent = <<>> /\ callback.name = "none"
  BY DEF Init
<1>4. <<>> \in Seq([message : AnyMessage, number : Words])
  OBVIOUS
<1>5. FirstNumber \in Nat /\ FirstNumber < 65536 /\ Word = 65536
  BY Sizes
<1>6. FirstNumber = (FirstNumber + 0) % 65536
  BY <1>5
<1>7. ping \in Object
  <2>1. FirstNumber \in SequenceNumbers
    BY PacketAssumption DEF Words, SequenceNumbers
  <2> QED BY <1>1, <2>1 DEF Object, initWithHostName
<1>9. Sending
  BY <1>2, <1>3, <1>4, <1>5, <1>6, <1>7 DEF Sending
<1>8. OwnReplyIsRecognised /\ DamagedIsRefused /\ StaysInPacket /\ HandedUpIntact
  BY <1>3 DEF OwnReplyIsRecognised, DamagedIsRefused, StaysInPacket, HandedUpIntact, Idle
<1> QED BY <1>8, <1>9 DEF IInv

\* A ping takes the next number.
LEMMA SendKeeps == ASSUME IInv, sendPingWithData PROVE IInv'
<1> DEFINE len == Len(sent)
           number == ping.nextSequenceNumber
<1>1. PICK payload \in Payloads :
        sent' = Append(sent, [message |-> pingPacketWithType(ping, payload),
                              number |-> ping.nextSequenceNumber])
  BY DEF sendPingWithData
<1> DEFINE message == pingPacketWithType(ping, payload)
<1>2. Word = 65536 /\ FirstNumber \in Nat /\ Identifier \in Int /\ SequenceModulus = Word
  BY Sizes
<1>3. number = (FirstNumber + len) % Word /\ len \in Nat
      /\ sent \in Seq([message : AnyMessage, number : Words])
  BY DEF IInv, Sending
<1>4. number \in Words /\ number \in Int
  <2>1. number \in Nat /\ number < 65536
    BY <1>2, <1>3
  <2> QED BY <2>1, WordBounds
<1>5. message \in AnyMessage /\ Built(message, number)
  <2> DEFINE m == [type |-> EchoRequest, code |-> 0, checksum |-> 0,
                   identifier |-> OSSwapInt16(Identifier),
                   sequenceNumber |-> OSSwapInt16(number), data |-> payload]
             c == in_cksum(m)
  <2>1. /\ EchoRequest \in Int /\ OSSwapInt16(Identifier) \in Int
        /\ OSSwapInt16(number) \in Int /\ payload \in Int
    <3>1. payload \in Words
      BY PacketAssumption
    <3>2. payload \in Int
      BY <3>1, WordBounds
    <3>3. EchoRequest \in Int
      BY DEF EchoRequest, ICMPv4TypeEchoRequest, ICMPv6TypeEchoRequest
    <3> QED BY <1>2, <1>4, <3>2, <3>3, SwapInt
  <2>2. m \in AnyMessage /\ m.checksum = 0 /\ Built(m, number)
    BY <2>1 DEF AnyMessage, Built
  <2>3. message = IF ping.hostAddress = "AF_INET" THEN [m EXCEPT !.checksum = c] ELSE m
    BY DEF pingPacketWithType
  <2> HIDE DEF m, message
  <2>4. c \in Int
    BY <2>2, ChecksumOfCleared, RestInt, FoldedInt
  <2> HIDE DEF c
  <2>5. [m EXCEPT !.checksum = c] \in AnyMessage /\ Built([m EXCEPT !.checksum = c], number)
    BY <2>2, <2>4 DEF AnyMessage, Built
  <2> QED BY <2>2, <2>3, <2>5
<1>6. ping' = advanceSequence(ping) /\ UNCHANGED callback
  BY DEF sendPingWithData
<1> DEFINE p == advanceSequence(ping)
<1>7. /\ p.hostAddress = ping.hostAddress
      /\ p.nextSequenceNumber = (number + 1) % 65536
      /\ p.nextSequenceNumberHasWrapped <=>
           ping.nextSequenceNumberHasWrapped \/ (number + 1) % 65536 = 0
  <2> DEFINE next == (number + 1) % SequenceModulus
  <2>1. p = [ping EXCEPT !.nextSequenceNumber = next,
                         !.nextSequenceNumberHasWrapped = @ \/ next = 0]
    BY DEF advanceSequence
  <2>2. next = (number + 1) % 65536
    BY <1>2
  <2>3. ping \in Object
    BY DEF IInv, Sending
  <2> HIDE DEF next, p
  <2>4. /\ p.hostAddress = ping.hostAddress /\ p.nextSequenceNumber = next
        /\ (p.nextSequenceNumberHasWrapped <=> ping.nextSequenceNumberHasWrapped \/ next = 0)
    BY <2>1, <2>3 DEF Object
  <2> QED BY <2>2, <2>4
<1> HIDE DEF p, message
<1>8. Sending'
  <2>1. Len(sent') = len + 1
        /\ sent' \in Seq([message : AnyMessage, number : Words])
        /\ sent'[len + 1] = [message |-> message, number |-> number]
        /\ \A i \in 1 .. len : sent'[i] = sent[i]
    BY <1>1, <1>3, <1>4, <1>5 DEF message
  <2>2. \A i \in 1 .. len : /\ sent[i].number = (FirstNumber + i - 1) % Word
                            /\ Built(sent[i].message, sent[i].number)
    BY DEF IInv, Sending
  <2>3. number = (FirstNumber + (len + 1) - 1) % Word
    BY <1>2, <1>3
  <2>4. \A i \in 1 .. len + 1 : /\ sent'[i].number = (FirstNumber + i - 1) % Word
                                /\ Built(sent'[i].message, sent'[i].number)
    <3> SUFFICES ASSUME NEW i \in 1 .. len + 1
                 PROVE  /\ sent'[i].number = (FirstNumber + i - 1) % Word
                        /\ Built(sent'[i].message, sent'[i].number)
      OBVIOUS
    <3>1. CASE i = len + 1
      BY <1>5, <2>1, <2>3, <3>1
    <3>2. CASE i \in 1 .. len
      BY <2>1, <2>2, <3>2
    <3> QED BY <1>3, <3>1, <3>2
  <2>5. (number + 1) % 65536 = (FirstNumber + len + 1) % 65536
    BY <1>2, <1>3, NextWord
  <2>6. (FirstNumber + len + 1) % 65536 = 0 /\ FirstNumber + len < 65536
          <=> FirstNumber + len + 1 = 65536
    BY <1>2, <1>3
  <2>7. ping.nextSequenceNumberHasWrapped <=> FirstNumber + len >= 65536
    BY <1>2 DEF IInv, Sending
  <2>8. p.nextSequenceNumberHasWrapped <=> FirstNumber + (len + 1) >= 65536
    <3>1. p.nextSequenceNumberHasWrapped <=>
            FirstNumber + len >= 65536 \/ (FirstNumber + len + 1) % 65536 = 0
      BY <1>7, <2>5, <2>7
    <3> QED BY <1>2, <1>3, <2>6, <3>1
  <2>9. p.nextSequenceNumber = (FirstNumber + (len + 1)) % 65536
    BY <1>2, <1>3, <1>7, <2>5
  <2>10. ping.hostAddress \in Families
    BY DEF IInv, Sending
  <2>11. ping' \in Object
    <3>1. (ping.nextSequenceNumber + 1) % SequenceModulus \in SequenceNumbers
      <4>1. number + 1 \in Nat /\ SequenceModulus \in Nat \ {0}
        BY <1>3, <1>4, SequenceAssumption, WordBounds
      <4> HIDE DEF number
      <4>2. (number + 1) % SequenceModulus \in 0 .. SequenceModulus - 1
        BY <4>1
      <4> QED BY <4>2 DEF SequenceNumbers, number
    <3>2. ping \in Object
      BY DEF IInv, Sending
    <3> QED BY <1>6, <3>1, <3>2 DEF advanceSequence, Object
  <2> QED BY <1>2, <1>3, <1>6, <1>7, <2>1, <2>4, <2>8, <2>9, <2>10, <2>11 DEF Sending, Built, p
<1>9. callback.name = "none" /\ callback' = callback
  BY <1>6 DEF sendPingWithData, Idle
<1> QED BY <1>8, <1>9
        DEF IInv, OwnReplyIsRecognised, DamagedIsRefused, StaysInPacket, HandedUpIntact, Idle

\* A ping that was sent.
LEMMA SentEffect ==
  ASSUME Sending, NEW i \in DOMAIN sent
  PROVE  i \in 1 .. Len(sent) /\ sent[i].message \in AnyMessage
         /\ Built(sent[i].message, sent[i].number) /\ sent[i].number \in Words
<1> DEFINE Ping == [message : AnyMessage, number : Words]
<1>1. sent \in Seq(Ping)
  BY DEF Sending
<1> HIDE DEF Ping
<1>2. i \in 1 .. Len(sent) /\ sent[i] \in Ping
  BY <1>1
<1> USE DEF Ping
<1>3. Built(sent[i].message, sent[i].number)
  BY <1>2 DEF Sending
<1> QED BY <1>2, <1>3

\* The reply to a recent ping is accepted, under its number.
LEMMA ReplyKeeps == ASSUME IInv, Reply PROVE IInv'
<1>1. PICK i \in DOMAIN sent, header \in Headers :
        /\ Len(sent) - i + 1 < ReplyWindow
        /\ readData(Delivered(Echo(sent[i].message), header), "reply", sent[i].number)
  BY DEF Reply
<1> DEFINE m == Echo(sent[i].message)
           packet == Delivered(m, header)
           number == sent[i].number
<1>2. i \in 1 .. Len(sent) /\ sent[i].message \in AnyMessage
      /\ Built(sent[i].message, number) /\ number \in Words
  BY SentEffect DEF IInv
<1>3. /\ m \in AnyMessage /\ m.type = EchoReply /\ m.code = 0
      /\ m.identifier = OSSwapInt16(Identifier)
      /\ m.sequenceNumber = OSSwapInt16(number)
      /\ ping.hostAddress = "AF_INET" => m.checksum = 65535 - folded(Rest(m))
  BY <1>2, EchoEffect DEF Built
<1> HIDE DEF m
<1>4. ping.hostAddress = "AF_INET" => header # 0
  BY DEF Headers, HeaderLengths
<1>5. ping.hostAddress # "AF_INET" => packet.header = 0
  BY DEF Headers, Delivered
<1>6. /\ packet \in AnyPacket /\ packet.message = m /\ packet.length >= 8
      /\ ping.hostAddress = "AF_INET" => icmpHeaderOffsetInIPv4Packet(packet) # NSNotFound
  BY <1>3, <1>4, DeliveredEffect
<1>7. readData(packet, "reply", number)
  BY <1>1 DEF m
<1> HIDE DEF packet
<1>8. Identifier \in Nat /\ Identifier < 65536 /\ number \in Nat /\ number < 65536
  <2>1. number \in Nat /\ number < 65536
    BY <1>2, WordBounds
  <2> QED BY <2>1, Sizes
<1>9. OSSwapInt16(m.identifier) = Identifier /\ OSSwapInt16(m.sequenceNumber) = number
  BY <1>3, <1>8, SwapTwice
<1>10. validateSequenceNumber(ping, number)
  BY <1>1, <1>2, WindowAccepts DEF IInv
<1>11. Matches(ping, m, EchoReply)
  BY <1>3, <1>9, <1>10 DEF Matches
<1>12. validatePingResponsePacket4or6(ping, packet).valid
  <2>1. CASE ping.hostAddress = "AF_INET"
    BY <1>3, <1>6, <1>11, <2>1, Valid4 DEF EchoReply
  <2>2. CASE ping.hostAddress # "AF_INET"
    BY <1>6, <1>11, <2>2
       DEF EchoReply, validatePingResponsePacket4or6, validatePing6ResponsePacket, ICMPHeaderSize
  <2> QED BY <2>1, <2>2
<1>13. /\ Sending' /\ StaysInPacket' /\ HandedUpIntact'
       /\ callback'.origin = "reply" /\ callback'.number = number
       /\ Accepted' /\ callback'.sequenceNumber = number
  BY <1>5, <1>6, <1>7, <1>9, <1>12, ReadKeeps
<1> QED BY <1>13 DEF IInv, OwnReplyIsRecognised, DamagedIsRefused

\* A message with one bit changed in one field: another field, or another sum.
LEMMA DamageEffect ==
  ASSUME NEW m \in AnyMessage, NEW field \in Fields, NEW bit \in Bits,
         field \in {"type", "code"} => bit < Byte
  PROVE  LET damaged == [m EXCEPT ![field] = Flip(@, bit)]
         IN  /\ damaged \in AnyMessage
             /\ \/ damaged.checksum # m.checksum /\ Rest(damaged) = Rest(m)
                \/ /\ damaged.checksum = m.checksum
                   /\ Rest(damaged) # Rest(m)
                   /\ Rest(damaged) - Rest(m) < 65535
                   /\ Rest(m) - Rest(damaged) < 65535
<1> DEFINE damaged == [m EXCEPT ![field] = Flip(@, bit)]
<1>0. bit \in Nat /\ bit > 0 /\ bit <= 32768
  BY DEF Bits
<1>1. PICK delta \in {bit, -bit} : damaged = [m EXCEPT ![field] = @ + delta]
  <2>1. m[field] \in Int
    BY DEF Fields, AnyMessage
  <2>2. Flip(m[field], bit) = m[field] + bit \/ Flip(m[field], bit) = m[field] + (-bit)
    BY <1>0, <2>1, FlipEffect
  <2> QED BY <2>2
<1>2. delta \in Int /\ delta # 0 /\ delta <= 32768 /\ -32768 <= delta
  BY <1>0
<1>3. field \in {"type", "code"} => delta <= 255 /\ -255 <= delta
  BY <1>0 DEF Byte
<1> HIDE DEF damaged
<1>4. /\ m.type \in Int /\ m.code \in Int /\ m.checksum \in Int /\ m.identifier \in Int
      /\ m.sequenceNumber \in Int /\ m.data \in Int
  BY DEF AnyMessage
<1>5. CASE field = "type"
  <2>1. /\ damaged \in AnyMessage /\ damaged.type = m.type + delta /\ damaged.code = m.code
        /\ damaged.checksum = m.checksum /\ damaged.identifier = m.identifier
        /\ damaged.sequenceNumber = m.sequenceNumber /\ damaged.data = m.data
    BY <1>1, <1>2, <1>4, <1>5 DEF AnyMessage
  <2> QED BY <1>2, <1>3, <1>4, <1>5, <2>1 DEF Rest, damaged
<1>6. CASE field = "code"
  <2>1. /\ damaged \in AnyMessage /\ damaged.type = m.type /\ damaged.code = m.code + delta
        /\ damaged.checksum = m.checksum /\ damaged.identifier = m.identifier
        /\ damaged.sequenceNumber = m.sequenceNumber /\ damaged.data = m.data
    BY <1>1, <1>2, <1>4, <1>6 DEF AnyMessage
  <2> QED BY <1>2, <1>3, <1>4, <1>6, <2>1 DEF Rest, damaged
<1>7. CASE field = "checksum"
  <2>1. /\ damaged \in AnyMessage /\ damaged.type = m.type /\ damaged.code = m.code
        /\ damaged.checksum = m.checksum + delta /\ damaged.identifier = m.identifier
        /\ damaged.sequenceNumber = m.sequenceNumber /\ damaged.data = m.data
    BY <1>1, <1>2, <1>4, <1>7 DEF AnyMessage
  <2> QED BY <1>2, <1>3, <1>4, <1>7, <2>1 DEF Rest, damaged
<1>8. CASE field = "identifier"
  <2>1. /\ damaged \in AnyMessage /\ damaged.type = m.type /\ damaged.code = m.code
        /\ damaged.checksum = m.checksum /\ damaged.identifier = m.identifier + delta
        /\ damaged.sequenceNumber = m.sequenceNumber /\ damaged.data = m.data
    BY <1>1, <1>2, <1>4, <1>8 DEF AnyMessage
  <2> QED BY <1>2, <1>3, <1>4, <1>8, <2>1 DEF Rest, damaged
<1>9. CASE field = "sequenceNumber"
  <2>1. /\ damaged \in AnyMessage /\ damaged.type = m.type /\ damaged.code = m.code
        /\ damaged.checksum = m.checksum /\ damaged.identifier = m.identifier
        /\ damaged.sequenceNumber = m.sequenceNumber + delta /\ damaged.data = m.data
    BY <1>1, <1>2, <1>4, <1>9 DEF AnyMessage
  <2> QED BY <1>2, <1>3, <1>4, <1>9, <2>1 DEF Rest, damaged
<1>10. CASE field = "data"
  <2>1. /\ damaged \in AnyMessage /\ damaged.type = m.type /\ damaged.code = m.code
        /\ damaged.checksum = m.checksum /\ damaged.identifier = m.identifier
        /\ damaged.sequenceNumber = m.sequenceNumber /\ damaged.data = m.data + delta
    BY <1>1, <1>2, <1>4, <1>10 DEF AnyMessage
  <2> QED BY <1>2, <1>3, <1>4, <1>10, <2>1 DEF Rest, damaged
<1> QED BY <1>5, <1>6, <1>7, <1>8, <1>9, <1>10 DEF Fields, damaged

\* A reply with one bit changed is refused: its checksum is not that of its rest.
LEMMA DamagedReplyKeeps == ASSUME IInv, DamagedReply PROVE IInv'
<1>1. PICK i \in DOMAIN sent, field \in Fields, bit \in Bits :
        /\ field \in {"type", "code"} => bit < Byte
        /\ readData(Delivered([Echo(sent[i].message) EXCEPT ![field] = Flip(@, bit)],
                              IPv4HeaderSize),
                    "damaged", sent[i].number)
  BY DEF DamagedReply
<1> DEFINE m == Echo(sent[i].message)
           damaged == [m EXCEPT ![field] = Flip(@, bit)]
           packet == Delivered(damaged, IPv4HeaderSize)
<1>2. ping.hostAddress = "AF_INET"
  BY DEF DamagedReply
<1>3. sent[i].message \in AnyMessage
  BY SentEffect DEF IInv
<1>4. m \in AnyMessage /\ m.checksum = 65535 - folded(Rest(m))
  BY <1>2, <1>3, EchoEffect
<1>5. readData(packet, "damaged", sent[i].number)
  BY <1>1
<1> HIDE DEF m
<1>6. /\ damaged \in AnyMessage
      /\ \/ damaged.checksum # m.checksum /\ Rest(damaged) = Rest(m)
         \/ /\ damaged.checksum = m.checksum
            /\ Rest(damaged) # Rest(m)
            /\ Rest(damaged) - Rest(m) < 65535
            /\ Rest(m) - Rest(damaged) < 65535
  BY <1>1, <1>4, DamageEffect
<1> HIDE DEF damaged
<1>7. packet \in AnyPacket /\ packet.message = damaged
  BY <1>6, DeliveredEffect DEF IPv4HeaderSize
<1>8. damaged.checksum # 65535 - folded(Rest(damaged))
  <2>1. Rest(m) \in Int /\ Rest(damaged) \in Int
    BY <1>4, <1>6, RestInt
  <2>2. folded(Rest(m)) \in Int /\ folded(Rest(damaged)) \in Int
    BY <2>1, FoldedInt
  <2>3. CASE damaged.checksum # m.checksum /\ Rest(damaged) = Rest(m)
    BY <1>4, <2>3
  <2>4. CASE /\ damaged.checksum = m.checksum
             /\ Rest(damaged) # Rest(m)
             /\ Rest(damaged) - Rest(m) < 65535
             /\ Rest(m) - Rest(damaged) < 65535
    <3>1. folded(Rest(damaged)) # folded(Rest(m))
      BY <2>1, <2>4, FoldedTellsApart
    <3> QED BY <1>4, <2>2, <2>4, <3>1
  <2> QED BY <1>6, <2>3, <2>4
<1> HIDE DEF packet
<1>9. ~validatePingResponsePacket4or6(ping, packet).valid
  BY <1>2, <1>7, <1>8, Valid4
<1>10. /\ Sending' /\ StaysInPacket' /\ HandedUpIntact'
       /\ callback'.origin = "damaged" /\ ~Accepted'
  BY <1>2, <1>5, <1>7, <1>9, ReadKeeps
<1> QED BY <1>10 DEF IInv, OwnReplyIsRecognised, DamagedIsRefused

\* Packets of other programs, whatever they hold.
LEMMA OtherPacketKeeps == ASSUME IInv, OtherPacket PROVE IInv'
<1>1. PICK v \in {4, 6}, protocol \in {IPPROTO_ICMP, 17}, words \in 0 .. 15,
           length \in Lengths, m \in OtherMessages :
        /\ ping.hostAddress = "AF_INET6" => words = 0
        /\ readData([version |-> v, protocol |-> protocol, header |-> 4 * words,
                     message |-> [m EXCEPT !.checksum = in_cksum(m)], length |-> length],
                    "other", 0)
  BY DEF OtherPacket
<1> DEFINE c == in_cksum(m)
           message == [m EXCEPT !.checksum = c]
           packet == [version |-> v, protocol |-> protocol, header |-> 4 * words,
                      message |-> message, length |-> length]
<1>2. ping.hostAddress \in Families /\ ping.nextSequenceNumber \in Int /\ Identifier \in Int
  <2>1. ping.nextSequenceNumber = (FirstNumber + Len(sent)) % Word
        /\ sent \in Seq([message : AnyMessage, number : Words])
        /\ ping.hostAddress \in Families
    BY DEF IInv, Sending
  <2>2. Len(sent) \in Nat
    BY <2>1
  <2> QED BY <2>1, <2>2, Sizes
<1>3. m \in AnyMessage /\ m.checksum = 0
  <2>1. PICK t \in {EchoRequest, EchoReply}, i \in {Identifier, OSSwapInt16(Identifier)} :
          m = [type |-> t, code |-> 0, checksum |-> 0, identifier |-> i,
               sequenceNumber |-> OSSwapInt16(ping.nextSequenceNumber), data |-> 0]
    BY DEF OtherMessages
  <2>2. t \in Int
    BY DEF EchoRequest, EchoReply, ICMPv4TypeEchoRequest, ICMPv4TypeEchoReply,
           ICMPv6TypeEchoRequest, ICMPv6TypeEchoReply
  <2>3. i \in Int /\ OSSwapInt16(ping.nextSequenceNumber) \in Int
    BY <1>2, SwapInt
  <2> QED BY <2>1, <2>2, <2>3 DEF AnyMessage
<1>4. c \in Int
  BY <1>3, ChecksumOfCleared, RestInt, FoldedInt
<1>5. readData(packet, "other", 0)
  BY <1>1
<1> HIDE DEF c
<1>6. message \in AnyMessage
  BY <1>3, <1>4 DEF AnyMessage
<1> HIDE DEF message
<1>7. packet \in AnyPacket /\ (ping.hostAddress # "AF_INET" => packet.header = 0)
  <2>1. length \in Nat /\ v \in Int /\ protocol \in Int /\ 4 * words \in Nat
    BY PacketAssumption DEF IPPROTO_ICMP
  <2>2. ping.hostAddress # "AF_INET" => 4 * words = 0
    BY <1>1, <1>2 DEF Families
  <2> QED BY <1>6, <2>1, <2>2 DEF AnyPacket
<1> HIDE DEF packet
<1>8. Sending' /\ StaysInPacket' /\ HandedUpIntact' /\ callback'.origin = "other"
  BY <1>5, <1>7, ReadKeeps
<1> QED BY <1>8 DEF IInv, OwnReplyIsRecognised, DamagedIsRefused

\* Every step keeps the invariant.
LEMMA NextKeeps == IInv /\ [Next]_vars => IInv'
<1> SUFFICES ASSUME IInv, [Next]_vars PROVE IInv'
  OBVIOUS
<1>1. CASE UNCHANGED vars
  BY <1>1 DEF vars, IInv, Sending, Built, OwnReplyIsRecognised, DamagedIsRefused,
              StaysInPacket, HandedUpIntact, Idle, Accepted
<1>2. CASE freeBuffer
  BY <1>2 DEF freeBuffer, IInv, Sending, Built, OwnReplyIsRecognised, DamagedIsRefused,
              StaysInPacket, HandedUpIntact, Idle
<1> QED BY <1>1, <1>2, SendKeeps, ReplyKeeps, DamagedReplyKeeps, OtherPacketKeeps DEF Next

\* The inductive invariant of the packets.
THEOREM PacketInvariant == Spec => []IInv
BY InitIInv, NextKeeps, PTL DEF Spec

\* Every reply to a ping of the window is recognised, for every identifier, payload and
\* number, with the number the ping was sent with.
THEOREM RepliesRecognised == Spec => []OwnReplyIsRecognised
<1>1. IInv => OwnReplyIsRecognised
  BY DEF IInv
<1> QED BY <1>1, PacketInvariant, PTL

\* Whatever bit of a reply is changed, the checksum or a comparison tells.
THEOREM DamageDetected == Spec => []DamagedIsRefused
<1>1. IInv => DamagedIsRefused
  BY DEF IInv
<1> QED BY <1>1, PacketInvariant, PTL

\* Whatever a packet says of its lengths, the validation stays inside it.
THEOREM ReadsInside == Spec => []StaysInPacket
<1>1. IInv => StaysInPacket
  BY DEF IInv
<1> QED BY <1>1, PacketInvariant, PTL

\* The delegate is handed the message as it arrived.
THEOREM HandsUpIntact == Spec => []HandedUpIntact
<1>1. IInv => HandedUpIntact
  BY DEF IInv
<1> QED BY <1>1, PacketInvariant, PTL
=============================================================================
