------------------------------ MODULE ICMPPacket ------------------------------
(***************************************************************************)
(* The packets of one started SimplePing: how pingPacketWithType builds a  *)
(* request, and how readData finds the ICMP message in what the kernel     *)
(* hands over, checks it and passes it to the delegate.  SimplePing has    *)
(* the same turns with a packet reduced to "an echo reply or not"; here    *)
(* the packet has its lengths, its header fields and its checksum.         *)
(*                                                                         *)
(* A message is the five fields of ICMPHeader and the payload, reduced to  *)
(* the 16-bit word its words add up to.  Words are as the little-endian    *)
(* host reads them.  A packet is what recvfrom returned: `header' bytes of *)
(* IPv4 header, 0 of them for IPv6, and the message read after them.       *)
(***************************************************************************)
EXTENDS SimplePingObject

CONSTANTS
  Identifier,     \* the random identifier of the object
  FirstNumber,    \* the sequence number of the first ping
  Payloads,       \* what the payload of a ping may add up to
  Lengths,        \* bound: the lengths tried for packets of other programs
  MaxPings        \* bound: how many pings are sent

Byte == 256
Word == Byte * Byte
Words == 0 .. Word - 1

ASSUME PacketAssumption ==
  /\ SequenceModulus = Word
  /\ Identifier \in Words
  /\ FirstNumber \in Words
  /\ Payloads \subseteq Words
  /\ Lengths \subseteq Nat \ {0}
  /\ MaxPings \in Nat

VARIABLES
  ping,      \* the object; its hostAddress says which family it pings
  sent,      \* the requests sent, in order
  callback   \* the call of the delegate in progress, with the packet that was read

vars == <<ping, sent, callback>>

-----------------------------------------------------------------------------
(* On the wire *)

ICMPHeaderSize == 8
IPv4HeaderSize == 20
IPPROTO_ICMP == 1

ICMPv4TypeEchoRequest == 8
ICMPv4TypeEchoReply == 0
ICMPv6TypeEchoRequest == 128
ICMPv6TypeEchoReply == 129

EchoRequest == IF ping.hostAddress = "AF_INET" THEN ICMPv4TypeEchoRequest
               ELSE ICMPv6TypeEchoRequest
EchoReply == IF ping.hostAddress = "AF_INET" THEN ICMPv4TypeEchoReply
             ELSE ICMPv6TypeEchoReply

ICMPHeader == [type : 0 .. Byte - 1, code : 0 .. Byte - 1, checksum : Words,
               identifier : Words, sequenceNumber : Words, data : Words]

Packet == [version : 0 .. 15, protocol : 0 .. Byte - 1, header : Nat,
           message : ICMPHeader, length : Nat]

\* OSSwapHostToBigInt16 and back
OSSwapInt16(n) == (Byte * (n % Byte)) + (n \div Byte)

\* What the two folds of in_cksum make of a sum of words.
folded(sum) == IF sum = 0 THEN 0 ELSE 1 + ((sum - 1) % (Word - 1))

\* in_cksum over a whole message
in_cksum(m) ==
  Word - 1 - folded(m.type + (Byte * m.code) + m.checksum + m.identifier
                      + m.sequenceNumber + m.data)

-----------------------------------------------------------------------------
(* Sending *)

\* mutant: the number is put into the packet in the order of the host
pingPacketUnswapped(p, payload) ==
  LET message == [type |-> EchoRequest, code |-> 0, checksum |-> 0,
                  identifier |-> OSSwapInt16(Identifier),
                  sequenceNumber |-> p.nextSequenceNumber,
                  data |-> payload]
  IN  IF p.hostAddress = "AF_INET"
      THEN [message EXCEPT !.checksum = in_cksum(message)] ELSE message

\* The checksum is made over a message whose checksum is 0; IPv6 leaves it so.
pingPacketWithType(p, payload) ==
  LET message == [type |-> EchoRequest, code |-> 0, checksum |-> 0,
                  identifier |-> OSSwapInt16(Identifier),
                  sequenceNumber |-> OSSwapInt16(p.nextSequenceNumber),
                  data |-> payload]
  IN  IF p.hostAddress = "AF_INET"
      THEN [message EXCEPT !.checksum = in_cksum(message)] ELSE message

Init ==
  /\ \E family \in Families :
       ping = [initWithHostName EXCEPT !.hostAddress = family, !.socket = 1,
                                       !.nextSequenceNumber = FirstNumber]
  /\ sent = <<>>
  /\ callback = [name |-> "none"]

Idle == callback.name = "none"

sendPingWithData ==
  /\ Idle /\ Len(sent) < MaxPings
  /\ \E payload \in Payloads :
       sent' = Append(sent, [message |-> pingPacketWithType(ping, payload),
                             number |-> ping.nextSequenceNumber])
  /\ ping' = advanceSequence(ping)
  /\ UNCHANGED callback

-----------------------------------------------------------------------------
(* Receiving *)

NSNotFound == -1

\* mutant: only the least length of the headers is tested
icmpHeaderOffsetUnbounded(packet) ==
  IF /\ packet.length >= IPv4HeaderSize + ICMPHeaderSize
     /\ packet.version = 4 /\ packet.protocol = IPPROTO_ICMP
  THEN packet.header ELSE NSNotFound

\* The length of the IPv4 header comes from the packet, so it is tested again.
icmpHeaderOffsetInIPv4Packet(packet) ==
  IF /\ packet.length >= IPv4HeaderSize + ICMPHeaderSize
     /\ packet.version = 4 /\ packet.protocol = IPPROTO_ICMP
     /\ packet.length >= packet.header + ICMPHeaderSize
  THEN packet.header ELSE NSNotFound

\* Is this message a reply to a ping of the object?
Matches(p, m, type) ==
  /\ m.type = type /\ m.code = 0
  /\ OSSwapInt16(m.identifier) = Identifier
  /\ validateSequenceNumber(p, OSSwapInt16(m.sequenceNumber))

\* mutant: the checksum is cleared for the calculation and stays 0
validatePing4Unrestored(p, packet) ==
  LET offset == icmpHeaderOffsetInIPv4Packet(packet)
      cleared == [packet EXCEPT !.message.checksum = 0]
  IN  IF offset = NSNotFound THEN [valid |-> FALSE, packet |-> packet]
      ELSE IF /\ in_cksum(cleared.message) = packet.message.checksum
              /\ Matches(p, packet.message, ICMPv4TypeEchoReply)
           THEN [valid |-> TRUE,
                 packet |-> [cleared EXCEPT !.header = 0, !.length = @ - offset]]
           ELSE [valid |-> FALSE, packet |-> cleared]

\* mutant: the checksum is not compared
validatePing4Unchecked(p, packet) ==
  LET offset == icmpHeaderOffsetInIPv4Packet(packet)
  IN  IF offset # NSNotFound /\ Matches(p, packet.message, ICMPv4TypeEchoReply)
      THEN [valid |-> TRUE,
            packet |-> [packet EXCEPT !.header = 0, !.length = @ - offset]]
      ELSE [valid |-> FALSE, packet |-> packet]

\* The checksum is cleared for the calculation and put back; a reply of ours
\* loses its IPv4 header.
validatePing4ResponsePacket(p, packet) ==
  LET offset == icmpHeaderOffsetInIPv4Packet(packet)
      receivedChecksum == packet.message.checksum
      cleared == [packet EXCEPT !.message.checksum = 0]
      restored == [cleared EXCEPT !.message.checksum = receivedChecksum]
  IN  IF offset = NSNotFound THEN [valid |-> FALSE, packet |-> packet]
      ELSE IF /\ in_cksum(cleared.message) = receivedChecksum
              /\ Matches(p, restored.message, ICMPv4TypeEchoReply)
           THEN [valid |-> TRUE,
                 packet |-> [restored EXCEPT !.header = 0, !.length = @ - offset]]
           ELSE [valid |-> FALSE, packet |-> restored]

\* The kernel has checked the checksum and removed the IPv6 header.
validatePing6ResponsePacket(p, packet) ==
  [valid |-> /\ packet.length >= ICMPHeaderSize
             /\ Matches(p, packet.message, ICMPv6TypeEchoReply),
   packet |-> packet]

validatePingResponsePacket4or6(p, packet) ==
  IF p.hostAddress = "AF_INET" THEN validatePing4ResponsePacket(p, packet)
  ELSE validatePing6ResponsePacket(p, packet)

\* The bytes of the packet that the validation reads or writes: the first and the
\* tenth byte of an IPv4 header, and from the offset on the message to its end.
Touched(p, packet) ==
  LET offset == icmpHeaderOffsetInIPv4Packet(packet)
  IN  IF p.hostAddress = "AF_INET6"
      THEN IF packet.length >= ICMPHeaderSize THEN 0 .. ICMPHeaderSize - 1 ELSE {}
      ELSE (IF packet.length >= IPv4HeaderSize + ICMPHeaderSize THEN {0, 9} ELSE {})
           \cup (IF offset = NSNotFound THEN {}
                 ELSE (offset .. offset + ICMPHeaderSize - 1)
                        \cup (offset .. packet.length - 1))

\* readData: one packet is validated and handed to the delegate.  `origin' and
\* `number' remember where the packet came from and which ping it answers.
readData(packet, origin, number) ==
  LET answer == validatePingResponsePacket4or6(ping, packet) IN
  /\ Idle
  /\ callback' =
       [name |-> IF answer.valid THEN "didReceivePingResponsePacket"
                 ELSE "didReceiveUnexpectedPacket",
        received |-> packet, packet |-> answer.packet,
        sequenceNumber |-> OSSwapInt16(answer.packet.message.sequenceNumber),
        origin |-> origin, number |-> number]
  /\ UNCHANGED <<ping, sent>>

\* The delegate returns and the buffer is freed.
freeBuffer ==
  /\ ~Idle
  /\ callback' = [name |-> "none"]
  /\ UNCHANGED <<ping, sent>>

-----------------------------------------------------------------------------
(* The network and the kernel *)

\* The lengths an IPv4 header can have: 5 to 15 words of 4 bytes.
HeaderLengths == {4 * n : n \in 5 .. 15}

\* What the kernel hands over for a message: with the IPv4 header in front.
Delivered(m, header) ==
  [version |-> IF ping.hostAddress = "AF_INET" THEN 4 ELSE 6,
   protocol |-> IPPROTO_ICMP, header |-> header, message |-> m,
   length |-> header + ICMPHeaderSize + 2]

Headers == IF ping.hostAddress = "AF_INET" THEN HeaderLengths ELSE {0}

\* A host answers with the same message, another type and a new checksum.
Echo(m) ==
  LET reply == [m EXCEPT !.type = EchoReply, !.checksum = 0]
  IN  IF ping.hostAddress = "AF_INET"
      THEN [reply EXCEPT !.checksum = in_cksum(reply)] ELSE reply

\* One of the pings of the reply window is answered.
Reply ==
  \E i \in DOMAIN sent, header \in Headers :
    /\ Len(sent) - i + 1 < ReplyWindow
    /\ readData(Delivered(Echo(sent[i].message), header), "reply", sent[i].number)

\* One bit of a byte or a word is changed.
Bits == {1, 2, 4, 8, 16, 32, 64, 128, 256, 512, 1024, 2048, 4096, 8192, 16384, 32768}
Flip(n, bit) == IF (n \div bit) % 2 = 1 THEN n - bit ELSE n + bit

Fields == {"type", "code", "checksum", "identifier", "sequenceNumber", "data"}

\* A reply is damaged on its way.  Over IPv6 the kernel drops it.
DamagedReply ==
  /\ ping.hostAddress = "AF_INET"
  /\ \E i \in DOMAIN sent, field \in Fields, bit \in Bits :
       /\ field \in {"type", "code"} => bit < Byte
       /\ readData(Delivered([Echo(sent[i].message) EXCEPT ![field] = Flip(@, bit)],
                             IPv4HeaderSize),
                   "damaged", sent[i].number)

\* Other programs' packets: any header, any length, requests and replies, also
\* with the number of the next ping or the identifier's bytes exchanged.
OtherMessages ==
  {[type |-> t, code |-> 0, checksum |-> 0, identifier |-> i,
    sequenceNumber |-> OSSwapInt16(ping.nextSequenceNumber), data |-> 0] :
     t \in {EchoRequest, EchoReply}, i \in {Identifier, OSSwapInt16(Identifier)}}

OtherPacket ==
  \E v \in {4, 6}, protocol \in {IPPROTO_ICMP, 17}, words \in 0 .. 15,
     length \in Lengths, m \in OtherMessages :
    /\ ping.hostAddress = "AF_INET6" => words = 0
    /\ readData([version |-> v, protocol |-> protocol, header |-> 4 * words,
                 message |-> [m EXCEPT !.checksum = in_cksum(m)], length |-> length],
                "other", 0)

Next == sendPingWithData \/ Reply \/ DamagedReply \/ OtherPacket \/ freeBuffer

Spec == Init /\ [][Next]_vars

-----------------------------------------------------------------------------
(* Properties *)

Accepted == callback.name = "didReceivePingResponsePacket"

\* A reply to a recent ping is recognised, behind an IPv4 header of any length and
\* in either family, and the delegate is given the number the ping was sent with.
OwnReplyIsRecognised ==
  ~Idle /\ callback.origin = "reply" =>
    Accepted /\ callback.sequenceNumber = callback.number

\* A reply with one bit changed, be it in the checksum itself or in a field the
\* validation compares, is not taken for a reply.
DamagedIsRefused == ~Idle /\ callback.origin = "damaged" => ~Accepted

\* The validation touches only bytes of the packet, whatever the packet says about
\* the length of its header.
StaysInPacket ==
  ~Idle => Touched(ping, callback.received) \subseteq 0 .. callback.received.length - 1

\* The delegate is handed the message as it arrived: the checksum that was cleared
\* is back, and what was removed of a reply is the IPv4 header and nothing else.
HandedUpIntact ==
  ~Idle =>
    /\ callback.packet.message = callback.received.message
    /\ callback.packet.length - callback.packet.header
         = callback.received.length - callback.received.header
    /\ Accepted => callback.packet.header = 0

\* SimplePing.h, of didReceiveUnexpectedPacket: the packet received "does not
\* include any IP-level headers".  Asked only of packets that hold an ICMP message.
UnexpectedHasNoIPHeader ==
  ~Idle /\ ~Accepted /\ icmpHeaderOffsetInIPv4Packet(callback.received) # NSNotFound =>
    callback.packet.header = 0
=============================================================================
