-------------------------- MODULE SimplePingObject --------------------------
(***************************************************************************)
(* One SimplePing instance (src/LANScan/SimplePing.m) as a value: its      *)
(* properties, and its private methods as operators from the object before *)
(* the call to the object after it.  The methods run to completion on one  *)
(* run-loop thread, so a method is a function; the components that own an  *)
(* object (SimplePing, PingWrapper) turn calls and callbacks into actions. *)
(*                                                                         *)
(* A CFHost or a CFSocket is the number the object's `made' counter gave   *)
(* it when it was created; 0 is NULL.  `sources' is what the run loop      *)
(* holds for this object: the CFHosts and CFSockets that can still call    *)
(* back into it, whether or not the object's own fields still name them.   *)
(***************************************************************************)
EXTENDS Integers, Sequences

CONSTANTS
  SequenceModulus,   \* 2^16: nextSequenceNumber is a uint16_t
  ReplyWindow        \* 120: the constant of validateSequenceNumber

\* The window is a uint16_t compared with a uint16_t difference.
ASSUME SequenceAssumption ==
  /\ SequenceModulus \in Nat \ {0}
  /\ ReplyWindow \in Nat \ {0}
  /\ ReplyWindow < SequenceModulus

SequenceNumbers == 0 .. (SequenceModulus - 1)
Families == {"AF_INET", "AF_INET6"}
Kinds == {"CFHost", "CFSocket"}

Object == [host : Nat, socket : Nat,
           hostAddress : Families \cup {"nil"},
           nextSequenceNumber : SequenceNumbers,
           nextSequenceNumberHasWrapped : BOOLEAN,
           made : Nat,
           sources : SUBSET [kind : Kinds, id : Nat]]

\* initWithHostName: every property but the name and the identifier is zero.
initWithHostName ==
  [host |-> 0, socket |-> 0, hostAddress |-> "nil", nextSequenceNumber |-> 0,
   nextSequenceNumberHasWrapped |-> FALSE, made |-> 0, sources |-> {}]

CFHost(n) == [kind |-> "CFHost", id |-> n]
CFSocket(n) == [kind |-> "CFSocket", id |-> n]

-----------------------------------------------------------------------------
(* Stopping *)

\* mutant: the host is forgotten but stays scheduled on the run loop
stopHostResolutionScheduled(p) == [p EXCEPT !.host = 0]

stopHostResolution(p) ==
  IF p.host = 0 THEN p
  ELSE [p EXCEPT !.host = 0, !.sources = @ \ {CFHost(p.host)}]

\* mutant: the socket is forgotten without CFSocketInvalidate
stopSocketLeaked(p) == [p EXCEPT !.socket = 0]

stopSocket(p) ==
  IF p.socket = 0 THEN p
  ELSE [p EXCEPT !.socket = 0, !.sources = @ \ {CFSocket(p.socket)}]

\* mutant: the address outlives stop
stopKeepsAddress(p) == stopSocket(stopHostResolution(p))

stop(p) == [stopSocket(stopHostResolution(p)) EXCEPT !.hostAddress = "nil"]

-----------------------------------------------------------------------------
(* Starting *)

\* mutant: the CFHost is created and never scheduled
createHostUnscheduled(p) == [p EXCEPT !.host = p.made + 1, !.made = @ + 1]

\* start, up to CFHostStartInfoResolution: create, set as client, schedule.
createHost(p) ==
  [p EXCEPT !.host = p.made + 1, !.made = @ + 1,
            !.sources = @ \cup {CFHost(p.made + 1)}]

\* An address is a family, or "short" when too short for a sockaddr.
Addresses == Families \cup {"short"}
Styles == {"any", "v4", "v6"}
Suits(style, address) ==
  \/ address = "AF_INET" /\ style # "v6"
  \/ address = "AF_INET6" /\ style # "v4"

\* hostResolutionDone: the first address of a family the style admits, or
\* "nil" when there is none.
firstAddress(style, addresses) ==
  LET suitable == {i \in DOMAIN addresses : Suits(style, addresses[i])}
  IN  IF suitable = {} THEN "nil"
      ELSE addresses[CHOOSE i \in suitable : \A j \in suitable : i <= j]

\* hostResolutionDone: latch the address, then stop resolving.
latchAddress(p, address) ==
  stopHostResolution([p EXCEPT !.hostAddress = address])

\* startWithHostAddress, once socket() succeeded: wrap and schedule it.
createSocket(p) ==
  [p EXCEPT !.socket = p.made + 1, !.made = @ + 1,
            !.sources = @ \cup {CFSocket(p.made + 1)}]

-----------------------------------------------------------------------------
(* Sending and matching *)

\* mutant: wrapping goes unnoticed
advanceSequenceUnflagged(p) ==
  [p EXCEPT !.nextSequenceNumber = (@ + 1) % SequenceModulus]

\* The last lines of sendPingWithData: run after the delegate callback.
advanceSequence(p) ==
  LET next == (p.nextSequenceNumber + 1) % SequenceModulus
  IN  [p EXCEPT !.nextSequenceNumber = next,
                !.nextSequenceNumberHasWrapped = @ \/ next = 0]

\* Is s a number we sent?  Once wrapped, one of the last ones.
validateSequenceNumber(p, s) ==
  IF p.nextSequenceNumberHasWrapped
  THEN (p.nextSequenceNumber - s) % SequenceModulus < ReplyWindow
  ELSE s < p.nextSequenceNumber

\* An incoming packet: an "echoReply" passed the header, checksum, type and
\* code tests, "other" is any packet that fails one of them.
Packets(identifiers) ==
  [kind : {"echoReply", "other"}, identifier : identifiers,
   sequenceNumber : SequenceNumbers]

\* mutant: any echo reply is taken for ours
validatePromiscuous(p, identifier, packet) ==
  /\ packet.kind = "echoReply"
  /\ validateSequenceNumber(p, packet.sequenceNumber)

\* validatePing4ResponsePacket and validatePing6ResponsePacket, which differ
\* only in the header tests that `kind' stands for.
validatePingResponsePacket(p, identifier, packet) ==
  /\ packet.kind = "echoReply"
  /\ packet.identifier = identifier
  /\ validateSequenceNumber(p, packet.sequenceNumber)
=============================================================================
