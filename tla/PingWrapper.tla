---------------------------- MODULE PingWrapper -----------------------------
(***************************************************************************)
(* PingWrapper (src/LANScan/PingWrapper.swift): one probe of each host,    *)
(* made of a SimplePing object and a 1.5 s timer, all on the main run      *)
(* loop, and the network the pings cross.  An action is one turn of the    *)
(* run loop: startPing, the CFHost's, the CFSocket's or the timer's        *)
(* callback, with every delegate method it calls and every call those make *)
(* back into SimplePing (SimplePingObject).                                *)
(*                                                                         *)
(* The network loses, delays, reorders and duplicates: a request on the    *)
(* wire may be answered never or often, and each answer reaches any of the *)
(* open ICMP sockets, since the kernel hands ICMP messages to all of them: *)
(* the answers to other programs' pings and to those of an earlier scan    *)
(* too, which no object here has sent.                                     *)
(***************************************************************************)
EXTENDS SimplePingObject, FiniteSets

CONSTANTS
  Hosts,         \* the host names probed
  Identifiers,   \* the values arc4random may give as ICMP identifier
  SocketBuffer   \* bound: the packets a socket holds before it drops the next

ASSUME PingWrapperAssumption ==
  /\ Hosts # {} /\ Identifiers # {}
  /\ SocketBuffer \in Nat \ {0}

VARIABLES
  ping,         \* [Hosts -> Object]: the wrapper's SimplePing
  timer,        \* [Hosts -> Timers]: timeoutTimer
  reports,      \* [Hosts -> Seq(BOOLEAN)]: the calls of completion so far
  started,      \* hosts whose startPing was called, which sets completion
  identifier,   \* [Hosts -> Identifiers]: chosen once by initWithHostName
  wire,         \* requests sent: host, identifier, sequence number
  inbox,        \* [Hosts -> packets waiting in the wrapper's socket]
  answered,     \* history: hosts that answered an echo request
  foreign       \* history: identifiers of the replies to others' pings

wrapper == <<ping, timer, reports, started>>
network == <<wire, inbox, answered, foreign>>
vars == <<ping, timer, reports, started, identifier, wire, inbox, answered,
          foreign>>

\* "fired": its callback runs or has run, and timeoutTimer still names it.
Timers == {"nil", "scheduled", "fired"}

Requests == [to : Hosts, identifier : Identifiers,
             sequenceNumber : SequenceNumbers]

TypeOK ==
  /\ ping \in [Hosts -> Object]
  /\ timer \in [Hosts -> Timers]
  /\ reports \in [Hosts -> Seq(BOOLEAN)]
  /\ started \in SUBSET Hosts
  /\ identifier \in [Hosts -> Identifiers]
  /\ wire \in SUBSET Requests
  /\ inbox \in [Hosts -> SUBSET Packets(Identifiers)]
  /\ answered \in SUBSET Hosts
  /\ foreign \in SUBSET Identifiers

-----------------------------------------------------------------------------
(* The methods, from the wrapper before the call to the wrapper after it.  *)
(* `valid' is what timer.isValid says inside the timer's own callback,     *)
(* where Foundation may have invalidated the one-shot timer already.       *)

Wrapper(h) == [ping |-> ping[h], timer |-> timer[h], reports |-> reports[h]]

\* mutant: the timer is not invalidated
stopPingKeepsTimer(w, valid) == [w EXCEPT !.ping = stop(@)]

\* mutant: the invalidated timer is not set to nil
stopPingKeepsInvalid(w, valid) ==
  [w EXCEPT !.ping = stop(@),
            !.timer = IF @ = "scheduled" THEN "invalid" ELSE @]

stopPing(w, valid) ==
  LET invalidated == w.timer = "scheduled" \/ (w.timer = "fired" /\ valid)
  IN  [w EXCEPT !.ping = stop(@),
                !.timer = IF invalidated THEN "nil" ELSE @]

\* mutant: completion is called and the probe goes on
hostFoundRunning(w, found, valid) == [w EXCEPT !.reports = Append(@, found)]

hostFound(w, found, valid) ==
  [stopPing(w, valid) EXCEPT !.reports = Append(@, found)]

\* mutant: a pinger that failed is stopped and nobody is told
didFailWithErrorSilent(w) == [w EXCEPT !.ping = stop(@)]

\* SimplePing's didFailWithError stops the object, then calls the delegate's.
didFailWithError(w) == hostFound([w EXCEPT !.ping = stop(@)], FALSE, TRUE)

\* sendPingWithData: on failure the delegate ends the probe, and the sequence
\* number of the object it stopped is advanced all the same.
send(w, delivered) ==
  LET told == IF delivered THEN w ELSE hostFound(w, FALSE, TRUE)
  IN  [told EXCEPT !.ping = advanceSequence(@)]

\* mutant: the ping is sent before the timer is scheduled
didStartSendFirst(w, delivered) ==
  [send(w, delivered) EXCEPT !.timer = "scheduled"]

\* mutant: no timer guards the probe
didStartUnguarded(w, delivered) == send(w, delivered)

didStartWithAddress(w, delivered) ==
  send([w EXCEPT !.timer = "scheduled"], delivered)

\* A turn that changes host h's wrapper to w.
Turn(h, w) ==
  /\ ping' = [ping EXCEPT ![h] = w.ping]
  /\ timer' = [timer EXCEPT ![h] = w.timer]
  /\ reports' = [reports EXCEPT ![h] = w.reports]

\* A closed socket's queue goes with it.
Drop(h, waiting) ==
  inbox' = [inbox EXCEPT ![h] = IF ping'[h].socket = 0 THEN {} ELSE waiting]

-----------------------------------------------------------------------------
(* The turns of the main run loop *)

Init ==
  /\ ping = [h \in Hosts |-> initWithHostName]
  /\ timer = [h \in Hosts |-> "nil"]
  /\ reports = [h \in Hosts |-> <<>>]
  /\ started = {}
  /\ identifier \in [Hosts -> Identifiers]
  /\ wire = {}
  /\ inbox = [h \in Hosts |-> {}]
  /\ answered = {}
  /\ foreign = {}

\* startPing is called once per wrapper (LANScanner.signalForPing); CFHost may
\* refuse at once, and then completion is called before startPing returns.
startPing(h) ==
  /\ h \notin started
  /\ started' = started \cup {h}
  /\ LET begun == [Wrapper(h) EXCEPT !.ping = createHost(@)]
     IN  Turn(h, begun) \/ Turn(h, didFailWithError(begun))
  /\ UNCHANGED <<identifier, network>>

\* The resolver answers with an error, or with no IPv4 address, or with one and
\* then socket() fails (the last of the three lists of addresses).
Resolved(h) == CFHost(ping[h].host) \in ping[h].sources

ResolveFails(h) ==
  /\ Resolved(h)
  /\ \/ Turn(h, didFailWithError(Wrapper(h)))
     \/ \E addresses \in {<<>>, <<"AF_INET6">>, <<"AF_INET6", "AF_INET">>} :
          LET address == firstAddress("v4", addresses)
              latched == [Wrapper(h) EXCEPT !.ping = latchAddress(@, address)]
          IN  Turn(h, didFailWithError(latched))
  /\ Drop(h, {})
  /\ UNCHANGED <<started, identifier, wire, answered, foreign>>

\* The resolver answers, the socket opens, and sendto succeeds or fails.
ResolveSucceeds(h) ==
  /\ Resolved(h)
  /\ \E delivered \in BOOLEAN :
       LET latched == latchAddress(ping[h], "AF_INET")
           opened == [Wrapper(h) EXCEPT !.ping = createSocket(latched)]
           request == [to |-> h, identifier |-> identifier[h],
                       sequenceNumber |-> ping[h].nextSequenceNumber]
       IN  /\ Turn(h, didStartWithAddress(opened, delivered))
           /\ wire' = IF delivered THEN wire \cup {request} ELSE wire
  /\ Drop(h, {})
  /\ UNCHANGED <<started, identifier, answered, foreign>>

\* readData: recvfrom fails, or takes one packet; a valid one ends the probe.
Readable(h) == CFSocket(ping[h].socket) \in ping[h].sources

ReadFails(h) ==
  /\ Readable(h)
  /\ Turn(h, didFailWithError(Wrapper(h)))
  /\ Drop(h, {})
  /\ UNCHANGED <<started, identifier, wire, answered, foreign>>

ReadPacket(h) ==
  /\ Readable(h)
  /\ \E packet \in inbox[h] :
       /\ Turn(h, IF validatePingResponsePacket(ping[h], identifier[h], packet)
                  THEN hostFound(Wrapper(h), TRUE, TRUE)
                  ELSE Wrapper(h))
       /\ Drop(h, inbox[h] \ {packet})
  /\ UNCHANGED <<started, identifier, wire, answered, foreign>>

timeout(h) ==
  /\ timer[h] = "scheduled"
  /\ \E valid \in BOOLEAN :
       Turn(h, hostFound([Wrapper(h) EXCEPT !.timer = "fired"], FALSE, valid))
  /\ Drop(h, inbox[h])
  /\ UNCHANGED <<started, identifier, wire, answered, foreign>>

-----------------------------------------------------------------------------
(* The network *)

\* The sockets that can take a packet; a full one drops it.
Receiving ==
  {h \in Hosts : ping[h].socket # 0 /\ Cardinality(inbox[h]) < SocketBuffer}

\* A host answers a request, now or again; the reply reaches some sockets.
Reply ==
  \E request \in wire, reached \in SUBSET Receiving :
    /\ answered' = answered \cup {request.to}
    /\ LET packet == [kind |-> "echoReply", identifier |-> request.identifier,
                      sequenceNumber |-> request.sequenceNumber]
       IN  inbox' = [h \in Hosts |->
                       IF h \in reached THEN inbox[h] \cup {packet} ELSE inbox[h]]
    /\ UNCHANGED <<wrapper, identifier, wire, foreign>>

\* Any ICMP message that no request of these pingers caused: the echo reply to a
\* ping of another program or of an earlier scan, with whatever identifier and
\* number that has, or a message of another type.
OtherTraffic ==
  \E h \in Receiving, packet \in Packets(Identifiers) :
    /\ inbox' = [inbox EXCEPT ![h] = @ \cup {packet}]
    /\ foreign' = IF packet.kind = "echoReply"
                  THEN foreign \cup {packet.identifier} ELSE foreign
    /\ UNCHANGED <<wrapper, identifier, wire, answered>>

HostResolveCallback(h) == ResolveFails(h) \/ ResolveSucceeds(h)

Next ==
  \/ \E h \in Hosts :
       \/ startPing(h) \/ HostResolveCallback(h)
       \/ ReadFails(h) \/ ReadPacket(h) \/ timeout(h)
  \/ Reply \/ OtherTraffic

Safety == Init /\ [][Next]_vars

\* The resolver always answers and a scheduled timer fires; nothing is assumed
\* of the network, which need never deliver a packet.
Spec == Safety /\ \A h \in Hosts : /\ WF_vars(HostResolveCallback(h))
                                   /\ WF_vars(timeout(h))

-----------------------------------------------------------------------------
(* Properties *)

(* The phases of a started probe, as predicates on the wrapper. *)

Resolving(w) ==
  /\ w.ping.host # 0 /\ w.ping.socket = 0 /\ w.ping.hostAddress = "nil"
  /\ w.ping.sources = {CFHost(w.ping.host)}
  /\ w.timer = "nil" /\ w.reports = <<>>

Waiting(w) ==
  /\ w.ping.host = 0 /\ w.ping.socket # 0 /\ w.ping.hostAddress # "nil"
  /\ w.ping.sources = {CFSocket(w.ping.socket)}
  /\ w.timer = "scheduled" /\ w.reports = <<>>

Quiet(w) ==
  /\ w.ping.host = 0 /\ w.ping.socket = 0 /\ w.ping.hostAddress = "nil"
  /\ w.ping.sources = {} /\ w.timer # "scheduled"

\* The completion of a wrapper is called at most once, whichever of the send
\* failure, the reply, the read error and the timeout come and in what order:
\* hostFound does not guard against a second call, only stopPing does.
AtMostOneReport == \A h \in Hosts : Len(reports[h]) <= 1

\* Once a host is reported, nothing of its probe can call back: no resolver, no
\* socket, no timer.  What is in flight on the network stays unread.
ReportedIsQuiet == \A h \in Hosts : reports[h] # <<>> => Quiet(Wrapper(h))

\* A probe that has not reported yet will be woken: by its resolver, or by its
\* timer.  A socket alone would not do, the reply may be lost.
PendingHasWakeup ==
  \A h \in started : reports[h] = <<>> => Resolving(Wrapper(h)) \/ Waiting(Wrapper(h))

\* Nobody else's replies carry this host's identifier: no other program's, no
\* earlier scan's; and no other pinger of the scan has it.
NoForeigner(h) == identifier[h] \notin foreign
Distinct(h) == \A g \in Hosts : identifier[g] = identifier[h] => g = h

\* A host whose identifier nobody else uses is reported found only if it answered,
\* though every reply reaches every socket and readData ignores its source.
FoundIsAnsweredIfDistinct ==
  \A h \in Hosts :
    reports[h] = <<TRUE>> /\ Distinct(h) /\ NoForeigner(h) => h \in answered

\* SimplePing.h has the random identifier tell an object's own pings apart: the
\* same without the assumption that no two of the scan's objects drew the same one.
FoundIsAnsweredAlways ==
  \A h \in Hosts : reports[h] = <<TRUE>> /\ NoForeigner(h) => h \in answered

\* Every probe that is started is reported in the end.
EventuallyReported == \A h \in Hosts : h \in started ~> reports[h] # <<>>

\* The probes of all hosts implement HostProbe.
result ==
  [h \in Hosts |->
     CASE reports[h] = <<TRUE>>  -> "found"
       [] reports[h] = <<FALSE>> -> "notFound"
       [] reports[h] = <<>>      -> IF h \in started THEN "pending" ELSE "idle"
       [] OTHER                  -> "reported twice"]

Probe == INSTANCE HostProbe WITH Hosts <- Hosts, result <- result

ImplementsHostProbe == Probe!Spec
=============================================================================
