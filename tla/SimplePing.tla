----------------------------- MODULE SimplePing -----------------------------
(***************************************************************************)
(* A SimplePing object (src/LANScan/SimplePing.m) used by any client that  *)
(* keeps to the rules of SimplePing.h: start only a stopped object, send   *)
(* only between didStartWithAddress and the end of the run, stop whenever  *)
(* it likes.  In every delegate callback the client may return, stop the   *)
(* object, or stop and restart it from inside the callback, so that the    *)
(* handler's code after the callback runs on an object the client changed. *)
(*                                                                         *)
(* An action is one turn of the run loop: a call of the client, or a       *)
(* CFHost or CFSocket source of `ping.sources' calling back.               *)
(***************************************************************************)
EXTENDS SimplePingObject

CONSTANTS
  Style,       \* addressStyle
  MaxStarts,   \* bound: how often the client starts the object
  MaxSends     \* bound: how many pings it sends in all

ASSUME SimplePingAssumption ==
  Style \in Styles /\ MaxStarts \in Nat /\ MaxSends \in Nat

VARIABLES
  ping,     \* the object
  client,   \* what the client has been told: "stopped", "starting", "started"
  calls,    \* the delegate callbacks of the last turn: name, object, client
  starts,   \* how often start was called
  sent      \* how many pings were sent, so the last has number sent - 1

vars == <<ping, client, calls, starts, sent>>

Own == "own"            \* this object's identifier
Identifiers == {Own, "other"}

CallbackNames == {"didStartWithAddress", "didFailWithError", "didSendPacket",
                  "didFailToSendPacket", "didReceivePingResponsePacket",
                  "didReceiveUnexpectedPacket"}
ClientStates == {"stopped", "starting", "started"}

TypeOK ==
  /\ ping \in Object
  /\ client \in ClientStates
  /\ calls \in Seq([name : CallbackNames, object : Object, client : ClientStates])
  /\ starts \in 0 .. MaxStarts
  /\ sent \in 0 .. MaxSends

-----------------------------------------------------------------------------
(* A turn is built from a record of what it changes. *)

Turn == [ping |-> ping, client |-> client, calls |-> <<>>]

\* The delegate method is called; what it sees is recorded.
Callback(w, name) ==
  [w EXCEPT !.calls =
     Append(@, [name |-> name, object |-> w.ping, client |-> w.client])]

\* The client calls stop.
StopCall(w) == [w EXCEPT !.ping = stop(@), !.client = "stopped"]

\* mutant: the delegate hears of the failure before the object is stopped
didFailWithErrorFirst(w) == StopCall(Callback(w, "didFailWithError"))

didFailWithError(w) ==
  Callback([w EXCEPT !.ping = stop(@), !.client = "stopped"], "didFailWithError")

\* The client calls start; CFHostStartInfoResolution may refuse at once.
StartCall(w, resolving) ==
  LET begun == [w EXCEPT !.ping = createHost(@), !.client = "starting"]
  IN  IF resolving THEN begun ELSE didFailWithError(begun)

\* What the client does inside the callback it has just received.
Reactions == {"return", "stop", "restart", "restartRefused"}
React(w, r) ==
  CASE r = "return"         -> w
    [] r = "stop"           -> StopCall(w)
    [] r = "restart"        -> StartCall(StopCall(w), TRUE)
    [] r = "restartRefused" -> StartCall(StopCall(w), FALSE)

Restarts(r) == IF r \in {"restart", "restartRefused"} THEN 1 ELSE 0

\* The turn ends: its starts and its sends are counted.
Becomes(w, newStarts, newSends) ==
  /\ starts + newStarts <= MaxStarts
  /\ ping' = w.ping
  /\ client' = w.client
  /\ calls' = w.calls
  /\ starts' = starts + newStarts
  /\ sent' = sent + newSends

-----------------------------------------------------------------------------
(* The calls of the client *)

Init ==
  /\ ping = initWithHostName
  /\ client = "stopped"
  /\ calls = <<>>
  /\ starts = 0
  /\ sent = 0

start ==
  /\ client = "stopped"
  /\ \/ Becomes(StartCall(Turn, TRUE), 1, 0)
     \/ \E r \in Reactions :
          Becomes(React(StartCall(Turn, FALSE), r), 1 + Restarts(r), 0)

stopByClient ==
  /\ client # "stopped"
  /\ Becomes(StopCall(Turn), 0, 0)

\* sendPingWithData on a turn: sendto succeeds or not, the delegate is told,
\* and only then does the sequence number move on.
sendPingWithData(w, delivered, r) ==
  LET told == Callback(w, IF delivered /\ w.ping.socket # 0
                          THEN "didSendPacket" ELSE "didFailToSendPacket")
  IN  [React(told, r) EXCEPT !.ping = advanceSequence(@)]

Send ==
  /\ client = "started" /\ sent < MaxSends
  /\ \E delivered \in BOOLEAN, r \in Reactions :
       Becomes(sendPingWithData(Turn, delivered, r), Restarts(r), 1)

-----------------------------------------------------------------------------
(* The callbacks of the run loop *)

\* startWithHostAddress: socket() fails, or the socket is scheduled and the
\* delegate hears didStartWithAddress.
startWithHostAddress(w, opened) ==
  IF ~opened THEN didFailWithError(w)
  ELSE Callback([w EXCEPT !.ping = createSocket(@), !.client = "started"],
                "didStartWithAddress")

\* hostResolutionDone, with the addresses the resolver found.
hostResolutionDone(w, addresses, opened) ==
  LET address == firstAddress(Style, addresses)
      latched == [w EXCEPT !.ping = latchAddress(@, address)]
  IN  IF address = "nil" THEN didFailWithError(latched)
      ELSE startWithHostAddress(latched, opened)

\* Answers of the resolver: up to two addresses.
Answers == {<<>>} \cup {<<a>> : a \in Addresses} \cup (Addresses \X Addresses)

HostResolveCallback ==
  \E source \in ping.sources :
    /\ source.kind = "CFHost"
    /\ \E r \in Reactions :
         \/ Becomes(React(didFailWithError(Turn), r), Restarts(r), 0)
         \/ \E addresses \in Answers, opened \in BOOLEAN :
              Becomes(React(hostResolutionDone(Turn, addresses, opened), r),
                      Restarts(r), 0)

\* readData: recvfrom fails, or one packet is matched and handed up.
readData(w, packet) ==
  Callback(w, IF validatePingResponsePacket(w.ping, Own, packet)
              THEN "didReceivePingResponsePacket"
              ELSE "didReceiveUnexpectedPacket")

SocketReadCallback ==
  \E source \in ping.sources :
    /\ source.kind = "CFSocket"
    /\ \E r \in Reactions :
         \/ Becomes(React(didFailWithError(Turn), r), Restarts(r), 0)
         \/ \E packet \in Packets(Identifiers) :
              Becomes(React(readData(Turn, packet), r), Restarts(r), 0)

Next == start \/ stopByClient \/ Send \/ HostResolveCallback \/ SocketReadCallback

\* The resolver always answers, with an error if need be, and a run loop turn
\* that is due comes.
Spec == Init /\ [][Next]_vars /\ WF_vars(HostResolveCallback)

-----------------------------------------------------------------------------
(* Properties *)

Stopped(p) == p.host = 0 /\ p.socket = 0 /\ p.hostAddress = "nil"

\* The run loop can call into the object only through the CFHost and the
\* CFSocket its fields name: what the assertions of HostResolveCallback and
\* SocketReadCallback, and of dealloc, rely on after any mix of stops and
\* restarts made inside callbacks.
SourcesAreCurrent ==
  ping.sources = {CFHost(n) : n \in {ping.host} \ {0}}
                   \cup {CFSocket(n) : n \in {ping.socket} \ {0}}

\* The object and the client agree on the phase of the run: resolving with
\* no address and no socket, or started with both and no resolver, or stopped
\* with none.  It makes the assertions of start and sendPingWithData hold and
\* the EBADF path of sendPingWithData dead for a client that keeps the rules.
PhaseAgreed ==
  CASE client = "stopped"  -> Stopped(ping)
    [] client = "starting" -> /\ ping.host # 0 /\ ping.socket = 0
                              /\ ping.hostAddress = "nil"
    [] client = "started"  -> /\ ping.host = 0 /\ ping.socket # 0
                              /\ ping.hostAddress # "nil"

\* SimplePing.h: when didFailWithError is called the object has stopped; at
\* every other callback it is started, with its address.
CallbackContract ==
  \A i \in DOMAIN calls :
    IF calls[i].name = "didFailWithError" THEN Stopped(calls[i].object)
    ELSE /\ calls[i].client = "started"
         /\ calls[i].object.hostAddress # "nil"
         /\ calls[i].object.socket # 0

\* The numbers of the last n pings sent, whatever runs they were sent in.
LastSent(n) ==
  {(sent - k) % SequenceModulus : k \in {j \in 1 .. n : j <= sent}}

\* No reply is lost by the matching: a reply to one of the last ReplyWindow - 1
\* pings passes validateSequenceNumber, before and after wrapping, and however
\* often the object was stopped and restarted in between.
RecentAccepted ==
  \A s \in LastSent(ReplyWindow - 1) : validateSequenceNumber(ping, s)

\* The comment of validateSequenceNumber: once wrapped, a number is accepted
\* when it is within the last ReplyWindow (120) numbers sent.
AcceptedAreLastSent ==
  ping.nextSequenceNumberHasWrapped =>
    \A s \in SequenceNumbers :
      validateSequenceNumber(ping, s) => s \in LastSent(ReplyWindow)

\* Every start is answered: the CFHost it made is given up in the end, by an
\* address, a failure or a stop.  Stated for each CFHost, because a client
\* that restarts in every didFailWithError can stay in "starting" for ever.
StartAnswered ==
  \A n \in 1 .. 2 * MaxStarts : ping.host = n ~> ping.host # n
=============================================================================
