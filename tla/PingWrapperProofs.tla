-------------------------- MODULE PingWrapperProofs --------------------------
(***************************************************************************)
(* Proofs about PingWrapper, for every set of hosts and identifiers and    *)
(* every sequence modulus. The inductive invariant says in which of four   *)
(* phases each probe is; in each phase exactly the callbacks that belong   *)
(* to it can still come, which is what makes one report per probe.         *)
(*                                                                         *)
(* The probes implement HostProbe, and an invariant that follows an        *)
(* identifier from the request to the report shows who answered.           *)
(***************************************************************************)
EXTENDS PingWrapper, TLAPS

\* A wrapper whose startPing has not been called.
Idle(w) == Quiet(w) /\ w.timer = "nil" /\ w.reports = <<>>

\* A wrapper that has called its completion, once.
Reported(w) == Quiet(w) /\ Len(w.reports) = 1

WrapperType == [ping : Object, timer : Timers, reports : Seq(BOOLEAN)]

Phase(h) ==
  IF h \in started
  THEN Resolving(Wrapper(h)) \/ Waiting(Wrapper(h)) \/ Reported(Wrapper(h))
  ELSE Idle(Wrapper(h))

IInv == TypeOK /\ \A h \in Hosts : Phase(h)

-----------------------------------------------------------------------------
(* The object's methods *)

\* What the object of a wrapper can look like between two turns.
NothingLeft(p) ==
  /\ p.host = 0 /\ p.socket = 0 /\ p.sources = {}

HostOnly(p) ==
  p.host # 0 /\ p.socket = 0 /\ p.sources = {CFHost(p.host)}

SocketOnly(p) ==
  p.host = 0 /\ p.socket # 0 /\ p.sources = {CFSocket(p.socket)}

\* stop leaves an object of the right type that nothing can call into.
LEMMA StopStops ==
  ASSUME NEW p \in Object, NothingLeft(p) \/ HostOnly(p) \/ SocketOnly(p)
  PROVE  /\ stop(p) \in Object
         /\ NothingLeft(stop(p)) /\ stop(p).hostAddress = "nil"
<1>1. stopHostResolution(p) \in Object
  BY DEF Object, stopHostResolution
<1>2. stopSocket(stopHostResolution(p)) \in Object
  BY <1>1 DEF Object, stopSocket
<1>3. stop(p) \in Object
  BY <1>2 DEF Object, stop
<1>4. NothingLeft(stopSocket(stopHostResolution(p)))
  BY DEF Object, NothingLeft, HostOnly, SocketOnly, stopSocket,
         stopHostResolution
<1>5. QED
  BY <1>2, <1>3, <1>4 DEF stop, NothingLeft, Object

\* start leaves an object that only its CFHost can call into.
LEMMA CreateHostSchedules ==
  ASSUME NEW p \in Object, NothingLeft(p)
  PROVE  /\ createHost(p) \in Object /\ HostOnly(createHost(p))
         /\ createHost(p).hostAddress = p.hostAddress
<1> DEFINE n == p.made + 1
<1>1. n \in Nat /\ n # 0
  BY DEF Object
<1>2. CFHost(n) \in [kind : Kinds, id : Nat]
  BY <1>1 DEF CFHost, Kinds
<1> HIDE DEF n
<1>3. p.sources \cup {CFHost(n)} = {CFHost(n)}
  BY DEF NothingLeft
<1>4. createHost(p) = [p EXCEPT !.host = n, !.made = n, !.sources = {CFHost(n)}]
  BY <1>3 DEF createHost, n
<1>5. {CFHost(n)} \in SUBSET [kind : Kinds, id : Nat]
  BY <1>2
<1>6. createHost(p) \in Object
  BY <1>1, <1>4, <1>5 DEF Object
<1>7. QED
  BY <1>1, <1>4, <1>6 DEF Object, NothingLeft, HostOnly

\* hostResolutionDone finds an address, or none, in each of the lists with which
\* a resolution can end badly.
LEMMA FirstAddressTyped ==
  \A addresses \in {<<>>, <<"AF_INET6">>, <<"AF_INET6", "AF_INET">>} :
    firstAddress("v4", addresses) \in Families \cup {"nil"}
<1>1. firstAddress("v4", <<>>) = "nil"
  BY DEF firstAddress
<1>2. firstAddress("v4", <<"AF_INET6">>) = "nil"
  BY DEF firstAddress, Suits
<1>3. firstAddress("v4", <<"AF_INET6", "AF_INET">>) = "AF_INET"
  <2>1. {i \in DOMAIN <<"AF_INET6", "AF_INET">> :
           Suits("v4", <<"AF_INET6", "AF_INET">>[i])} = {2}
    BY DEF Suits
  <2>2. (CHOOSE i \in {2} : \A j \in {2} : i <= j) = 2
    OBVIOUS
  <2>3. QED
    BY <2>1, <2>2 DEF firstAddress
<1>4. QED
  BY <1>1, <1>2, <1>3 DEF Families

\* Latching the address ends the resolution.
LEMMA LatchEndsResolution ==
  ASSUME NEW p \in Object, HostOnly(p), NEW a \in Families \cup {"nil"}
  PROVE  /\ latchAddress(p, a) \in Object /\ NothingLeft(latchAddress(p, a))
         /\ latchAddress(p, a).hostAddress = a
<1> DEFINE q == [p EXCEPT !.hostAddress = a]
<1>1. q \in Object /\ HostOnly(q) /\ q.hostAddress = a
  BY DEF Object, HostOnly
<1>2. QED
  BY <1>1 DEF latchAddress, stopHostResolution, Object, HostOnly, NothingLeft

\* An opened socket is all that can call into the object.
LEMMA CreateSocketSchedules ==
  ASSUME NEW p \in Object, NothingLeft(p)
  PROVE  /\ createSocket(p) \in Object /\ SocketOnly(createSocket(p))
         /\ createSocket(p).hostAddress = p.hostAddress
<1> DEFINE n == p.made + 1
<1>1. n \in Nat /\ n # 0
  BY DEF Object
<1>2. CFSocket(n) \in [kind : Kinds, id : Nat]
  BY <1>1 DEF CFSocket, Kinds
<1> HIDE DEF n
<1>3. p.sources \cup {CFSocket(n)} = {CFSocket(n)}
  BY DEF NothingLeft
<1>4. createSocket(p) = [p EXCEPT !.socket = n, !.made = n, !.sources = {CFSocket(n)}]
  BY <1>3 DEF createSocket, n
<1>5. {CFSocket(n)} \in SUBSET [kind : Kinds, id : Nat]
  BY <1>2
<1>6. createSocket(p) \in Object
  BY <1>1, <1>4, <1>5 DEF Object
<1>7. QED
  BY <1>1, <1>4, <1>6 DEF Object, NothingLeft, SocketOnly

\* Advancing the sequence number keeps it a uint16_t and changes nothing that
\* decides which callbacks can come.
LEMMA AdvanceKeeps ==
  ASSUME NEW p \in Object
  PROVE  /\ advanceSequence(p) \in Object
         /\ advanceSequence(p).host = p.host
         /\ advanceSequence(p).socket = p.socket
         /\ advanceSequence(p).sources = p.sources
         /\ advanceSequence(p).hostAddress = p.hostAddress
<1> DEFINE next == (p.nextSequenceNumber + 1) % SequenceModulus
<1>1. p.nextSequenceNumber \in Nat
  BY SequenceAssumption DEF Object, SequenceNumbers
<1>2. next \in SequenceNumbers
  BY <1>1, SequenceAssumption DEF SequenceNumbers
<1> HIDE DEF next
<1>3. advanceSequence(p)
        = [p EXCEPT !.nextSequenceNumber = next,
                    !.nextSequenceNumberHasWrapped = @ \/ next = 0]
  BY DEF advanceSequence, next
<1>4. (p.nextSequenceNumberHasWrapped \/ next = 0) \in BOOLEAN
  OBVIOUS
<1>5. QED
  BY <1>2, <1>3, <1>4 DEF Object
-----------------------------------------------------------------------------
(* The wrapper's methods *)

Stoppable(p) == NothingLeft(p) \/ HostOnly(p) \/ SocketOnly(p)

\* hostFound on a probe that has not reported ends it with its one report.
LEMMA HostFoundReports ==
  ASSUME NEW w \in WrapperType, Stoppable(w.ping), w.reports = <<>>,
         NEW found \in BOOLEAN, NEW valid \in BOOLEAN
  PROVE  /\ hostFound(w, found, valid) \in WrapperType
         /\ Reported(hostFound(w, found, valid))
         /\ hostFound(w, found, valid).reports = <<found>>
<1> DEFINE s == stopPing(w, valid)
<1>1. /\ stop(w.ping) \in Object
      /\ NothingLeft(stop(w.ping)) /\ stop(w.ping).hostAddress = "nil"
  BY StopStops DEF Stoppable, WrapperType
<1>2. /\ s \in WrapperType /\ s.ping = stop(w.ping)
      /\ s.timer # "scheduled" /\ s.reports = <<>>
  BY <1>1 DEF stopPing, WrapperType, Timers
<1>3. hostFound(w, found, valid) = [s EXCEPT !.reports = Append(@, found)]
  BY DEF hostFound
<1> HIDE DEF s
<1> DEFINE r == <<found>>
<1>4. Append(<<>>, found) = r /\ r \in Seq(BOOLEAN) /\ Len(r) = 1
  OBVIOUS
<1> HIDE DEF r
<1>5. hostFound(w, found, valid) = [s EXCEPT !.reports = r]
  BY <1>2, <1>3, <1>4
<1>6. QED
  BY <1>1, <1>2, <1>4, <1>5 DEF WrapperType, Reported, Quiet, NothingLeft, r

\* A failing pinger ends the probe with its one report.
LEMMA DidFailReports ==
  ASSUME NEW w \in WrapperType, Stoppable(w.ping), w.reports = <<>>
  PROVE  /\ didFailWithError(w) \in WrapperType
         /\ Reported(didFailWithError(w))
         /\ didFailWithError(w).reports = <<FALSE>>
<1> DEFINE s == [w EXCEPT !.ping = stop(@)]
<1>1. s \in WrapperType /\ Stoppable(s.ping) /\ s.reports = <<>>
  BY StopStops DEF Stoppable, WrapperType
<1> HIDE DEF s
<1>2. didFailWithError(w) = hostFound(s, FALSE, TRUE)
  BY DEF didFailWithError, s
<1>3. /\ hostFound(s, FALSE, TRUE) \in WrapperType
      /\ Reported(hostFound(s, FALSE, TRUE))
      /\ hostFound(s, FALSE, TRUE).reports = <<FALSE>>
  BY <1>1, HostFoundReports
<1>4. QED
  BY <1>2, <1>3

\* didStartWithAddress leaves the probe waiting with its timer scheduled when
\* the ping was sent, and reported when it was not.
LEMMA DidStartWaitsOrReports ==
  ASSUME NEW w \in WrapperType, SocketOnly(w.ping),
         w.ping.hostAddress # "nil", w.reports = <<>>, NEW delivered \in BOOLEAN
  PROVE  /\ didStartWithAddress(w, delivered) \in WrapperType
         /\ delivered => Waiting(didStartWithAddress(w, delivered))
         /\ ~delivered => /\ Reported(didStartWithAddress(w, delivered))
                          /\ didStartWithAddress(w, delivered).reports = <<FALSE>>
<1> DEFINE t == [w EXCEPT !.timer = "scheduled"]
           told == IF delivered THEN t ELSE hostFound(t, FALSE, TRUE)
<1>1. /\ t \in WrapperType /\ t.ping = w.ping
      /\ t.timer = "scheduled" /\ t.reports = <<>>
  BY DEF WrapperType, Timers
<1>2. didStartWithAddress(w, delivered)
        = [told EXCEPT !.ping = advanceSequence(@)]
  BY DEF didStartWithAddress, send
<1>3. CASE delivered
  <2>1. told = t
    BY <1>3
  <2>2. /\ advanceSequence(t.ping) \in Object
        /\ SocketOnly(advanceSequence(t.ping))
        /\ advanceSequence(t.ping).hostAddress # "nil"
    BY <1>1, AdvanceKeeps DEF WrapperType, SocketOnly
  <2>3. QED
    BY <1>1, <1>2, <1>3, <2>1, <2>2 DEF WrapperType, Waiting, SocketOnly
<1>4. CASE ~delivered
  <2>1. told = hostFound(t, FALSE, TRUE)
    BY <1>4
  <2>2. told \in WrapperType /\ Reported(told) /\ told.reports = <<FALSE>>
    BY <1>1, <2>1, HostFoundReports DEF Stoppable
  <2> HIDE DEF told
  <2>3. /\ advanceSequence(told.ping) \in Object
        /\ advanceSequence(told.ping).host = told.ping.host
        /\ advanceSequence(told.ping).socket = told.ping.socket
        /\ advanceSequence(told.ping).sources = told.ping.sources
        /\ advanceSequence(told.ping).hostAddress = told.ping.hostAddress
    BY <2>2, AdvanceKeeps DEF WrapperType
  <2>4. QED
    BY <1>2, <1>4, <2>2, <2>3 DEF WrapperType, Reported, Quiet
<1>5. QED
  BY <1>3, <1>4

-----------------------------------------------------------------------------
(* The inductive invariant *)

\* The wrapper a turn leaves behind.
Settled(w) == Resolving(w) \/ Waiting(w) \/ Reported(w)

\* A turn that leaves one started host's wrapper typed and in a phase keeps the
\* invariant: the others' wrappers are not touched.
LEMMA TurnKeepsPhases ==
  ASSUME IInv, NEW h \in Hosts, NEW w \in WrapperType, Settled(w), Turn(h, w),
         started' = started \cup {h}
  PROVE  /\ ping' \in [Hosts -> Object] /\ timer' \in [Hosts -> Timers]
         /\ reports' \in [Hosts -> Seq(BOOLEAN)] /\ started' \in SUBSET Hosts
         /\ \A g \in Hosts : Phase(g)'
<1>1. /\ ping' \in [Hosts -> Object] /\ timer' \in [Hosts -> Timers]
      /\ reports' \in [Hosts -> Seq(BOOLEAN)] /\ started' \in SUBSET Hosts
  BY DEF IInv, TypeOK, Turn, WrapperType
<1>2. Wrapper(h)' = w
  BY DEF IInv, TypeOK, Turn, Wrapper, WrapperType
<1>3. ASSUME NEW g \in Hosts, g # h
      PROVE  Wrapper(g)' = Wrapper(g) /\ (g \in started' <=> g \in started)
  BY <1>3 DEF IInv, TypeOK, Turn, Wrapper
<1>4. ASSUME NEW g \in Hosts
      PROVE  Phase(g)'
  <2>1. CASE g = h
    BY <1>2, <2>1 DEF Phase, Settled, Resolving, Waiting, Reported, Quiet
  <2>2. CASE g # h
    <3>1. Phase(g)
      BY DEF IInv
    <3>2. QED
      BY <1>3, <2>2, <3>1
         DEF Phase, Resolving, Waiting, Reported, Idle, Quiet
  <2>3. QED
    BY <2>1, <2>2
<1>5. QED
  BY <1>1, <1>4

\* What a network step or a stutter leaves alone is all a phase depends on.
LEMMA NetworkKeepsPhases ==
  ASSUME IInv, UNCHANGED wrapper
  PROVE  /\ ping' \in [Hosts -> Object] /\ timer' \in [Hosts -> Timers]
         /\ reports' \in [Hosts -> Seq(BOOLEAN)] /\ started' \in SUBSET Hosts
         /\ \A g \in Hosts : Phase(g)'
BY DEF IInv, TypeOK, wrapper, Phase, Wrapper, Resolving, Waiting, Reported,
       Idle, Quiet

\* Every wrapper is typed, and its guards tell its phase.
LEMMA WrapperFacts ==
  ASSUME IInv, NEW h \in Hosts
  PROVE  /\ Wrapper(h) \in WrapperType
         /\ Wrapper(h).ping = ping[h] /\ Wrapper(h).timer = timer[h]
         /\ Wrapper(h).reports = reports[h]
         /\ h \notin started => Idle(Wrapper(h))
         /\ Resolved(h) => h \in started /\ Resolving(Wrapper(h))
         /\ Readable(h) => h \in started /\ Waiting(Wrapper(h))
         /\ timer[h] = "scheduled" => h \in started /\ Waiting(Wrapper(h))
<1>1. /\ Wrapper(h) \in WrapperType
      /\ Wrapper(h).ping = ping[h] /\ Wrapper(h).timer = timer[h]
      /\ Wrapper(h).reports = reports[h]
  BY DEF IInv, TypeOK, Wrapper, WrapperType
<1>2. Phase(h)
  BY DEF IInv
<1>3. h \notin started => Idle(Wrapper(h))
  BY <1>2 DEF Phase
<1>4. Resolved(h) => h \in started /\ Resolving(Wrapper(h))
  BY <1>1, <1>2 DEF Phase, Resolved, Resolving, Waiting, Reported, Idle, Quiet,
                    CFHost, CFSocket
<1>5. Readable(h) => h \in started /\ Waiting(Wrapper(h))
  BY <1>1, <1>2 DEF Phase, Readable, Resolving, Waiting, Reported, Idle, Quiet,
                    CFHost, CFSocket
<1>6. timer[h] = "scheduled" => h \in started /\ Waiting(Wrapper(h))
  BY <1>1, <1>2 DEF Phase, Resolving, Waiting, Reported, Idle, Quiet
<1>7. QED
  BY <1>1, <1>3, <1>4, <1>5, <1>6

\* A socket's queue stays a set of packets when it shrinks or is dropped.
LEMMA DropTyped ==
  ASSUME IInv, NEW h \in Hosts, NEW waiting \in SUBSET inbox[h], Drop(h, waiting)
  PROVE  inbox' \in [Hosts -> SUBSET Packets(Identifiers)]
BY DEF IInv, TypeOK, Drop

LEMMA InitInv == Init => IInv
<1> SUFFICES ASSUME Init PROVE IInv
  OBVIOUS
<1>1. initWithHostName \in Object
  BY SequenceAssumption
     DEF initWithHostName, Object, SequenceNumbers
<1>2. TypeOK
  BY <1>1 DEF Init, TypeOK, Timers
<1>3. ASSUME NEW h \in Hosts PROVE Phase(h)
  BY DEF Init, Phase, Idle, Quiet, Wrapper, initWithHostName
<1>4. QED
  BY <1>2, <1>3 DEF IInv

-----------------------------------------------------------------------------
(* One lemma per action: what its turn leaves behind *)

LEMMA StartPingInv ==
  ASSUME IInv, NEW h \in Hosts, startPing(h)
  PROVE  IInv'
<1> DEFINE begun == [Wrapper(h) EXCEPT !.ping = createHost(@)]
<1>1. /\ begun \in WrapperType /\ HostOnly(begun.ping)
      /\ begun.reports = <<>> /\ Resolving(begun)
  BY WrapperFacts, CreateHostSchedules
     DEF startPing, WrapperType, Idle, Quiet, NothingLeft, HostOnly, Resolving
<1>2. /\ didFailWithError(begun) \in WrapperType
      /\ Reported(didFailWithError(begun))
  BY <1>1, DidFailReports DEF Stoppable
<1>3. PICK w \in WrapperType : Settled(w) /\ Turn(h, w)
  BY <1>1, <1>2 DEF startPing, Settled
<1>4. started' = started \cup {h} /\ UNCHANGED <<identifier, network>>
  BY DEF startPing
<1>5. QED
  BY <1>3, <1>4, TurnKeepsPhases DEF IInv, TypeOK, network

LEMMA ResolveFailsInv ==
  ASSUME IInv, NEW h \in Hosts, ResolveFails(h)
  PROVE  IInv'
<1>1. /\ Wrapper(h) \in WrapperType /\ Resolving(Wrapper(h))
      /\ h \in started /\ HostOnly(Wrapper(h).ping)
  BY WrapperFacts DEF ResolveFails, Resolving, HostOnly
<1>2. /\ didFailWithError(Wrapper(h)) \in WrapperType
      /\ Reported(didFailWithError(Wrapper(h)))
  BY <1>1, DidFailReports DEF Stoppable, Resolving
<1>3. ASSUME NEW a \in Families \cup {"nil"}
      PROVE  LET latched == [Wrapper(h) EXCEPT !.ping = latchAddress(@, a)]
             IN  /\ didFailWithError(latched) \in WrapperType
                 /\ Reported(didFailWithError(latched))
  <2> DEFINE latched == [Wrapper(h) EXCEPT !.ping = latchAddress(@, a)]
  <2>1. /\ latched \in WrapperType /\ NothingLeft(latched.ping)
        /\ latched.reports = <<>>
    BY <1>1, LatchEndsResolution DEF WrapperType, Resolving
  <2>2. QED
    BY <2>1, DidFailReports DEF Stoppable
<1>4. \A addresses \in {<<>>, <<"AF_INET6">>, <<"AF_INET6", "AF_INET">>} :
        firstAddress("v4", addresses) \in Families \cup {"nil"}
  BY FirstAddressTyped
<1>5. PICK w \in WrapperType : Settled(w) /\ Turn(h, w)
  BY <1>2, <1>3, <1>4 DEF ResolveFails, Settled
<1>6. inbox' \in [Hosts -> SUBSET Packets(Identifiers)]
  BY DropTyped DEF ResolveFails
<1>7. started' = started \cup {h} /\ UNCHANGED <<identifier, wire, answered, foreign>>
  BY <1>1 DEF ResolveFails
<1>8. QED
  BY <1>5, <1>6, <1>7, TurnKeepsPhases DEF IInv, TypeOK

LEMMA ResolveSucceedsInv ==
  ASSUME IInv, NEW h \in Hosts, ResolveSucceeds(h)
  PROVE  IInv'
<1> DEFINE latched == latchAddress(ping[h], "AF_INET")
           opened == [Wrapper(h) EXCEPT !.ping = createSocket(latched)]
           request == [to |-> h, identifier |-> identifier[h],
                       sequenceNumber |-> ping[h].nextSequenceNumber]
<1>1. /\ Wrapper(h) \in WrapperType /\ Resolving(Wrapper(h))
      /\ h \in started /\ HostOnly(ping[h]) /\ ping[h] \in Object
  BY WrapperFacts DEF ResolveSucceeds, Resolving, HostOnly, IInv, TypeOK
<1>2. /\ latched \in Object /\ NothingLeft(latched)
      /\ latched.hostAddress = "AF_INET"
  BY <1>1, LatchEndsResolution DEF Families
<1>3. /\ opened \in WrapperType /\ SocketOnly(opened.ping)
      /\ opened.ping.hostAddress # "nil" /\ opened.reports = <<>>
  BY <1>1, <1>2, CreateSocketSchedules DEF WrapperType, Resolving
<1>4. ASSUME NEW delivered \in BOOLEAN
      PROVE  /\ didStartWithAddress(opened, delivered) \in WrapperType
             /\ Settled(didStartWithAddress(opened, delivered))
  BY <1>3, DidStartWaitsOrReports DEF Settled
<1>5. PICK delivered \in BOOLEAN :
        /\ Turn(h, didStartWithAddress(opened, delivered))
        /\ wire' = IF delivered THEN wire \cup {request} ELSE wire
  BY DEF ResolveSucceeds
<1>6. request \in Requests
  BY <1>1 DEF Requests, Object, IInv, TypeOK
<1>7. wire' \in SUBSET Requests
  BY <1>5, <1>6 DEF IInv, TypeOK
<1>8. inbox' \in [Hosts -> SUBSET Packets(Identifiers)]
  BY DropTyped DEF ResolveSucceeds
<1>9. started' = started \cup {h} /\ UNCHANGED <<identifier, answered, foreign>>
  BY <1>1 DEF ResolveSucceeds
<1> HIDE DEF opened
<1>10. QED
  BY <1>4, <1>5, <1>7, <1>8, <1>9, TurnKeepsPhases DEF IInv, TypeOK

LEMMA ReadFailsInv ==
  ASSUME IInv, NEW h \in Hosts, ReadFails(h)
  PROVE  IInv'
<1>1. /\ Wrapper(h) \in WrapperType /\ Waiting(Wrapper(h))
      /\ h \in started /\ SocketOnly(Wrapper(h).ping)
  BY WrapperFacts DEF ReadFails, Waiting, SocketOnly
<1>2. /\ didFailWithError(Wrapper(h)) \in WrapperType
      /\ Settled(didFailWithError(Wrapper(h)))
  BY <1>1, DidFailReports DEF Stoppable, Waiting, Settled
<1>3. inbox' \in [Hosts -> SUBSET Packets(Identifiers)]
  BY DropTyped DEF ReadFails
<1>4. /\ Turn(h, didFailWithError(Wrapper(h)))
      /\ started' = started \cup {h} /\ UNCHANGED <<identifier, wire, answered, foreign>>
  BY <1>1 DEF ReadFails
<1>5. QED
  BY <1>2, <1>3, <1>4, TurnKeepsPhases DEF IInv, TypeOK

LEMMA ReadPacketInv ==
  ASSUME IInv, NEW h \in Hosts, ReadPacket(h)
  PROVE  IInv'
<1>1. /\ Wrapper(h) \in WrapperType /\ Waiting(Wrapper(h))
      /\ h \in started /\ SocketOnly(Wrapper(h).ping)
  BY WrapperFacts DEF ReadPacket, Waiting, SocketOnly
<1>2. /\ hostFound(Wrapper(h), TRUE, TRUE) \in WrapperType
      /\ Settled(hostFound(Wrapper(h), TRUE, TRUE))
  BY <1>1, HostFoundReports DEF Stoppable, Waiting, Settled
<1>3. Settled(Wrapper(h))
  BY <1>1 DEF Settled
<1>4. PICK packet \in inbox[h] :
        /\ Turn(h, IF validatePingResponsePacket(ping[h], identifier[h], packet)
                   THEN hostFound(Wrapper(h), TRUE, TRUE)
                   ELSE Wrapper(h))
        /\ Drop(h, inbox[h] \ {packet})
  BY DEF ReadPacket
<1>5. PICK w \in WrapperType : Settled(w) /\ Turn(h, w)
  BY <1>1, <1>2, <1>3, <1>4
<1>6. inbox' \in [Hosts -> SUBSET Packets(Identifiers)]
  BY <1>4, DropTyped
<1>7. started' = started \cup {h} /\ UNCHANGED <<identifier, wire, answered, foreign>>
  BY <1>1 DEF ReadPacket
<1>8. QED
  BY <1>5, <1>6, <1>7, TurnKeepsPhases DEF IInv, TypeOK

LEMMA TimeoutInv ==
  ASSUME IInv, NEW h \in Hosts, timeout(h)
  PROVE  IInv'
<1> DEFINE fired == [Wrapper(h) EXCEPT !.timer = "fired"]
<1>1. /\ Wrapper(h) \in WrapperType /\ Waiting(Wrapper(h)) /\ h \in started
  BY WrapperFacts DEF timeout
<1>2. /\ fired \in WrapperType /\ SocketOnly(fired.ping) /\ fired.reports = <<>>
  BY <1>1 DEF WrapperType, Timers, Waiting, SocketOnly
<1> HIDE DEF fired
<1>3. ASSUME NEW valid \in BOOLEAN
      PROVE  /\ hostFound(fired, FALSE, valid) \in WrapperType
             /\ Settled(hostFound(fired, FALSE, valid))
  BY <1>2, HostFoundReports DEF Stoppable, Settled
<1>4. PICK w \in WrapperType : Settled(w) /\ Turn(h, w)
  BY <1>3 DEF timeout, fired
<1>5. inbox' \in [Hosts -> SUBSET Packets(Identifiers)]
  BY DropTyped DEF timeout
<1>6. started' = started \cup {h} /\ UNCHANGED <<identifier, wire, answered, foreign>>
  BY <1>1 DEF timeout
<1>7. QED
  BY <1>4, <1>5, <1>6, TurnKeepsPhases DEF IInv, TypeOK

LEMMA ReplyInv ==
  ASSUME IInv, Reply
  PROVE  IInv'
<1>1. PICK request \in wire, reached \in SUBSET Receiving :
        /\ answered' = answered \cup {request.to}
        /\ LET packet == [kind |-> "echoReply",
                          identifier |-> request.identifier,
                          sequenceNumber |-> request.sequenceNumber]
           IN  inbox' = [h \in Hosts |->
                  IF h \in reached THEN inbox[h] \cup {packet} ELSE inbox[h]]
        /\ UNCHANGED <<wrapper, identifier, wire, foreign>>
  BY DEF Reply
<1>2. request \in Requests
  BY DEF IInv, TypeOK
<1>3. [kind |-> "echoReply", identifier |-> request.identifier,
       sequenceNumber |-> request.sequenceNumber] \in Packets(Identifiers)
  BY <1>2 DEF Packets, Requests
<1>4. /\ inbox' \in [Hosts -> SUBSET Packets(Identifiers)]
      /\ answered' \in SUBSET Hosts
  BY <1>1, <1>2, <1>3 DEF IInv, TypeOK, Requests
<1>5. QED
  BY <1>1, <1>4, NetworkKeepsPhases DEF IInv, TypeOK

LEMMA OtherTrafficInv ==
  ASSUME IInv, OtherTraffic
  PROVE  IInv'
<1>1. PICK h \in Receiving, packet \in Packets(Identifiers) :
        /\ inbox' = [inbox EXCEPT ![h] = @ \cup {packet}]
        /\ foreign' = IF packet.kind = "echoReply"
                      THEN foreign \cup {packet.identifier} ELSE foreign
        /\ UNCHANGED <<wrapper, identifier, wire, answered>>
  BY DEF OtherTraffic
<1>2. packet.identifier \in Identifiers
  BY DEF Packets
<1>3. /\ inbox' \in [Hosts -> SUBSET Packets(Identifiers)]
      /\ foreign' \in SUBSET Identifiers
  BY <1>1, <1>2 DEF IInv, TypeOK
<1>4. QED
  BY <1>1, <1>3, NetworkKeepsPhases DEF IInv, TypeOK

LEMMA NextInv == IInv /\ [Next]_vars => IInv'
<1> SUFFICES ASSUME IInv, [Next]_vars PROVE IInv'
  OBVIOUS
<1>1. ASSUME NEW h \in Hosts, startPing(h) PROVE IInv'
  BY <1>1, StartPingInv
<1>2. ASSUME NEW h \in Hosts, HostResolveCallback(h) PROVE IInv'
  BY <1>2, ResolveFailsInv, ResolveSucceedsInv DEF HostResolveCallback
<1>3. ASSUME NEW h \in Hosts, ReadFails(h) \/ ReadPacket(h) PROVE IInv'
  BY <1>3, ReadFailsInv, ReadPacketInv
<1>4. ASSUME NEW h \in Hosts, timeout(h) PROVE IInv'
  BY <1>4, TimeoutInv
<1>5. CASE Reply
  BY <1>5, ReplyInv
<1>6. CASE OtherTraffic
  BY <1>6, OtherTrafficInv
<1>7. CASE UNCHANGED vars
  BY <1>7, NetworkKeepsPhases DEF IInv, TypeOK, vars, wrapper
<1>8. QED
  BY <1>1, <1>2, <1>3, <1>4, <1>5, <1>6, <1>7 DEF Next

-----------------------------------------------------------------------------
(* The theorems *)

\* In every run each probe is in one of its phases.
THEOREM PhasesInvariant == Safety => []IInv
BY InitInv, NextInv, PTL DEF Safety

\* The state keeps its type: in particular nextSequenceNumber stays a uint16_t.
THEOREM TypeCorrect == Safety => []TypeOK
<1>1. IInv => TypeOK
  BY DEF IInv
<1>2. QED
  BY <1>1, PhasesInvariant, PTL

\* A wrapper's completion is called at most once.
THEOREM OneReport == Safety => []AtMostOneReport
<1>1. IInv => AtMostOneReport
  <2> SUFFICES ASSUME IInv, NEW h \in Hosts PROVE Len(reports[h]) <= 1
    BY DEF AtMostOneReport
  <2> DEFINE n == Len(reports[h])
  <2>1. Phase(h) /\ Wrapper(h).reports = reports[h]
    BY DEF IInv, Wrapper
  <2>2. reports[h] = <<>> \/ n = 1
    BY <2>1 DEF Phase, Idle, Resolving, Waiting, Reported
  <2>3. reports[h] = <<>> => n = 0
    OBVIOUS
  <2> HIDE DEF n
  <2>4. n <= 1
    BY <2>2, <2>3
  <2>5. QED
    BY <2>4 DEF n
<1>2. QED
  BY <1>1, PhasesInvariant, PTL

\* Nothing of a reported probe can call back.
THEOREM ReportEndsProbe == Safety => []ReportedIsQuiet
<1>1. IInv => ReportedIsQuiet
  BY DEF IInv, ReportedIsQuiet, Phase, Idle, Resolving, Waiting, Reported,
         Wrapper
<1>2. QED
  BY <1>1, PhasesInvariant, PTL

\* An unreported probe always has its resolver or its timer to wake it.
THEOREM PendingIsWoken == Safety => []PendingHasWakeup
<1>1. IInv => PendingHasWakeup
  <2> SUFFICES ASSUME IInv, NEW h \in started, reports[h] = <<>>
               PROVE  Resolving(Wrapper(h)) \/ Waiting(Wrapper(h))
    BY DEF PendingHasWakeup
  <2>1. h \in Hosts /\ Phase(h) /\ Wrapper(h).reports = <<>>
    BY DEF IInv, TypeOK, Wrapper
  <2>2. ~Reported(Wrapper(h))
    BY <2>1 DEF Reported
  <2>3. QED
    BY <2>1, <2>2 DEF Phase
<1>2. QED
  BY <1>1, PhasesInvariant, PTL

-----------------------------------------------------------------------------
(* The probes implement HostProbe, and what is found has answered *)

\* The calls of a completion that can have happened.
Calls == {<<>>, <<TRUE>>, <<FALSE>>}

\* A packet in a wrapper's socket that it would take for its own reply.
Matching(h) ==
  \E packet \in inbox[h] :
    packet.kind = "echoReply" /\ packet.identifier = identifier[h]

-----------------------------------------------------------------------------
(* What one turn does to its host's reports *)

\* startPing begins a probe, which may be reported as not found at once.
LEMMA StartPingReports ==
  ASSUME IInv, NEW h \in Hosts, startPing(h)
  PROVE  /\ h \notin started /\ started' = started \cup {h} /\ reports[h] = <<>>
         /\ \E r \in {<<>>, <<FALSE>>} : reports' = [reports EXCEPT ![h] = r]
<1> DEFINE begun == [Wrapper(h) EXCEPT !.ping = createHost(@)]
<1>1. h \notin started /\ started' = started \cup {h}
  BY DEF startPing
<1>2. /\ begun \in WrapperType /\ HostOnly(begun.ping) /\ begun.reports = <<>>
      /\ reports[h] = <<>>
  BY <1>1, WrapperFacts, CreateHostSchedules
     DEF WrapperType, Idle, Quiet, NothingLeft, HostOnly
<1>3. didFailWithError(begun).reports = <<FALSE>>
  BY <1>2, DidFailReports DEF Stoppable
<1>4. QED
  BY <1>1, <1>2, <1>3 DEF startPing, Turn

\* A callback of the resolver comes to a probe without a report, and may report
\* it as not found.
LEMMA ResolveReports ==
  ASSUME IInv, NEW h \in Hosts, HostResolveCallback(h)
  PROVE  /\ h \in started /\ reports[h] = <<>>
         /\ \E r \in {<<>>, <<FALSE>>} : reports' = [reports EXCEPT ![h] = r]
<1> DEFINE latched(a) == [Wrapper(h) EXCEPT !.ping = latchAddress(@, a)]
           opened == [Wrapper(h) EXCEPT
                        !.ping = createSocket(latchAddress(ping[h], "AF_INET"))]
<1>1. /\ Wrapper(h) \in WrapperType /\ Wrapper(h).ping = ping[h]
      /\ h \in started /\ Resolving(Wrapper(h)) /\ HostOnly(ping[h])
      /\ Wrapper(h).reports = <<>> /\ reports[h] = <<>>
  BY WrapperFacts
     DEF HostResolveCallback, ResolveFails, ResolveSucceeds, Resolving, HostOnly
<1>2. didFailWithError(Wrapper(h)).reports = <<FALSE>>
  BY <1>1, DidFailReports DEF Stoppable
<1>3. ASSUME NEW a \in Families \cup {"nil"}
      PROVE  didFailWithError(latched(a)).reports = <<FALSE>>
  <2>1. /\ latched(a) \in WrapperType /\ NothingLeft(latched(a).ping)
        /\ latched(a).reports = <<>>
    BY <1>1, LatchEndsResolution DEF WrapperType
  <2>2. QED
    BY <2>1, DidFailReports DEF Stoppable
<1>4. \A addresses \in {<<>>, <<"AF_INET6">>, <<"AF_INET6", "AF_INET">>} :
        firstAddress("v4", addresses) \in Families \cup {"nil"}
  BY FirstAddressTyped
<1>5. ASSUME NEW delivered \in BOOLEAN
      PROVE  didStartWithAddress(opened, delivered).reports \in {<<>>, <<FALSE>>}
  <2>1. /\ latchAddress(ping[h], "AF_INET") \in Object
        /\ NothingLeft(latchAddress(ping[h], "AF_INET"))
        /\ latchAddress(ping[h], "AF_INET").hostAddress = "AF_INET"
    BY <1>1, LatchEndsResolution DEF Families, WrapperType
  <2>2. /\ opened \in WrapperType /\ SocketOnly(opened.ping)
        /\ opened.ping.hostAddress # "nil" /\ opened.reports = <<>>
    BY <1>1, <2>1, CreateSocketSchedules DEF WrapperType
  <2>3. QED
    BY <2>2, DidStartWaitsOrReports DEF Waiting
<1> HIDE DEF latched, opened
<1>6. CASE ResolveFails(h)
  <2>1. \/ Turn(h, didFailWithError(Wrapper(h)))
        \/ \E a \in Families \cup {"nil"} : Turn(h, didFailWithError(latched(a)))
    BY <1>4, <1>6 DEF ResolveFails, latched
  <2>2. QED
    BY <1>1, <1>2, <1>3, <2>1 DEF Turn
<1>7. CASE ResolveSucceeds(h)
  <2>1. PICK delivered \in BOOLEAN : Turn(h, didStartWithAddress(opened, delivered))
    BY <1>7 DEF ResolveSucceeds, opened
  <2>2. QED
    BY <1>1, <1>5, <2>1 DEF Turn
<1>8. QED
  BY <1>6, <1>7 DEF HostResolveCallback

\* A callback of the socket or of the timer comes to a probe without a report,
\* and reports it as found only for a packet that matches its identifier.
LEMMA SocketOrTimerReports ==
  ASSUME IInv, NEW h \in Hosts, ReadFails(h) \/ ReadPacket(h) \/ timeout(h)
  PROVE  /\ h \in started /\ reports[h] = <<>>
         /\ \E r \in Calls : /\ reports' = [reports EXCEPT ![h] = r]
                             /\ r = <<TRUE>> => Matching(h)
<1>1. /\ Wrapper(h) \in WrapperType /\ Wrapper(h).ping = ping[h]
      /\ h \in started /\ Waiting(Wrapper(h)) /\ SocketOnly(ping[h])
      /\ Wrapper(h).reports = <<>> /\ reports[h] = <<>>
  BY WrapperFacts DEF ReadFails, ReadPacket, timeout, Waiting, SocketOnly
<1>2. <<TRUE>> # <<FALSE>> /\ <<TRUE>> # <<>>
  OBVIOUS
<1>3. CASE ReadFails(h)
  <2>1. didFailWithError(Wrapper(h)).reports = <<FALSE>>
    BY <1>1, DidFailReports DEF Stoppable
  <2>2. QED
    BY <1>1, <1>2, <1>3, <2>1 DEF ReadFails, Turn, Calls
<1>4. CASE ReadPacket(h)
  <2>1. hostFound(Wrapper(h), TRUE, TRUE).reports = <<TRUE>>
    BY <1>1, HostFoundReports DEF Stoppable
  <2>2. PICK packet \in inbox[h] :
          Turn(h, IF validatePingResponsePacket(ping[h], identifier[h], packet)
                  THEN hostFound(Wrapper(h), TRUE, TRUE)
                  ELSE Wrapper(h))
    BY <1>4 DEF ReadPacket
  <2>3. CASE validatePingResponsePacket(ping[h], identifier[h], packet)
    BY <1>1, <2>1, <2>2, <2>3
       DEF validatePingResponsePacket, Matching, Turn, Calls
  <2>4. CASE ~validatePingResponsePacket(ping[h], identifier[h], packet)
    BY <1>1, <1>2, <2>2, <2>4 DEF Turn, Calls
  <2>5. QED
    BY <2>3, <2>4
<1>5. CASE timeout(h)
  <2> DEFINE fired == [Wrapper(h) EXCEPT !.timer = "fired"]
  <2>1. /\ fired \in WrapperType /\ Stoppable(fired.ping) /\ fired.reports = <<>>
    BY <1>1 DEF WrapperType, Timers, Stoppable
  <2> HIDE DEF fired
  <2>2. \A valid \in BOOLEAN : hostFound(fired, FALSE, valid).reports = <<FALSE>>
    BY <2>1, HostFoundReports
  <2>3. \E valid \in BOOLEAN : Turn(h, hostFound(fired, FALSE, valid))
    BY <1>5 DEF timeout, fired
  <2>4. QED
    BY <1>1, <1>2, <2>2, <2>3 DEF Turn, Calls
<1>6. QED
  BY <1>3, <1>4, <1>5

-----------------------------------------------------------------------------
(* The refinement *)

\* The result of a host, by the calls of its completion.
LEMMA ResultOfReports ==
  ASSUME NEW h \in Hosts
  PROVE  /\ reports[h] = <<TRUE>> => result[h] = "found"
         /\ reports[h] = <<FALSE>> => result[h] = "notFound"
         /\ reports[h] = <<>> /\ h \in started => result[h] = "pending"
         /\ reports[h] = <<>> /\ h \notin started => result[h] = "idle"
<1>1. <<TRUE>> # <<FALSE>> /\ <<TRUE>> # <<>> /\ <<FALSE>> # <<>>
  OBVIOUS
<1>2. QED
  BY <1>1 DEF result

\* The result of a host with these calls, by whether its probe has begun.
Outcome(calls, unreported) ==
  CASE calls = <<TRUE>>  -> "found"
    [] calls = <<FALSE>> -> "notFound"
    [] calls = <<>>      -> unreported
    [] OTHER             -> "reported twice"

\* What a host's turn makes of the results: the other hosts keep theirs.
LEMMA TurnResult ==
  ASSUME IInv, NEW h \in Hosts, NEW r \in Calls,
         reports' = [reports EXCEPT ![h] = r], started' = started \cup {h}
  PROVE  /\ r = <<TRUE>> => result' = [result EXCEPT ![h] = "found"]
         /\ r = <<FALSE>> => result' = [result EXCEPT ![h] = "notFound"]
         /\ r = <<>> => result' = [result EXCEPT ![h] = "pending"]
<1>1. <<TRUE>> # <<FALSE>> /\ <<TRUE>> # <<>> /\ <<FALSE>> # <<>>
  OBVIOUS
<1>2. reports'[h] = r /\ h \in started'
  BY DEF IInv, TypeOK
<1>3. /\ r = <<TRUE>> => result'[h] = "found"
      /\ r = <<FALSE>> => result'[h] = "notFound"
      /\ r = <<>> => result'[h] = "pending"
  BY <1>1, <1>2 DEF result
<1>4. ASSUME NEW g \in Hosts, g # h
      PROVE  result'[g] = result[g]
  <2>1. reports'[g] = reports[g] /\ (g \in started' <=> g \in started)
    BY <1>4 DEF IInv, TypeOK
  <2>2. /\ result[g] = Outcome(reports[g], IF g \in started THEN "pending" ELSE "idle")
        /\ result'[g] = Outcome(reports'[g], IF g \in started' THEN "pending" ELSE "idle")
    BY Zenon DEF result, Outcome
  <2>3. QED
    BY <2>1, <2>2
<1>5. /\ result = [g \in Hosts |-> result[g]]
      /\ result' = [g \in Hosts |-> result'[g]]
  BY DEF result
<1> HIDE DEF result
<1>6. QED
  BY <1>3, <1>4, <1>5

LEMMA InitRefines == Init => Probe!Init
<1> SUFFICES ASSUME Init PROVE result = [h \in Hosts |-> "idle"]
  BY DEF Probe!Init
<1>1. \A h \in Hosts : result[h] = "idle"
  BY ResultOfReports DEF Init
<1>2. QED
  BY <1>1 DEF result

\* startPing is Begin of its host.
LEMMA StartPingRefines ==
  ASSUME IInv, NEW h \in Hosts, startPing(h)
  PROVE  Probe!Begin({h})
<1>1. PICK r \in {<<>>, <<FALSE>>} : reports' = [reports EXCEPT ![h] = r]
  BY StartPingReports
<1>2. h \notin started /\ started' = started \cup {h} /\ reports[h] = <<>>
  BY StartPingReports
<1>3. result[h] = "idle"
  BY <1>2, ResultOfReports
<1>4. /\ r = <<FALSE>> => result' = [result EXCEPT ![h] = "notFound"]
      /\ r = <<>> => result' = [result EXCEPT ![h] = "pending"]
  BY <1>1, <1>2, TurnResult DEF Calls
<1>5. result = [g \in Hosts |-> result[g]]
  BY DEF result
<1> HIDE DEF result
<1>6. \E refused \in SUBSET {h} :
        result' = [g \in Hosts |-> IF g \in refused THEN "notFound"
                                   ELSE IF g \in {h} THEN "pending" ELSE result[g]]
  <2>1. CASE r = <<FALSE>>
    <3>1. result' = [g \in Hosts |-> IF g \in {h} THEN "notFound"
                                     ELSE IF g \in {h} THEN "pending" ELSE result[g]]
      BY <1>4, <1>5, <2>1
    <3>2. QED
      BY <3>1
  <2>2. CASE r = <<>>
    <3>1. result' = [g \in Hosts |-> IF g \in {} THEN "notFound"
                                     ELSE IF g \in {h} THEN "pending" ELSE result[g]]
      BY <1>4, <1>5, <2>2
    <3>2. {} \in SUBSET {h}
      OBVIOUS
    <3>3. QED
      BY <3>1, <3>2, Zenon
  <2>3. QED
    BY <1>1, <2>1, <2>2
<1>7. QED
  BY <1>3, <1>6 DEF Probe!Begin

\* A callback is Report of its host, or changes no result.
LEMMA CallbackRefines ==
  ASSUME IInv, NEW h \in Hosts,
         HostResolveCallback(h) \/ ReadFails(h) \/ ReadPacket(h) \/ timeout(h)
  PROVE  Probe!Report(h) \/ UNCHANGED result
<1>1. /\ h \in started /\ reports[h] = <<>>
      /\ \E r \in Calls : reports' = [reports EXCEPT ![h] = r]
  BY ResolveReports, SocketOrTimerReports DEF Calls
<1>2. started' = started \cup {h}
  BY <1>1 DEF HostResolveCallback, ResolveFails, ResolveSucceeds, ReadFails,
              ReadPacket, timeout
<1>3. result[h] = "pending"
  BY <1>1, ResultOfReports
<1>4. \/ result' = [result EXCEPT ![h] = "found"]
      \/ result' = [result EXCEPT ![h] = "notFound"]
      \/ result' = [result EXCEPT ![h] = "pending"]
  BY <1>1, <1>2, TurnResult DEF Calls
<1>5. result = [g \in Hosts |-> result[g]]
  BY DEF result
<1> HIDE DEF result
<1>6. result' = [result EXCEPT ![h] = "pending"] => result' = result
  BY <1>3, <1>5
<1>7. QED
  BY <1>3, <1>4, <1>6 DEF Probe!Report

LEMMA NextRefines == IInv /\ [Next]_vars => [Probe!Next]_result
<1> SUFFICES ASSUME IInv, [Next]_vars PROVE Probe!Next \/ UNCHANGED result
  OBVIOUS
<1>1. ASSUME NEW h \in Hosts, startPing(h)
      PROVE  Probe!Next
  BY <1>1, StartPingRefines DEF Probe!Next
<1>2. ASSUME NEW h \in Hosts,
             HostResolveCallback(h) \/ ReadFails(h) \/ ReadPacket(h) \/ timeout(h)
      PROVE  Probe!Next \/ UNCHANGED result
  BY <1>2, CallbackRefines DEF Probe!Next
<1>3. CASE Reply \/ OtherTraffic \/ UNCHANGED vars
  <2>1. reports' = reports /\ started' = started
    BY <1>3 DEF Reply, OtherTraffic, vars, wrapper
  <2>2. QED
    BY <2>1 DEF result
<1>4. QED
  BY <1>1, <1>2, <1>3 DEF Next

\* The probes of all hosts take only steps that HostProbe takes: each begins once
\* and is reported once, as found or not, and a report does not change.
THEOREM ImplementsProbe == Safety => Probe!Safety
BY PhasesInvariant, InitRefines, NextRefines, PTL DEF Safety, Probe!Safety

-----------------------------------------------------------------------------
(* The matching of identifiers *)

\* An identifier somebody has replied with.
Accounted(i) == i \in foreign \/ \E g \in answered : identifier[g] = i

\* Every request, every reply on its way and every host found leads back to whoever
\* used the same identifier: a request to a host of the scan, a reply to a host that
\* answered or to a foreign ping.
Matched ==
  /\ \A request \in wire : request.identifier = identifier[request.to]
  /\ \A h \in Hosts : \A packet \in inbox[h] :
       packet.kind = "echoReply" => Accounted(packet.identifier)
  /\ \A h \in Hosts : reports[h] = <<TRUE>> => Accounted(identifier[h])

LEMMA MatchedInit == Init => Matched
<1>1. <<TRUE>> # <<>>
  OBVIOUS
<1>2. QED
  BY <1>1 DEF Init, Matched

\* A host's own turn sends at most a request of its own, takes packets out of its
\* socket only, and is reported found only for one that matches.
LEMMA MatchedTurn ==
  ASSUME IInv, Matched, NEW h \in Hosts,
         UNCHANGED <<identifier, answered, foreign>>,
         \A request \in wire' \ wire : request.identifier = identifier[request.to],
         \A g \in Hosts : inbox'[g] \subseteq inbox[g],
         NEW r \in Calls, reports' = [reports EXCEPT ![h] = r],
         r = <<TRUE>> => Matching(h)
  PROVE  Matched'
<1>1. \A i : Accounted(i)' <=> Accounted(i)
  BY DEF Accounted
<1>2. r = <<TRUE>> => Accounted(identifier[h])
  BY DEF Matched, Matching
<1>3. \A g \in Hosts : reports'[g] = <<TRUE>> => Accounted(identifier[g])'
  BY <1>1, <1>2 DEF Matched, IInv, TypeOK
<1>4. QED
  BY <1>1, <1>3 DEF Matched

LEMMA MatchedReply ==
  ASSUME IInv, Matched, Reply
  PROVE  Matched'
<1>1. PICK request \in wire, reached \in SUBSET Receiving :
        /\ answered' = answered \cup {request.to}
        /\ LET packet == [kind |-> "echoReply",
                          identifier |-> request.identifier,
                          sequenceNumber |-> request.sequenceNumber]
           IN  inbox' = [h \in Hosts |->
                  IF h \in reached THEN inbox[h] \cup {packet} ELSE inbox[h]]
        /\ UNCHANGED <<wrapper, identifier, wire, foreign>>
  BY DEF Reply
<1>2. \A i : Accounted(i) => Accounted(i)'
  BY <1>1 DEF Accounted
<1>3. Accounted(request.identifier)'
  BY <1>1 DEF Accounted, Matched
<1>4. ASSUME NEW h \in Hosts, NEW packet \in inbox'[h], packet.kind = "echoReply"
      PROVE  Accounted(packet.identifier)'
  BY <1>1, <1>2, <1>3, <1>4 DEF Matched
<1>5. QED
  BY <1>1, <1>2, <1>4 DEF Matched, wrapper

LEMMA MatchedOtherTraffic ==
  ASSUME IInv, Matched, OtherTraffic
  PROVE  Matched'
<1>1. PICK h \in Receiving, packet \in Packets(Identifiers) :
        /\ inbox' = [inbox EXCEPT ![h] = @ \cup {packet}]
        /\ foreign' = IF packet.kind = "echoReply"
                      THEN foreign \cup {packet.identifier} ELSE foreign
        /\ UNCHANGED <<wrapper, identifier, wire, answered>>
  BY DEF OtherTraffic
<1>2. \A i : Accounted(i) => Accounted(i)'
  BY <1>1 DEF Accounted
<1>3. packet.kind = "echoReply" => Accounted(packet.identifier)'
  BY <1>1 DEF Accounted
<1>4. ASSUME NEW g \in Hosts, NEW p \in inbox'[g], p.kind = "echoReply"
      PROVE  Accounted(p.identifier)'
  <2>1. p \in inbox[g] \/ p = packet
    BY <1>1 DEF IInv, TypeOK
  <2>2. QED
    BY <1>2, <1>3, <1>4, <2>1 DEF Matched
<1>5. QED
  BY <1>1, <1>2, <1>4 DEF Matched, wrapper

LEMMA DropShrinks ==
  ASSUME IInv, NEW h \in Hosts, NEW waiting \in SUBSET inbox[h], Drop(h, waiting)
  PROVE  \A g \in Hosts : inbox'[g] \subseteq inbox[g]
BY DEF IInv, TypeOK, Drop

LEMMA MatchedNext == IInv /\ Matched /\ [Next]_vars => Matched'
<1> SUFFICES ASSUME IInv, Matched, [Next]_vars PROVE Matched'
  OBVIOUS
<1> <<TRUE>> # <<FALSE>> /\ <<TRUE>> # <<>>
  OBVIOUS
<1>1. ASSUME NEW h \in Hosts, startPing(h) PROVE Matched'
  <2>1. PICK r \in {<<>>, <<FALSE>>} : reports' = [reports EXCEPT ![h] = r]
    BY <1>1, StartPingReports
  <2>2. UNCHANGED <<identifier, wire, inbox, answered, foreign>>
    BY <1>1 DEF startPing, network
  <2>3. QED
    BY <2>1, <2>2, MatchedTurn DEF Calls
<1>2. ASSUME NEW h \in Hosts, HostResolveCallback(h) PROVE Matched'
  <2>1. PICK r \in {<<>>, <<FALSE>>} : reports' = [reports EXCEPT ![h] = r]
    BY <1>2, ResolveReports
  <2>2. /\ UNCHANGED <<identifier, answered, foreign>> /\ Drop(h, {})
        /\ \A request \in wire' \ wire : request.identifier = identifier[request.to]
    BY <1>2 DEF HostResolveCallback, ResolveFails, ResolveSucceeds
  <2>3. QED
    BY <2>1, <2>2, DropShrinks, MatchedTurn DEF Calls
<1>3. ASSUME NEW h \in Hosts, ReadFails(h) \/ ReadPacket(h) \/ timeout(h)
      PROVE  Matched'
  <2>1. PICK r \in Calls : /\ reports' = [reports EXCEPT ![h] = r]
                           /\ r = <<TRUE>> => Matching(h)
    BY <1>3, SocketOrTimerReports
  <2>2. /\ UNCHANGED <<identifier, wire, answered, foreign>>
        /\ \E waiting \in SUBSET inbox[h] : Drop(h, waiting)
    BY <1>3 DEF ReadFails, ReadPacket, timeout
  <2>3. QED
    BY <2>1, <2>2, DropShrinks, MatchedTurn
<1>4. CASE Reply
  BY <1>4, MatchedReply
<1>5. CASE OtherTraffic
  BY <1>5, MatchedOtherTraffic
<1>6. CASE UNCHANGED vars
  BY <1>6 DEF Matched, Accounted, vars
<1>7. QED
  BY <1>1, <1>2, <1>3, <1>4, <1>5, <1>6 DEF Next

\* A host that is reported found has answered, whatever the network loses, delays,
\* repeats or hands to the wrong socket, unless its identifier is that of another
\* pinger or came in a reply to a ping from outside the scan.
THEOREM FoundAnswered == Safety => []FoundIsAnsweredIfDistinct
<1>1. IInv /\ Matched => FoundIsAnsweredIfDistinct
  <2> SUFFICES ASSUME IInv, Matched, NEW h \in Hosts, reports[h] = <<TRUE>>,
                      Distinct(h), NoForeigner(h)
               PROVE  h \in answered
    BY DEF FoundIsAnsweredIfDistinct
  <2>1. PICK g \in answered : identifier[g] = identifier[h]
    BY DEF Matched, Accounted, NoForeigner
  <2>2. g \in Hosts
    BY DEF IInv, TypeOK
  <2>3. QED
    BY <2>1, <2>2 DEF Distinct
<1>2. Safety => []Matched
  BY PhasesInvariant, MatchedInit, MatchedNext, PTL DEF Safety
<1>3. QED
  BY <1>1, <1>2, PhasesInvariant, PTL
=============================================================================
