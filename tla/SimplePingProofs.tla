--------------------------- MODULE SimplePingProofs ----------------------------
(***************************************************************************)
(* A SimplePing object keeps its contract with every client that keeps the *)
(* rules, for every modulus, window and style and any number of starts and *)
(* pings.  The invariant says of the object of a turn what SourcesAre-     *)
(* Current and PhaseAgreed say, and of its sequence number that it is the  *)
(* number of pings sent, modulo the modulus.  Every call the object and    *)
(* its client make in a turn keeps it, so a turn does, in whatever order   *)
(* it makes them.                                                          *)
(***************************************************************************)
EXTENDS SimplePing, TLAPS

-----------------------------------------------------------------------------
(* Remainders *)

\* A multiple of m strictly between -m and m is 0.
LEMMA SmallMultiple ==
  ASSUME NEW m \in Nat \ {0}, NEW d \in Int, -m < m * d, m * d < m
  PROVE  d = 0
<1>1. CASE d >= 1
  <2>1. m * (d - 1) >= 0
    BY <1>1, SMT
  <2>2. m * d = m * (d - 1) + m
    BY SMT
  <2> QED BY <2>1, <2>2
<1>2. CASE d <= -1
  <2>1. m * (-1 - d) >= 0
    BY <1>2, SMT
  <2>2. m * d = -(m * (-1 - d)) - m
    BY SMT
  <2> QED BY <2>1, <2>2
<1> QED BY <1>1, <1>2

\* A remainder is the only one.
LEMMA Remainder ==
  ASSUME NEW m \in Nat \ {0}, NEW a \in Int, NEW q \in Int, NEW r \in 0 .. m - 1,
         a = m * q + r
  PROVE  a % m = r
<1> DEFINE p == a \div m
           s == a % m
<1>1. p \in Int /\ s \in 0 .. m - 1 /\ a = m * p + s
  BY SMTT(30)
<1> HIDE DEF p, s
<1>2. m * (q - p) = s - r
  BY <1>1, SMT
<1>3. q - p = 0
  BY <1>1, <1>2, SmallMultiple
<1>4. s = r
  BY <1>1, <1>2, <1>3, SMT
<1> QED BY <1>4 DEF s

\* The remainder of the next number, and when it is 0 for the first time.
LEMMA NextRemainder ==
  ASSUME NEW m \in Nat \ {0}, NEW n \in Nat
  PROVE  /\ n % m \in 0 .. m - 1
         /\ ((n % m) + 1) % m = (n + 1) % m
         /\ ((n + 1) % m = 0 => n + 1 >= m)
         /\ (n < m => n % m = n)
<1> DEFINE q == n \div m
           r == n % m
<1>1. q \in Int /\ r \in 0 .. m - 1 /\ n = m * q + r
  BY SMTT(30)
<1>2. n < m => n % m = n
  <2>1. n < m => n \in 0 .. m - 1 /\ n = m * 0 + n
    BY SMT
  <2> QED BY <2>1, Remainder
<1>3. n + 1 < m => (n + 1) % m = n + 1
  <2>1. n + 1 < m => n + 1 \in 0 .. m - 1 /\ n + 1 = m * 0 + (n + 1)
    BY SMT
  <2> QED BY <2>1, Remainder
<1> HIDE DEF q, r
<1>4. (r + 1) % m = (n + 1) % m
  <2>1. CASE r + 1 < m
    <3>1. r + 1 \in 0 .. m - 1 /\ r + 1 = m * 0 + (r + 1) /\ n + 1 = m * q + (r + 1)
      BY <1>1, <2>1, SMT
    <3> QED BY <1>1, <3>1, Remainder
  <2>2. CASE r + 1 = m
    <3>1. /\ r + 1 = m * 1 + 0 /\ 0 \in 0 .. m - 1
          /\ n + 1 = m * (q + 1) + 0 /\ q + 1 \in Int
      BY <1>1, <2>2, SMT
    <3> QED BY <1>1, <3>1, Remainder
  <2> QED BY <1>1, <2>1, <2>2
<1> QED BY <1>1, <1>2, <1>3, <1>4 DEF r

-----------------------------------------------------------------------------
(* The invariant *)

Scheduled(p) ==
  p.sources = {CFHost(n) : n \in {p.host} \ {0}} \cup {CFSocket(n) : n \in {p.socket} \ {0}}

\* The next number is that of n pings, and the flag tells whether it has wrapped.
Counted(p, n) ==
  /\ p.nextSequenceNumber = n % SequenceModulus
  /\ p.nextSequenceNumberHasWrapped <=> n >= SequenceModulus

Objects == {p \in Object : Scheduled(p)}

Agreed(p, told) ==
  CASE told = "stopped"  -> Stopped(p)
    [] told = "starting" -> p.host # 0 /\ p.socket = 0 /\ p.hostAddress = "nil"
    [] told = "started"  -> p.host = 0 /\ p.socket # 0 /\ p.hostAddress # "nil"

\* The calls that keep to the contract of SimplePing.h.
Told ==
  {c \in [name : CallbackNames, object : Object, client : ClientStates] :
     IF c.name = "didFailWithError" THEN Stopped(c.object)
     ELSE /\ c.client = "started"
          /\ c.object.hostAddress # "nil"
          /\ c.object.socket # 0}

Turns == [ping : Objects, client : ClientStates, calls : Seq(Told)]

\* A turn in the middle of a method, and one between two methods, after n pings.
Busy(w, n) == w \in Turns /\ Counted(w.ping, n)
Settled(w, n) == Busy(w, n) /\ Agreed(w.ping, w.client)

\* The inductive invariant.
IInv ==
  /\ Settled([ping |-> ping, client |-> client, calls |-> calls], sent)
  /\ starts \in 0 .. MaxStarts
  /\ sent \in 0 .. MaxSends

-----------------------------------------------------------------------------
(* The methods of the object *)

SameNumber(p, q) ==
  /\ q.nextSequenceNumber = p.nextSequenceNumber
  /\ q.nextSequenceNumberHasWrapped = p.nextSequenceNumberHasWrapped

LEMMA StopHostObject ==
  ASSUME NEW p \in Objects
  PROVE  LET q == stopHostResolution(p) IN
         /\ q \in Objects /\ q.host = 0 /\ q.socket = p.socket
         /\ q.hostAddress = p.hostAddress /\ SameNumber(p, q)
<1> DEFINE q == stopHostResolution(p)
<1>1. q \in Object /\ q.host = 0 /\ q.socket = p.socket
      /\ q.hostAddress = p.hostAddress /\ SameNumber(p, q)
  BY DEF stopHostResolution, Objects, Object, SameNumber
<1>2. q.sources = {CFSocket(n) : n \in {p.socket} \ {0}}
  BY DEF stopHostResolution, Objects, Object, Scheduled, CFHost, CFSocket
<1>3. Scheduled(q)
  BY <1>1, <1>2 DEF Scheduled
<1> QED BY <1>1, <1>3 DEF Objects

LEMMA StopObject ==
  ASSUME NEW p \in Objects
  PROVE  stop(p) \in Objects /\ Stopped(stop(p)) /\ SameNumber(p, stop(p))
<1> DEFINE q == stopHostResolution(p)
           s == stopSocket(q)
<1>1. /\ q \in Objects /\ q.host = 0 /\ q.socket = p.socket /\ SameNumber(p, q)
  BY StopHostObject
<1> HIDE DEF q
<1>2. s \in Object /\ s.host = 0 /\ s.socket = 0 /\ SameNumber(p, s)
  BY <1>1 DEF stopSocket, Objects, Object, SameNumber
<1>3. s.sources = {}
  BY <1>1 DEF stopSocket, Objects, Object, Scheduled, CFHost, CFSocket
<1> HIDE DEF s
<1>4. stop(p) = [s EXCEPT !.hostAddress = "nil"]
  BY DEF stop, s, q
<1>5. stop(p) \in Object /\ Stopped(stop(p)) /\ SameNumber(p, stop(p)) /\ stop(p).sources = {}
  BY <1>2, <1>3, <1>4 DEF Object, Stopped, SameNumber
<1>6. Scheduled(stop(p))
  BY <1>5 DEF Scheduled, Stopped
<1> QED BY <1>5, <1>6 DEF Objects

LEMMA CreateHostObject ==
  ASSUME NEW p \in Objects, Stopped(p)
  PROVE  LET q == createHost(p) IN
         /\ q \in Objects /\ q.host # 0 /\ q.socket = 0 /\ q.hostAddress = "nil"
         /\ SameNumber(p, q)
<1> DEFINE q == createHost(p)
           source == {CFHost(p.made + 1)}
<1>1. p \in Object /\ p.made + 1 \in Nat /\ p.made + 1 # 0 /\ p.sources = {}
  BY DEF Objects, Object, Scheduled, Stopped
<1>2. source \subseteq [kind : Kinds, id : Nat]
  BY <1>1 DEF CFHost, Kinds
<1>3. q = [p EXCEPT !.host = p.made + 1, !.made = p.made + 1,
                    !.sources = source]
  BY <1>1 DEF createHost, Object
<1> HIDE DEF q, source
<1>4. /\ q \in Object /\ q.host = p.made + 1 /\ q.socket = 0 /\ q.hostAddress = "nil"
      /\ q.sources = source /\ SameNumber(p, q)
  BY <1>1, <1>2, <1>3 DEF Object, Stopped, SameNumber
<1>5. Scheduled(q)
  BY <1>1, <1>4 DEF Scheduled, source
<1> QED BY <1>1, <1>4, <1>5 DEF Objects, q

LEMMA LatchObject ==
  ASSUME NEW p \in Objects, NEW address \in Families \cup {"nil"}
  PROVE  LET q == latchAddress(p, address) IN
         /\ q \in Objects /\ q.host = 0 /\ q.socket = p.socket
         /\ q.hostAddress = address /\ SameNumber(p, q)
<1> DEFINE q == [p EXCEPT !.hostAddress = address]
<1>1. /\ q \in Object /\ q.sources = p.sources /\ q.host = p.host /\ q.socket = p.socket
      /\ q.hostAddress = address /\ SameNumber(p, q)
  BY DEF Objects, Object, SameNumber
<1>2. q \in Objects
  BY <1>1 DEF Objects, Scheduled
<1> HIDE DEF q
<1>3. latchAddress(p, address) = stopHostResolution(q)
  BY DEF latchAddress, q
<1> QED BY <1>1, <1>2, <1>3, StopHostObject DEF SameNumber

LEMMA CreateSocketObject ==
  ASSUME NEW p \in Objects, p.host = 0, p.socket = 0
  PROVE  LET q == createSocket(p) IN
         /\ q \in Objects /\ q.host = 0 /\ q.socket # 0
         /\ q.hostAddress = p.hostAddress /\ SameNumber(p, q)
<1> DEFINE q == createSocket(p)
           source == {CFSocket(p.made + 1)}
<1>1. p \in Object /\ p.made + 1 \in Nat /\ p.made + 1 # 0 /\ p.sources = {}
  BY DEF Objects, Object, Scheduled
<1>2. source \subseteq [kind : Kinds, id : Nat]
  BY <1>1 DEF CFSocket, Kinds
<1>3. q = [p EXCEPT !.socket = p.made + 1, !.made = p.made + 1,
                    !.sources = source]
  BY <1>1 DEF createSocket, Object
<1> HIDE DEF q, source
<1>4. /\ q \in Object /\ q.host = 0 /\ q.socket = p.made + 1
      /\ q.hostAddress = p.hostAddress
      /\ q.sources = source /\ SameNumber(p, q)
  BY <1>1, <1>2, <1>3 DEF Object, SameNumber
<1>5. Scheduled(q)
  BY <1>1, <1>4 DEF Scheduled, source
<1> QED BY <1>1, <1>4, <1>5 DEF Objects, q

LEMMA AdvanceObject ==
  ASSUME NEW p \in Objects, NEW n \in Nat, Counted(p, n)
  PROVE  LET q == advanceSequence(p) IN
         /\ q \in Objects /\ Counted(q, n + 1)
         /\ q.host = p.host /\ q.socket = p.socket /\ q.hostAddress = p.hostAddress
<1> DEFINE q == advanceSequence(p)
           next == (n + 1) % SequenceModulus
<1>1. /\ n % SequenceModulus \in SequenceNumbers /\ next \in SequenceNumbers
      /\ (p.nextSequenceNumber + 1) % SequenceModulus = next
      /\ next = 0 => n + 1 >= SequenceModulus
      /\ n + 1 < SequenceModulus => next = n + 1
  <2>1. n + 1 \in Nat /\ SequenceModulus \in Nat \ {0}
    BY SequenceAssumption
  <2> QED BY <2>1, NextRemainder DEF Counted, SequenceNumbers
<1>2. n + 1 = SequenceModulus => next = 0
  <2>1. SequenceModulus = SequenceModulus * 1 + 0 /\ 0 \in 0 .. SequenceModulus - 1
    BY SequenceAssumption
  <2>2. SequenceModulus % SequenceModulus = 0
    BY <2>1, SequenceAssumption, Remainder
  <2> QED BY <2>2
<1> HIDE DEF next
<1>3. q = [p EXCEPT !.nextSequenceNumber = next,
                    !.nextSequenceNumberHasWrapped = @ \/ next = 0]
  BY <1>1 DEF advanceSequence
<1>4. /\ q \in Object /\ q.sources = p.sources /\ q.host = p.host /\ q.socket = p.socket
      /\ q.hostAddress = p.hostAddress /\ q.nextSequenceNumber = next
  BY <1>1, <1>3 DEF Objects, Object
<1>5. q.nextSequenceNumberHasWrapped = (p.nextSequenceNumberHasWrapped \/ next = 0)
  BY <1>3 DEF Objects, Object
<1>6. n + 1 >= SequenceModulus <=> n >= SequenceModulus \/ n + 1 = SequenceModulus
  BY SequenceAssumption
<1>7. q.nextSequenceNumberHasWrapped <=> n + 1 >= SequenceModulus
  BY <1>1, <1>2, <1>5, <1>6 DEF Counted
<1>8. Scheduled(q)
  BY <1>4 DEF Objects, Scheduled
<1> QED BY <1>4, <1>7, <1>8 DEF Objects, Counted, next
-----------------------------------------------------------------------------
(* The calls of a turn *)

LEMMA CallbackKeeps ==
  ASSUME NEW w \in Turns, NEW n \in Nat, Settled(w, n), NEW name \in CallbackNames,
         IF name = "didFailWithError" THEN w.client = "stopped" ELSE w.client = "started"
  PROVE  Settled(Callback(w, name), n) /\ Callback(w, name).client = w.client
<1> DEFINE call == [name |-> name, object |-> w.ping, client |-> w.client]
           v == Callback(w, name)
<1>1. call \in Told
  BY DEF Settled, Agreed, Stopped, Told, Turns, Objects, ClientStates
<1>2. v = [w EXCEPT !.calls = Append(w.calls, call)]
  BY DEF Callback, Turns
<1>3. v \in Turns /\ v.ping = w.ping /\ v.client = w.client
  BY <1>1, <1>2 DEF Turns
<1> QED BY <1>3 DEF Settled, Busy

LEMMA StopCallKeeps ==
  ASSUME NEW w \in Turns, NEW n \in Nat, Busy(w, n)
  PROVE  Settled(StopCall(w), n) /\ StopCall(w).client = "stopped"
<1>1. stop(w.ping) \in Objects /\ Stopped(stop(w.ping)) /\ SameNumber(w.ping, stop(w.ping))
  BY StopObject DEF Turns
<1>2. /\ StopCall(w) \in Turns /\ StopCall(w).client = "stopped"
      /\ StopCall(w).ping = stop(w.ping)
  BY <1>1 DEF StopCall, Turns, ClientStates
<1> QED BY <1>1, <1>2 DEF Settled, Busy, Counted, SameNumber, Agreed

LEMMA FailureKeeps ==
  ASSUME NEW w \in Turns, NEW n \in Nat, Busy(w, n)
  PROVE  Settled(didFailWithError(w), n) /\ didFailWithError(w).client = "stopped"
<1>1. Settled(StopCall(w), n) /\ StopCall(w).client = "stopped"
  BY StopCallKeeps
<1>2. StopCall(w) \in Turns
  BY <1>1 DEF Settled, Busy
<1>3. didFailWithError(w) = Callback(StopCall(w), "didFailWithError")
  BY DEF didFailWithError, StopCall
<1> QED BY <1>1, <1>2, <1>3, CallbackKeeps DEF CallbackNames

LEMMA StartCallKeeps ==
  ASSUME NEW w \in Turns, NEW n \in Nat, Settled(w, n), w.client = "stopped",
         NEW resolving \in BOOLEAN
  PROVE  Settled(StartCall(w, resolving), n)
<1> DEFINE begun == [w EXCEPT !.ping = createHost(w.ping), !.client = "starting"]
           p == createHost(w.ping)
<1>1. Stopped(w.ping) /\ w.ping \in Objects
  BY DEF Settled, Agreed, Turns
<1>2. /\ p \in Objects /\ p.host # 0 /\ p.socket = 0 /\ p.hostAddress = "nil"
      /\ SameNumber(w.ping, p)
  BY <1>1, CreateHostObject
<1>3. begun \in Turns /\ begun.client = "starting" /\ begun.ping = p
  BY <1>2 DEF Turns, ClientStates
<1>4. Settled(begun, n)
  BY <1>2, <1>3 DEF Settled, Busy, Counted, SameNumber, Agreed
<1>5. StartCall(w, resolving) = IF resolving THEN begun ELSE didFailWithError(begun)
  BY DEF StartCall, Turns
<1>6. Settled(didFailWithError(begun), n)
  BY <1>3, <1>4, FailureKeeps DEF Settled
<1> QED BY <1>4, <1>5, <1>6

\* Whatever the client does inside a callback.
LEMMA ReactKeeps ==
  ASSUME NEW w \in Turns, NEW n \in Nat, Settled(w, n), NEW r \in Reactions
  PROVE  Settled(React(w, r), n)
<1>1. Settled(StopCall(w), n) /\ StopCall(w).client = "stopped" /\ StopCall(w) \in Turns
  BY StopCallKeeps DEF Settled, Busy
<1>2. /\ Settled(StartCall(StopCall(w), TRUE), n)
      /\ Settled(StartCall(StopCall(w), FALSE), n)
  BY <1>1, StartCallKeeps
<1> QED BY <1>1, <1>2 DEF React, Reactions

LEMMA SendKeeps ==
  ASSUME NEW w \in Turns, NEW n \in Nat, Settled(w, n), w.client = "started",
         NEW delivered \in BOOLEAN, NEW r \in Reactions
  PROVE  Settled(sendPingWithData(w, delivered, r), n + 1)
<1> DEFINE name == IF delivered /\ w.ping.socket # 0 THEN "didSendPacket" ELSE "didFailToSendPacket"
           told == Callback(w, name)
           v == React(told, r)
           q == advanceSequence(v.ping)
<1>1. name \in CallbackNames /\ name # "didFailWithError"
  BY DEF CallbackNames
<1> HIDE DEF name
<1>2. Settled(told, n) /\ told \in Turns
  BY <1>1, CallbackKeeps DEF Settled, Busy
<1> HIDE DEF told
<1>3. Settled(v, n) /\ v \in Turns
  BY <1>2, ReactKeeps DEF Settled, Busy
<1>4. sendPingWithData(w, delivered, r) = [v EXCEPT !.ping = q]
  BY <1>3 DEF sendPingWithData, Turns, told, name
<1> HIDE DEF v
<1>5. /\ q \in Objects /\ Counted(q, n + 1) /\ q.host = v.ping.host
      /\ q.socket = v.ping.socket /\ q.hostAddress = v.ping.hostAddress
  BY <1>3, AdvanceObject DEF Turns, Settled, Busy
<1> HIDE DEF q
<1>6. LET u == [v EXCEPT !.ping = q] IN u \in Turns /\ u.ping = q /\ u.client = v.client
  BY <1>3, <1>5 DEF Turns
<1>7. Agreed(q, v.client)
  BY <1>3, <1>5 DEF Settled, Agreed, Stopped
<1> QED BY <1>4, <1>5, <1>6, <1>7 DEF Settled, Busy

LEMMA ResolutionKeeps ==
  ASSUME NEW w \in Turns, NEW n \in Nat, Settled(w, n), w.client = "starting",
         NEW addresses \in Answers, NEW opened \in BOOLEAN
  PROVE  Settled(hostResolutionDone(w, addresses, opened), n)
<1> DEFINE address == firstAddress(Style, addresses)
           p == latchAddress(w.ping, address)
           latched == [w EXCEPT !.ping = p]
           s == createSocket(p)
           started == [latched EXCEPT !.ping = s, !.client = "started"]
<1>1. address \in Families \cup {"nil"}
  BY DEF firstAddress, Suits, Answers, Addresses, Families
<1> HIDE DEF address
<1>2. /\ p \in Objects /\ p.host = 0 /\ p.socket = 0 /\ p.hostAddress = address
      /\ SameNumber(w.ping, p)
  BY <1>1, LatchObject DEF Settled, Agreed, Turns
<1> HIDE DEF p
<1>3. latched \in Turns /\ latched.ping = p /\ latched.client = "starting"
  BY <1>2 DEF Turns
<1>4. Busy(latched, n)
  BY <1>2, <1>3 DEF Settled, Busy, Counted, SameNumber
<1>5. Settled(didFailWithError(latched), n)
  BY <1>3, <1>4, FailureKeeps
<1>6. address # "nil" => Settled(Callback(started, "didStartWithAddress"), n)
  <2> HAVE address # "nil"
  <2>1. /\ s \in Objects /\ s.host = 0 /\ s.socket # 0 /\ s.hostAddress # "nil"
        /\ SameNumber(p, s)
    BY <1>2, CreateSocketObject
  <2> HIDE DEF s
  <2>2. started \in Turns /\ started.ping = s /\ started.client = "started"
    BY <1>3, <2>1 DEF Turns, ClientStates
  <2>3. Settled(started, n)
    BY <1>3, <1>4, <2>1, <2>2 DEF Settled, Busy, Counted, SameNumber, Agreed
  <2> QED BY <2>2, <2>3, CallbackKeeps DEF CallbackNames
<1>7. hostResolutionDone(w, addresses, opened) =
        IF address = "nil" \/ ~opened THEN didFailWithError(latched)
        ELSE Callback(started, "didStartWithAddress")
  BY <1>3 DEF hostResolutionDone, startWithHostAddress, address, p, Turns
<1> QED BY <1>5, <1>6, <1>7

LEMMA ReadKeeps ==
  ASSUME NEW w \in Turns, NEW n \in Nat, Settled(w, n), w.client = "started", NEW packet
  PROVE  Settled(readData(w, packet), n)
BY CallbackKeeps DEF readData, CallbackNames

-----------------------------------------------------------------------------
(* The steps *)

\* A turn that ends settled keeps the invariant.
LEMMA TurnEnds ==
  ASSUME IInv, NEW w, NEW newStarts \in 0 .. 2, NEW newSends \in 0 .. 1,
         Becomes(w, newStarts, newSends), Settled(w, sent + newSends),
         sent + newSends <= MaxSends
  PROVE  IInv'
<1>1. w = [ping |-> w.ping, client |-> w.client, calls |-> w.calls]
  BY DEF Settled, Busy, Turns
<1>2. [ping |-> ping', client |-> client', calls |-> calls'] = w
  BY <1>1 DEF Becomes
<1>3. starts' \in 0 .. MaxStarts /\ sent' \in 0 .. MaxSends /\ sent' = sent + newSends
  BY SimplePingAssumption DEF Becomes, IInv
<1> QED BY <1>2, <1>3 DEF IInv

\* A turn begins settled, with no calls yet.
LEMMA TurnBegins ==
  ASSUME IInv
  PROVE  /\ Settled(Turn, sent) /\ Turn \in Turns /\ Turn.client = client
         /\ sent \in Nat /\ sent + 0 <= MaxSends /\ sent + 0 = sent
<1>1. /\ ping \in Objects /\ client \in ClientStates
      /\ Counted(ping, sent) /\ Agreed(ping, client)
  BY DEF IInv, Settled, Busy, Turns
<1>2. Turn \in Turns
  BY <1>1 DEF Turn, Turns
<1> QED BY <1>1, <1>2, SimplePingAssumption DEF Turn, Settled, Busy, IInv

LEMMA RestartCount == ASSUME NEW r \in Reactions PROVE Restarts(r) \in 0 .. 1
BY DEF Restarts

LEMMA InitInv == Init => IInv
<1> SUFFICES ASSUME Init PROVE IInv
  OBVIOUS
<1>1. ping \in Object /\ Stopped(ping) /\ ping.sources = {}
  BY SequenceAssumption DEF Init, initWithHostName, Object, SequenceNumbers, Stopped
<1>2. ping \in Objects
  BY <1>1 DEF Objects, Scheduled, Stopped
<1>3. Counted(ping, sent)
  <2>1. 0 % SequenceModulus = 0
    BY SequenceAssumption, NextRemainder
  <2> QED BY <2>1, SequenceAssumption DEF Init, initWithHostName, Counted
<1> QED
  BY <1>1, <1>2, <1>3, SimplePingAssumption
     DEF Init, IInv, Settled, Busy, Turns, Agreed, ClientStates

LEMMA StartInv == IInv /\ start => IInv'
<1> SUFFICES ASSUME IInv, start PROVE IInv'
  OBVIOUS
<1>1. /\ Settled(Turn, sent) /\ Turn \in Turns /\ Turn.client = "stopped"
      /\ sent \in Nat /\ sent + 0 <= MaxSends /\ sent + 0 = sent
  BY TurnBegins DEF start
<1>2. Settled(StartCall(Turn, TRUE), sent) /\ Settled(StartCall(Turn, FALSE), sent)
  BY <1>1, StartCallKeeps
<1>3. CASE Becomes(StartCall(Turn, TRUE), 1, 0)
  <2>1. 1 \in 0 .. 2 /\ 0 \in 0 .. 1
    OBVIOUS
  <2>2. Settled(StartCall(Turn, TRUE), sent + 0)
    BY <1>1, <1>2
  <2> QED BY <1>1, <1>3, <2>1, <2>2, TurnEnds
<1>4. ASSUME NEW r \in Reactions,
             Becomes(React(StartCall(Turn, FALSE), r), 1 + Restarts(r), 0)
      PROVE  IInv'
  <2>1. Settled(React(StartCall(Turn, FALSE), r), sent)
    BY <1>1, <1>2, ReactKeeps DEF Settled, Busy
  <2>2. 1 + Restarts(r) \in 0 .. 2 /\ 0 \in 0 .. 1
    BY <1>4, RestartCount
  <2>3. Settled(React(StartCall(Turn, FALSE), r), sent + 0)
    BY <1>1, <2>1
  <2> QED BY <1>1, <1>4, <2>2, <2>3, TurnEnds
<1> QED BY <1>3, <1>4 DEF start

LEMMA StopInv == IInv /\ stopByClient => IInv'
<1> SUFFICES ASSUME IInv, stopByClient PROVE IInv'
  OBVIOUS
<1>1. /\ Settled(Turn, sent) /\ Turn \in Turns
      /\ sent \in Nat /\ sent + 0 <= MaxSends /\ sent + 0 = sent
  BY TurnBegins
<1>2. Settled(StopCall(Turn), sent)
  BY <1>1, StopCallKeeps DEF Settled
<1> QED BY <1>1, <1>2, TurnEnds DEF stopByClient

LEMMA SendInv == IInv /\ Send => IInv'
<1> SUFFICES ASSUME IInv, Send PROVE IInv'
  OBVIOUS
<1>1. /\ Settled(Turn, sent) /\ Turn \in Turns /\ Turn.client = "started"
      /\ sent \in Nat /\ sent + 1 <= MaxSends
  BY TurnBegins, SimplePingAssumption DEF Send
<1>2. PICK delivered \in BOOLEAN, r \in Reactions :
        Becomes(sendPingWithData(Turn, delivered, r), Restarts(r), 1)
  BY DEF Send
<1>3. Settled(sendPingWithData(Turn, delivered, r), sent + 1)
  BY <1>1, SendKeeps
<1>4. Restarts(r) \in 0 .. 2
  BY RestartCount
<1> QED BY <1>1, <1>2, <1>3, <1>4, TurnEnds

\* Only a client that is told of nothing yet has a CFHost, and only one that has
\* been told of the start has a CFSocket.
LEMMA SourceTells ==
  ASSUME IInv, NEW source \in ping.sources
  PROVE  /\ source.kind = "CFHost" => client = "starting"
         /\ source.kind = "CFSocket" => client = "started"
<1>1. Scheduled(ping) /\ Agreed(ping, client) /\ client \in ClientStates
  BY DEF IInv, Settled, Busy, Turns, Objects
<1>2. \/ source.kind = "CFHost" /\ ping.host # 0
      \/ source.kind = "CFSocket" /\ ping.socket # 0
  <2>1. CASE source \in {CFHost(n) : n \in {ping.host} \ {0}}
    BY <2>1 DEF CFHost
  <2>2. CASE source \in {CFSocket(n) : n \in {ping.socket} \ {0}}
    BY <2>2 DEF CFSocket
  <2> QED BY <1>1, <2>1, <2>2 DEF Scheduled
<1>3. /\ ping.host # 0 => client = "starting"
      /\ ping.socket # 0 => client = "started"
  BY <1>1 DEF Agreed, Stopped, ClientStates
<1> QED BY <1>2, <1>3

LEMMA ResolveInv == IInv /\ HostResolveCallback => IInv'
<1> SUFFICES ASSUME IInv, HostResolveCallback PROVE IInv'
  OBVIOUS
<1>1. client = "starting"
  BY SourceTells DEF HostResolveCallback
<1>2. /\ Settled(Turn, sent) /\ Turn \in Turns /\ Turn.client = "starting"
      /\ sent \in Nat /\ sent + 0 <= MaxSends /\ sent + 0 = sent
  BY <1>1, TurnBegins
<1>3. PICK r \in Reactions :
        \/ Becomes(React(didFailWithError(Turn), r), Restarts(r), 0)
        \/ \E addresses \in Answers, opened \in BOOLEAN :
             Becomes(React(hostResolutionDone(Turn, addresses, opened), r), Restarts(r), 0)
  BY DEF HostResolveCallback
<1>4. Restarts(r) \in 0 .. 2
  BY RestartCount
<1>5. Settled(React(didFailWithError(Turn), r), sent)
  BY <1>2, FailureKeeps, ReactKeeps DEF Settled, Busy
<1>6. ASSUME NEW addresses \in Answers, NEW opened \in BOOLEAN
      PROVE  Settled(React(hostResolutionDone(Turn, addresses, opened), r), sent)
  BY <1>2, ResolutionKeeps, ReactKeeps DEF Settled, Busy
<1> QED BY <1>2, <1>3, <1>4, <1>5, <1>6, TurnEnds

LEMMA ReadInv == IInv /\ SocketReadCallback => IInv'
<1> SUFFICES ASSUME IInv, SocketReadCallback PROVE IInv'
  OBVIOUS
<1>1. client = "started"
  BY SourceTells DEF SocketReadCallback
<1>2. /\ Settled(Turn, sent) /\ Turn \in Turns /\ Turn.client = "started"
      /\ sent \in Nat /\ sent + 0 <= MaxSends /\ sent + 0 = sent
  BY <1>1, TurnBegins
<1>3. PICK r \in Reactions :
        \/ Becomes(React(didFailWithError(Turn), r), Restarts(r), 0)
        \/ \E packet \in Packets(Identifiers) :
             Becomes(React(readData(Turn, packet), r), Restarts(r), 0)
  BY DEF SocketReadCallback
<1>4. Restarts(r) \in 0 .. 2
  BY RestartCount
<1>5. Settled(React(didFailWithError(Turn), r), sent)
  BY <1>2, FailureKeeps, ReactKeeps DEF Settled, Busy
<1>6. ASSUME NEW packet PROVE Settled(React(readData(Turn, packet), r), sent)
  BY <1>2, ReadKeeps, ReactKeeps DEF Settled, Busy
<1> QED BY <1>2, <1>3, <1>4, <1>5, <1>6, TurnEnds

LEMMA NextInv == IInv /\ [Next]_vars => IInv'
<1> SUFFICES ASSUME IInv, [Next]_vars PROVE IInv'
  OBVIOUS
<1>1. CASE UNCHANGED vars
  BY <1>1 DEF vars, IInv
<1>2. CASE Next
  BY <1>2, StartInv, StopInv, SendInv, ResolveInv, ReadInv DEF Next
<1> QED BY <1>1, <1>2

\* The invariant holds in every run of every client that keeps the rules.
THEOREM ObjectInvariant == Spec => []IInv
  BY InitInv, NextInv, PTL DEF Spec

\* The run loop can call into the object only through the CFHost and the CFSocket
\* its fields name, for any number of starts.
THEOREM NoStaleSource == Spec => []SourcesAreCurrent
<1>1. IInv => SourcesAreCurrent
  BY DEF IInv, Settled, Busy, Turns, Objects, Scheduled, SourcesAreCurrent
<1> QED BY ObjectInvariant, <1>1, PTL

\* The object and its client agree on the phase of the run, so the assertions of start
\* and sendPingWithData hold for any number of starts.
THEOREM PhasesAgree == Spec => []PhaseAgreed
<1>1. IInv => PhaseAgreed
  BY DEF IInv, Settled, Agreed, PhaseAgreed
<1> QED BY ObjectInvariant, <1>1, PTL

\* Every callback finds the object in the state SimplePing.h promises.
THEOREM ContractKept == Spec => []CallbackContract
<1>1. IInv => CallbackContract
  BY DEF IInv, Settled, Busy, Turns, Told, CallbackContract
<1> QED BY ObjectInvariant, <1>1, PTL

\* A reply to one of the last pings is accepted, wrapped or not.
LEMMA CountAccepts ==
  ASSUME NEW p \in Object, NEW n \in Nat, Counted(p, n),
         NEW k \in 1 .. ReplyWindow - 1, k <= n
  PROVE  validateSequenceNumber(p, (n - k) % SequenceModulus)
<1> DEFINE m == SequenceModulus
           r == n % m
           s == (n - k) % m
<1>0. m \in Nat \ {0} /\ k \in Nat /\ k < m /\ n - k \in Nat /\ k < ReplyWindow /\ 1 <= k
  BY SequenceAssumption
<1> HIDE DEF m
<1>1. CASE n < m
  <2>1. n - k < m
    BY <1>0, <1>1
  <2>2. n % m = n
    BY <1>0, <1>1, NextRemainder
  <2>3. (n - k) % m = n - k
    <3> DEFINE j == n - k
    <3>1. j \in Nat /\ j < m
      BY <1>0, <2>1
    <3> HIDE DEF j
    <3>2. j % m = j
      BY <1>0, <3>1, NextRemainder
    <3> QED BY <3>2 DEF j
  <2> QED BY <1>0, <1>1, <2>2, <2>3 DEF validateSequenceNumber, Counted, m
<1>2. CASE n >= m
  <2> DEFINE q == n \div m
             t == (n - k) \div m
  <2>1. /\ q \in Int /\ r \in 0 .. m - 1 /\ n = m * q + r
    BY <1>0, SMTT(30)
  <2>2. /\ t \in Int /\ s \in 0 .. m - 1 /\ n - k = m * t + s
    BY <1>0, SMTT(30)
  <2> HIDE DEF q, r, s, t
  <2>3. r - s = m * (t - q) + k
    BY <1>0, <2>1, <2>2, SMT
  <2>4. (r - s) % m = k
    <3>1. t - q \in Int /\ r - s \in Int /\ k \in 0 .. m - 1
      BY <1>0, <2>1, <2>2
    <3> QED BY <1>0, <2>3, <3>1, Remainder
  <2> QED BY <1>0, <1>2, <2>4 DEF validateSequenceNumber, Counted, m, r, s
<1> QED BY <1>0, <1>1, <1>2

\* No reply to one of the last pings is refused, for every modulus and window: the
\* code's are 65536 and 120.
THEOREM RepliesAccepted == Spec => []RecentAccepted
<1>1. IInv => RecentAccepted
  <2> SUFFICES ASSUME IInv, NEW k \in 1 .. ReplyWindow - 1, k <= sent
               PROVE  validateSequenceNumber(ping, (sent - k) % SequenceModulus)
    BY DEF RecentAccepted, LastSent
  <2>1. ping \in Object /\ Counted(ping, sent) /\ sent \in Nat
    BY SimplePingAssumption DEF IInv, Settled, Busy, Turns, Objects
  <2> QED BY <2>1, CountAccepts
<1> QED BY ObjectInvariant, <1>1, PTL
=============================================================================
