-------------------------- MODULE CombineLatestProofs -------------------------
(***************************************************************************)
(* A join of any number of signals, on whatever threads they send: no      *)
(* completion overtakes a value, what is handed on is the values in the    *)
(* order of the signals, nobody waits in a ring, and the chain of pairs    *)
(* takes the steps of Join.                                                *)
(*                                                                         *)
(* A carrier keeps the locks of the pairs it has come through, so of those *)
(* that are past a pair one at most is on its way up from it. A side of a  *)
(* pair is stored once, so a pair that has both its sides passes its value *)
(* up once: the carrier that stored the second side does, before the lock  *)
(* is free for a completion.                                               *)
(*                                                                         *)
(* Each pair holds what the pair below packed and the value of its own     *)
(* signal, so the last map takes off one value in each of its rounds, the  *)
(* last signal's first.                                                    *)
(***************************************************************************)
EXTENDS CombineLatest, WellFoundedInduction, TLAPS

Stored(p, side) == value[p][side] # nil
Entered(c) == Stored(Start(c), Side(c, Start(c)))
Full(p) == BothIn(value[p])
Climbing(c) == carrier[c].at \in {"acquire", "test"}
Brings(c) == Climbing(c) /\ carrier[c].what = "next"

\* The pairs whose locks a carrier keeps.
Held(c) ==
  IF carrier[c].at = "acquire" THEN Start(c) .. carrier[c].pair - 1
  ELSE IF carrier[c].at = "test" THEN Start(c) .. carrier[c].pair ELSE {}

\* The value of a pair is with the pair above, or past the top one.
HandedOn == delivered # <<>> \/ background = <<"joined">>
Gone(p) == IF p < N THEN Stored(p + 1, "self") ELSE HandedOn

\* A carrier that brings a value is on its way from pair p to the one above.
Leaves(c, p) ==
  /\ carrier[c].what = "next"
  /\ \/ carrier[c].at = "test" /\ carrier[c].pair = p
     \/ carrier[c].at = "acquire" /\ carrier[c].pair = p + 1 /\ p >= Start(c)

TypeInv ==
  /\ subscribed \in 0 .. N
  /\ kind \in [Signals -> Kinds \cup {"none"}]
  /\ carrier \in [Carriers -> [at : Steps, what : {"next", "completed"}, pair : Pairs]]
  /\ lock \in [Pairs -> Carriers \cup {Free}]
  /\ DOMAIN value = Pairs /\ \A p \in Pairs : DOMAIN value[p] = Sides
  /\ completed \in [Pairs -> [Sides -> BOOLEAN]]
  /\ disposed \in [Pairs -> BOOLEAN]
  /\ background \in {<<>>, <<"first">>, <<"joined">>}
  /\ ended \in BOOLEAN
  /\ delivered \in {<<>>, <<Packed(value[N])>>}
  /\ \A c \in Carriers : Climbing(c) => carrier[c].pair \in Start(c) .. N

Locks == \A p \in Pairs, c \in Carriers : lock[p] = c <=> p \in Held(c)

\* Each signal sends once, signal 1 itself or through the background scheduler.
SendsOnce ==
  /\ \A s \in Signals : carrier[s].at # "idle" => s <= subscribed
  /\ \A s \in Signals : carrier[s].at = "idle" => ~Entered(s)
  /\ carrier[1].at = "idle" => carrier[0].at = "idle"
  /\ background = <<"first">> =>
       kind[1] = "bare" /\ ~Entered(0) /\ carrier[0].at = "idle" /\ carrier[1].at # "idle"
  /\ carrier[0].at # "idle" => kind[1] = "bare"
  /\ Brings(1) => kind[1] # "bare"

\* What a carrier brings is not in yet, and what it passes on has not been.
NotYetFor(c) ==
  \A p \in Pairs : Brings(c) /\ carrier[c].pair = p =>
    IF carrier[c].at = "acquire"
    THEN ~Stored(p, Side(c, p)) /\ (p > Start(c) => Full(p - 1))
    ELSE ~Gone(p)
NotYet == \A c \in Carriers : NotYetFor(c)

\* A carrier that has stored at its first pair, or has to do with a completion.
EnteredFor(c) ==
  /\ \/ carrier[c].at = "test"
     \/ carrier[c].at = "acquire" /\ carrier[c].pair > Start(c)
     \/ carrier[c].at = "ending" /\ (c = 1 => kind[1] # "bare")
     \/ carrier[c].what = "completed"
     => Entered(c)
  /\ \A p \in Pairs :
       Climbing(c) /\ carrier[c].what = "completed" /\ carrier[c].pair = p /\ p > Start(c) =>
         Gone(p - 1)
HasEntered == \A c \in Carriers : EnteredFor(c)

\* What is gone had both sides at every pair below; what has both sides is gone or on
\* its way; a completion comes after the value.
Chain ==
  /\ \A p, q \in Pairs : Gone(p) /\ q <= p => Full(q)
  /\ \A p \in Pairs : Full(p) => Gone(p) \/ \E c \in Carriers : Leaves(c, p)
  /\ \A p \in Pairs : disposed[p] => Gone(p)
  /\ \A p \in Pairs, side \in Sides : completed[p][side] => Stored(p, side)

\* The inner signals of the two maps leave when they have sent.
Maps ==
  /\ "inner" \notin firstMap => Entered(0)
  /\ "inner" \in lastMap <=> delivered = <<>>
  /\ ended => delivered # <<>>
  /\ background = <<"joined">> => delivered = <<>>

IInv == TypeInv /\ Locks /\ SendsOnce /\ NotYet /\ HasEntered /\ Chain /\ Maps

\* What is stored at a side is what its signal sent or what the pair below packed.
OwnValue(p) == object_or_ractuplenil(0, Sent(p))
FromBelow(p) == IF p = 2 THEN RACTuplePack(<<Sent(1)>>) ELSE Packed(value[p - 1])
Contents ==
  \A p \in Pairs :
    value[p]["other"] \in {nil, OwnValue(p)} /\ value[p]["self"] \in {nil, FromBelow(p)}

\* What is handed on is a layer for every pair, around the value of signal 1.
LayersAreWhole ==
  delivered # <<>> =>
    /\ delivered = <<Packed(value[N])>>
    /\ \A p \in Pairs : value[p]["other"] = OwnValue(p) /\ value[p]["self"] = FromBelow(p)

\* When carriers are on their way through the pairs, one of them can go on.
SomebodyGoesOn ==
  (\E c \in Carriers : Climbing(c)) =>
    \E c \in Carriers :
      \/ carrier[c].at = "test"
      \/ carrier[c].at = "acquire" /\ lock[carrier[c].pair] = Free

-----------------------------------------------------------------------------
(* The operators *)

LEMMA Numbers == N \in Nat /\ N >= 2 /\ Free \notin Carriers /\ 0 \in Carriers /\ 1 \in Carriers
                 /\ 1 \in Signals /\ 2 \in Pairs /\ N \in Pairs
  BY SignalsAssumption DEF Free, Carriers, Signals, Pairs

LEMMA Places ==
  ASSUME NEW c \in Carriers
  PROVE  /\ Start(c) \in Pairs /\ \A p : Side(c, p) \in Sides
         /\ \A p \in Pairs : p > Start(c) => Side(c, p) = "self" /\ p - 1 \in Pairs
         /\ \A p \in Pairs : p < N => p + 1 \in Pairs
         /\ c # 0 => c \in Signals
  BY SignalsAssumption DEF Start, Side, Sides, Carriers, Pairs, Signals

LEMMA SideValues == "self" \in Sides /\ "other" \in Sides /\ \A s \in Sides : s = "self" \/ s = "other"
  BY DEF Sides

\* A tuple is not nil, and nothing that a pair stores is.
LEMMA NeverNil ==
  /\ \A a : RACTuplePack(a) # nil
  /\ \A i, v : object_or_ractuplenil(i, v) # nil
  BY DEF RACTuplePack, tupleWithObjectsFromArray, object_or_ractuplenil, nil, tupleNil

LEMMA StoreEffect ==
  ASSUME TypeInv, NEW c \in Carriers, NEW p \in Pairs, carrier[c].what = "next", store(c, p)
  PROVE  /\ completed' = completed
         /\ DOMAIN value' = Pairs /\ \A q \in Pairs : DOMAIN value'[q] = Sides
         /\ value'[p][Side(c, p)] = object_or_ractuplenil(0, Carried(c, p))
         /\ \A q \in Pairs, side \in Sides :
              q # p \/ side # Side(c, p) => value'[q][side] = value[q][side]
         /\ \A q \in Pairs : q # p => value'[q] = value[q]
<1> DEFINE v == object_or_ractuplenil(0, Carried(c, p))
           side == Side(c, p)
<1>1. value' = [value EXCEPT ![p][side] = v] /\ completed' = completed
  BY DEF store
<1>2. side \in Sides /\ DOMAIN value = Pairs /\ \A q \in Pairs : DOMAIN value[q] = Sides
  BY Places DEF TypeInv
<1> HIDE DEF v, side
<1>3. DOMAIN value' = Pairs /\ value'[p] = [value[p] EXCEPT ![side] = v]
  BY <1>1, <1>2
<1>4. \A q \in Pairs : q # p => value'[q] = value[q]
  BY <1>1, <1>2
<1>5. DOMAIN value'[p] = Sides /\ value'[p][side] = v
  BY <1>2, <1>3
<1>6. \A other \in Sides : other # side => value'[p][other] = value[p][other]
  BY <1>2, <1>3
<1>7. \A q \in Pairs : DOMAIN value'[q] = Sides
  BY <1>2, <1>4, <1>5
<1>8. \A q \in Pairs, other \in Sides : q # p \/ other # side => value'[q][other] = value[q][other]
  BY <1>4, <1>6
<1> QED
  BY <1>1, <1>3, <1>4, <1>5, <1>7, <1>8 DEF v, side

\* What a completion stores.
LEMMA CompletedEffect ==
  ASSUME TypeInv, NEW c \in Carriers, NEW p \in Pairs, carrier[c].what # "next", store(c, p)
  PROVE  /\ value' = value /\ completed' \in [Pairs -> [Sides -> BOOLEAN]]
         /\ \A q \in Pairs, side \in Sides : completed'[q][side] =>
              completed[q][side] \/ (q = p /\ side = Side(c, p))
<1>1. completed' = [completed EXCEPT ![p][Side(c, p)] = TRUE] /\ value' = value
  BY DEF store
<1>2. Side(c, p) \in Sides /\ completed \in [Pairs -> [Sides -> BOOLEAN]]
  BY Places DEF TypeInv
<1> QED
  BY <1>1, <1>2

LEMMA InitInv == Init => IInv
<1> SUFFICES ASSUME Init PROVE IInv
  OBVIOUS
<1>1. /\ \A c \in Carriers : carrier[c].at = "idle" /\ carrier[c].what = "next"
      /\ \A p \in Pairs : disposed[p] = FALSE /\ lock[p] = Free
      /\ \A p \in Pairs, side \in Sides : value[p][side] = nil /\ completed[p][side] = FALSE
      /\ background = <<>> /\ delivered = <<>> /\ ended = FALSE /\ subscribed = 0
      /\ firstMap = {"source", "inner"} /\ lastMap = {"source", "inner"}
  BY DEF Init
<1>2. TypeInv
  <2>1. \A c \in Carriers : Start(c) \in Pairs
    BY Places
  <2>2. carrier \in [Carriers -> [at : Steps, what : {"next", "completed"}, pair : Pairs]]
    BY <2>1 DEF Init, Steps
  <2>3. kind \in [Signals -> Kinds \cup {"none"}] /\ lock \in [Pairs -> Carriers \cup {Free}]
    BY DEF Init
  <2>4. DOMAIN value = Pairs /\ \A p \in Pairs : DOMAIN value[p] = Sides
    BY DEF Init
  <2>5. completed \in [Pairs -> [Sides -> BOOLEAN]] /\ disposed \in [Pairs -> BOOLEAN]
    BY DEF Init
  <2>6. \A c \in Carriers : ~Climbing(c)
    BY <1>1 DEF Climbing
  <2>7. /\ background \in {<<>>, <<"first">>, <<"joined">>}
        /\ delivered \in {<<>>, <<Packed(value[N])>>}
    BY <1>1
  <2>8. subscribed \in 0 .. N
    BY <1>1, SignalsAssumption
  <2>9. ended \in BOOLEAN
    BY <1>1
  <2> QED BY <2>2, <2>3, <2>4, <2>5, <2>6, <2>7, <2>8, <2>9, Zenon DEF TypeInv
<1>3. Locks
  BY <1>1, Numbers DEF Locks, Held
<1>4. \A c \in Carriers : ~Entered(c)
  BY <1>1, Places DEF Entered, Stored
<1>5. SendsOnce
  BY <1>1, <1>4, Numbers, Places DEF SendsOnce, Brings, Climbing, Signals, Carriers
<1>6. NotYet /\ HasEntered
  BY <1>1 DEF NotYet, HasEntered, NotYetFor, EnteredFor, Brings, Climbing
<1>7. \A p \in Pairs : ~Full(p)
  BY <1>1, SideValues DEF Full, BothIn
<1>8. \A p \in Pairs : ~Gone(p)
  BY <1>1, SideValues, Numbers DEF Gone, HandedOn, Stored, Pairs
<1>9. Chain
  BY <1>1, <1>7, <1>8 DEF Chain
<1>10. Maps
  BY <1>1 DEF Maps
<1> QED
  BY <1>2, <1>3, <1>5, <1>6, <1>9, <1>10 DEF IInv

-----------------------------------------------------------------------------
(* One step *)

At == [at : Steps, what : {"next", "completed"}, pair : Pairs]

\* A step of one carrier: the others are where they were.
LEMMA OneMoves ==
  ASSUME TypeInv, NEW c \in Carriers, NEW r \in At, carrier' = [carrier EXCEPT ![c] = r]
  PROVE  /\ carrier' \in [Carriers -> At] /\ carrier'[c] = r
         /\ \A d \in Carriers : d # c => carrier'[d] = carrier[d]
         /\ \A d \in Carriers : d # c =>
              /\ Climbing(d)' <=> Climbing(d)
              /\ Brings(d)' <=> Brings(d)
              /\ Held(d)' = Held(d)
              /\ \A p \in Pairs : Leaves(d, p)' <=> Leaves(d, p)
<1>1. carrier' \in [Carriers -> At] /\ carrier'[c] = r
  BY DEF TypeInv, At
<1>2. ASSUME NEW d \in Carriers, d # c PROVE carrier'[d] = carrier[d]
  BY <1>2 DEF TypeInv
<1>3. ASSUME NEW d \in Carriers, d # c
      PROVE  /\ Climbing(d)' <=> Climbing(d)
             /\ Brings(d)' <=> Brings(d)
             /\ Held(d)' = Held(d)
             /\ \A p \in Pairs : Leaves(d, p)' <=> Leaves(d, p)
  BY <1>2, <1>3 DEF Climbing, Brings, Held, Leaves
<1> QED
  BY <1>1, <1>2, <1>3

\* What a step that stores no value keeps.
LEMMA SameValues ==
  ASSUME value' = value
  PROVE  /\ \A p \in Pairs, side \in Sides : Stored(p, side)' <=> Stored(p, side)
         /\ \A c \in Carriers : Entered(c)' <=> Entered(c)
         /\ \A p \in Pairs : Full(p)' <=> Full(p)
         /\ (HandedOn' <=> HandedOn) => \A p \in Pairs : Gone(p)' <=> Gone(p)
  BY DEF Stored, Entered, Full, Gone

LEMMA SubscribeInv == ASSUME IInv, NEW s \in Signals, Subscribe(s) PROVE IInv'
<1>1. /\ subscribed = s - 1 /\ subscribed' = s
      /\ UNCHANGED <<carrier, lock, value, completed, disposed,
                     background, firstMap, lastMap, delivered, ended>>
      /\ \E k \in Kinds : kind' = [kind EXCEPT ![s] = k]
  BY DEF Subscribe, pairVars, mapVars
<1>2. kind' \in [Signals -> Kinds \cup {"none"}] /\ \A t \in Signals : t # s => kind'[t] = kind[t]
  BY <1>1 DEF IInv, TypeInv
<1>3. carrier[s].at = "idle"
  <2>1. ~(s <= subscribed)
    BY <1>1, SignalsAssumption DEF Signals
  <2> QED BY <2>1 DEF IInv, SendsOnce
<1>4. kind'[1] = kind[1] \/ (carrier[1].at = "idle" /\ carrier[0].at = "idle"
                             /\ background # <<"first">>)
  BY <1>2, <1>3, Numbers DEF IInv, SendsOnce
<1>5. /\ \A c \in Carriers : /\ Climbing(c)' <=> Climbing(c)
                             /\ Brings(c)' <=> Brings(c)
                             /\ Held(c)' = Held(c)
                             /\ \A p \in Pairs : Leaves(c, p)' <=> Leaves(c, p)
      /\ HandedOn' <=> HandedOn
  BY <1>1 DEF Climbing, Brings, Held, Leaves, HandedOn
<1>6. /\ \A p \in Pairs, side \in Sides : Stored(p, side)' <=> Stored(p, side)
      /\ \A c \in Carriers : Entered(c)' <=> Entered(c)
      /\ \A p \in Pairs : Full(p)' <=> Full(p)
      /\ \A p \in Pairs : Gone(p)' <=> Gone(p)
  BY <1>1, <1>5, SameValues
<1>7. TypeInv'
  <2>1. subscribed' \in 0 .. N
    BY <1>1, SignalsAssumption DEF Signals
  <2>2. Packed(value[N])' = Packed(value[N])
    BY <1>1 DEF Packed
  <2> QED BY <1>1, <1>2, <1>5, <2>1, <2>2 DEF IInv, TypeInv
<1>8. Locks'
  BY <1>1, <1>5 DEF IInv, Locks
<1>9. SendsOnce'
  <2>1. \A t \in Signals : carrier'[t].at # "idle" => t <= subscribed'
    <3>1. \A t \in Signals : carrier[t].at # "idle" => t <= subscribed
      BY DEF IInv, SendsOnce
    <3> QED BY <1>1, <3>1, SignalsAssumption DEF Signals
  <2>2. \A t \in Signals : carrier'[t].at = "idle" => ~Entered(t)'
    <3>1. \A t \in Signals : t \in Carriers
      BY DEF Signals, Carriers
    <3> QED BY <1>1, <1>6, <3>1 DEF IInv, SendsOnce
  <2>3. /\ background' = <<"first">> => kind'[1] = "bare" /\ ~Entered(0)'
        /\ carrier'[0].at # "idle" => kind'[1] = "bare"
        /\ Brings(1)' => kind'[1] # "bare"
    BY <1>1, <1>4, <1>5, <1>6, Numbers DEF IInv, SendsOnce, Brings, Climbing
  <2> QED BY <1>1, <2>1, <2>2, <2>3 DEF IInv, SendsOnce
<1>10. NotYet' /\ HasEntered'
  <2>1. NotYet'
    <3>1. \A c \in Carriers, p \in Pairs : p > Start(c) => p - 1 \in Pairs
      BY Places
    <3> QED BY <1>1, <1>5, <1>6, <3>1, Places DEF IInv, NotYet, NotYetFor
  <2>2. HasEntered'
    <3>1. \A c \in Carriers, p \in Pairs : p > Start(c) => p - 1 \in Pairs
      BY Places
    <3>2. carrier[1].at # "ending" \/ kind'[1] = kind[1]
      BY <1>4
    <3> QED BY <1>1, <1>5, <1>6, <3>1, <3>2 DEF IInv, HasEntered, EnteredFor
  <2> QED BY <2>1, <2>2
<1>11. Chain' /\ Maps'
  BY <1>1, <1>5, <1>6, Numbers DEF IInv, Chain, Maps
<1> QED
  BY <1>7, <1>8, <1>9, <1>10, <1>11 DEF IInv

\* A step of one carrier that stores nothing: what has to be shown is what it says of
\* that carrier.
LEMMA KeepsOthers ==
  ASSUME IInv, NEW c \in Carriers, NEW r \in At, carrier' = [carrier EXCEPT ![c] = r],
         UNCHANGED <<kind, value>>, HandedOn' <=> HandedOn
  PROVE  \A d \in Carriers : d # c => NotYetFor(d)' /\ EnteredFor(d)'
<1>1. \A d \in Carriers : d # c => /\ carrier'[d] = carrier[d]
                                   /\ Climbing(d)' <=> Climbing(d)
                                   /\ Brings(d)' <=> Brings(d)
  BY OneMoves DEF IInv
<1>2. /\ \A p \in Pairs, side \in Sides : Stored(p, side)' <=> Stored(p, side)
      /\ \A d \in Carriers : Entered(d)' <=> Entered(d)
      /\ \A p \in Pairs : Full(p)' <=> Full(p)
      /\ \A p \in Pairs : Gone(p)' <=> Gone(p)
  BY SameValues
<1>3. \A d \in Carriers, p \in Pairs : Side(d, p) \in Sides /\ (p > Start(d) => p - 1 \in Pairs)
  BY Places
<1>4. ASSUME NEW d \in Carriers, d # c PROVE NotYetFor(d)' /\ EnteredFor(d)'
  <2>1. NotYetFor(d) /\ EnteredFor(d)
    BY DEF IInv, NotYet, HasEntered
  <2>2. NotYetFor(d)'
    BY <1>1, <1>2, <1>3, <1>4, <2>1 DEF NotYetFor
  <2>3. EnteredFor(d)'
    BY <1>1, <1>2, <1>3, <1>4, <2>1 DEF EnteredFor
  <2> QED BY <2>2, <2>3
<1> QED
  BY <1>4

\* A signal is passed on its value and begins to climb, or its value goes to the
\* background scheduler.
LEMMA SendInv == ASSUME IInv, NEW s \in Signals, Send(s) PROVE IInv'
<1>1. /\ s <= subscribed /\ carrier[s].at = "idle" /\ s \in Carriers /\ s # 0
      /\ UNCHANGED <<subscribed, kind, lock, value, completed, disposed,
                     firstMap, lastMap, delivered, ended>>
  BY SignalsAssumption DEF Send, pairVars, Signals, Carriers
<1>2. ~Entered(s) /\ Start(s) \in Pairs
  BY <1>1, Places DEF IInv, SendsOnce
<1>3. PICK r \in At :
        /\ carrier' = [carrier EXCEPT ![s] = r]
        /\ \/ /\ s = 1 /\ kind[1] = "bare" /\ r.at = "ending" /\ r.what = carrier[1].what
              /\ background' = Append(background, "first")
           \/ /\ s = 1 => kind[1] # "bare"
              /\ r = [at |-> "acquire", what |-> "next", pair |-> Start(s)]
              /\ background' = background
  <2>1. CASE s = 1 /\ ~HasScheduler(s)
    <3> DEFINE r == [carrier[s] EXCEPT !.at = "ending"]
    <3>1. carrier[s] \in At
      BY <1>1 DEF IInv, TypeInv, At
    <3>2. r \in At /\ r.at = "ending" /\ r.what = carrier[s].what
      BY <3>1 DEF At, Steps
    <3>3. carrier' = [carrier EXCEPT ![s] = r] /\ background' = Append(background, "first")
      BY <2>1 DEF Send, Move
    <3> QED BY <2>1, <3>2, <3>3 DEF HasScheduler
  <2>2. CASE ~(s = 1 /\ ~HasScheduler(s))
    <3> DEFINE r == [at |-> "acquire", what |-> "next", pair |-> Start(s)]
    <3>1. r \in At
      BY <1>2 DEF At, Steps
    <3>2. carrier' = [carrier EXCEPT ![s] = r] /\ background' = background
      BY <2>2 DEF Send, Climb
    <3> QED BY <1>1, <2>2, <3>1, <3>2 DEF HasScheduler
  <2> QED BY <2>1, <2>2
<1>4. /\ carrier' \in [Carriers -> At] /\ carrier'[s] = r
      /\ \A d \in Carriers : d # s =>
           /\ carrier'[d] = carrier[d]
           /\ Climbing(d)' <=> Climbing(d)
           /\ Brings(d)' <=> Brings(d)
           /\ Held(d)' = Held(d)
           /\ \A p \in Pairs : Leaves(d, p)' <=> Leaves(d, p)
  BY <1>1, <1>3, OneMoves DEF IInv
<1>5. s = 1 => background = <<>> /\ ~Entered(0) /\ carrier[0].at = "idle"
  <2> SUFFICES ASSUME s = 1 PROVE background = <<>> /\ ~Entered(0) /\ carrier[0].at = "idle"
    OBVIOUS
  <2>1. ~Entered(0) /\ ~Stored(2, "self")
    BY <1>2 DEF Entered, Start, Side
  <2>2. carrier[0].at = "idle" /\ background # <<"first">>
    BY <1>1, <2>1 DEF IInv, SendsOnce
  <2>3. ~Full(2)
    BY <2>1 DEF Full, BothIn, Stored
  <2>4. ~Gone(N)
    <3>1. 2 \in Pairs /\ N \in Pairs /\ 2 <= N
      BY SignalsAssumption DEF Pairs
    <3> QED BY <2>3, <3>1 DEF IInv, Chain
  <2>5. background # <<"joined">>
    BY <2>4, SignalsAssumption DEF Gone, HandedOn
  <2> QED BY <2>1, <2>2, <2>5 DEF IInv, TypeInv
<1>6. background' \in {background, <<"first">>} /\ (HandedOn' <=> HandedOn)
  <2>1. background' = background \/ (background = <<>> /\ background' = <<"first">>)
    <3>1. background = <<>> => Append(background, "first") = <<"first">>
      OBVIOUS
    <3> QED BY <1>3, <1>5, <3>1
  <2> QED BY <1>1, <2>1 DEF HandedOn
<1>7. /\ \A p \in Pairs, side \in Sides : Stored(p, side)' <=> Stored(p, side)
      /\ \A c \in Carriers : Entered(c)' <=> Entered(c)
      /\ \A p \in Pairs : Full(p)' <=> Full(p)
      /\ \A p \in Pairs : Gone(p)' <=> Gone(p)
  BY <1>1, <1>6, SameValues
<1>8. /\ ~Climbing(s) /\ Held(s) = {} /\ \A p \in Pairs : ~Leaves(s, p)
      /\ Held(s)' = {} /\ \A p \in Pairs : ~Leaves(s, p)'
      /\ Climbing(s)' => r = [at |-> "acquire", what |-> "next", pair |-> Start(s)]
  <2>1. ~Climbing(s) /\ Held(s) = {} /\ \A p \in Pairs : ~Leaves(s, p)
    BY <1>1 DEF Climbing, Held, Leaves
  <2>2. CASE r.at = "ending"
    BY <1>4, <2>1, <2>2 DEF Climbing, Held, Leaves
  <2>3. CASE r = [at |-> "acquire", what |-> "next", pair |-> Start(s)]
    <3>1. Held(s)' = Start(s) .. Start(s) - 1
      BY <1>4, <2>3 DEF Held
    <3>2. Start(s) \in Int /\ Start(s) .. Start(s) - 1 = {}
      BY <1>2 DEF Pairs
    <3>3. \A p \in Pairs : p + 1 = Start(s) => ~(p >= Start(s))
      BY <1>2 DEF Pairs
    <3>4. \A p \in Pairs : ~Leaves(s, p)'
      BY <1>4, <2>3, <3>3 DEF Leaves
    <3> QED BY <2>1, <2>3, <3>1, <3>2, <3>4
  <2> QED BY <1>3, <2>2, <2>3
<1>9. TypeInv'
  <2>1. Packed(value[N])' = Packed(value[N])
    BY <1>1 DEF Packed
  <2>2. \A c \in Carriers : Climbing(c)' => carrier'[c].pair \in Start(c) .. N
    <3>1. Climbing(s)' => carrier'[s].pair \in Start(s) .. N
      BY <1>2, <1>4, <1>8 DEF Pairs
    <3> QED BY <1>4, <3>1 DEF IInv, TypeInv
  <2> QED BY <1>1, <1>4, <1>6, <2>1, <2>2 DEF IInv, TypeInv, At
<1>10. Locks'
  BY <1>1, <1>4, <1>8 DEF IInv, Locks
<1>11. SendsOnce'
  <2>1. \A t \in Signals : t \in Carriers
    BY DEF Signals, Carriers
  <2>2. r.at # "idle"
    BY <1>3
  <2>3. \A t \in Signals : carrier'[t].at # "idle" => t <= subscribed
    BY <1>1, <1>4, <2>1 DEF IInv, SendsOnce
  <2>4. \A t \in Signals : carrier'[t].at = "idle" => ~Entered(t)'
    BY <1>4, <1>7, <2>1, <2>2 DEF IInv, SendsOnce
  <2>5. carrier'[0] = carrier[0]
    BY <1>1, <1>4, Numbers
  <2>6. background' = <<"first">> =>
          kind[1] = "bare" /\ ~Entered(0) /\ carrier[0].at = "idle" /\ carrier'[1].at # "idle"
    BY <1>3, <1>4, <1>5, <2>2, Numbers DEF IInv, SendsOnce
  <2>7. Brings(1)' => kind[1] # "bare"
    BY <1>3, <1>4, <1>8, Numbers DEF IInv, SendsOnce, Brings
  <2>8. carrier'[1].at = "idle" => carrier[1].at = "idle"
    BY <1>4, <2>2, Numbers
  <2> QED BY <1>1, <1>7, <2>3, <2>4, <2>5, <2>6, <2>7, <2>8, Numbers DEF IInv, SendsOnce
<1>12. NotYet' /\ HasEntered'
  <2>1. Brings(s)' => /\ carrier'[s].at = "acquire"
                      /\ \A p \in Pairs : carrier'[s].pair = p => p = Start(s)
    BY <1>4, <1>8 DEF Brings
  <2>2. ~Stored(Start(s), Side(s, Start(s)))'
    BY <1>2, <1>7, Places, <1>1 DEF Entered
  <2>3. \A d \in Carriers : d # s => NotYetFor(d)' /\ EnteredFor(d)'
    BY <1>1, <1>3, <1>6, KeepsOthers
  <2>4. Start(s) \in Int /\ ~(Start(s) > Start(s))
    BY <1>2 DEF Pairs
  <2>5. NotYetFor(s)'
    BY <2>1, <2>2, <2>4 DEF NotYetFor
  <2>6. carrier[s].what = "next"
    BY <1>1, <1>2 DEF IInv, HasEntered, EnteredFor, TypeInv
  <2>7. /\ carrier'[s].what = "next" /\ carrier'[s].at \in {"acquire", "ending"}
        /\ carrier'[s].at = "acquire" => carrier'[s].pair = Start(s)
        /\ carrier'[s].at = "ending" => s = 1 /\ kind'[1] = "bare"
    BY <1>1, <1>3, <1>4, <2>6
  <2>8. EnteredFor(s)'
    BY <2>4, <2>7 DEF EnteredFor
  <2> QED BY <2>3, <2>5, <2>8 DEF NotYet, HasEntered
<1>13. Chain'
  BY <1>1, <1>4, <1>7, <1>8 DEF IInv, Chain
<1>14. Maps'
  BY <1>1, <1>6, <1>7, Numbers DEF IInv, Maps
<1> QED
  BY <1>9, <1>10, <1>11, <1>12, <1>13, <1>14 DEF IInv

\* A carrier that keeps its locks, or leaves every pair it was in.
LEMMA KeepsLocks ==
  ASSUME IInv, NEW c \in Carriers, NEW r \in At, carrier' = [carrier EXCEPT ![c] = r],
         \/ lock' = lock /\ Held(c)' = Held(c)
         \/ Release(c) /\ Held(c)' = {}
  PROVE  Locks' /\ lock' \in [Pairs -> Carriers \cup {Free}]
<1>1. \A d \in Carriers : d # c => Held(d)' = Held(d)
  BY OneMoves DEF IInv
<1>2. lock \in [Pairs -> Carriers \cup {Free}] /\ Locks
  BY DEF IInv, TypeInv
<1>3. CASE lock' = lock /\ Held(c)' = Held(c)
  BY <1>1, <1>2, <1>3 DEF Locks
<1>4. CASE Release(c) /\ Held(c)' = {}
  <2>1. lock' \in [Pairs -> Carriers \cup {Free}]
    BY <1>2, <1>4 DEF Release
  <2>2. \A p \in Pairs : lock'[p] = IF lock[p] = c THEN Free ELSE lock[p]
    BY <1>4 DEF Release
  <2>3. \A p \in Pairs, d \in Carriers : lock'[p] = d <=> p \in Held(d)'
    BY <1>1, <1>2, <1>4, <2>2, Numbers DEF Locks
  <2> QED BY <2>1, <2>3 DEF Locks
<1> QED
  BY <1>3, <1>4

\* A carrier takes a step that stores nothing and hands nothing on.
LEMMA QuietStep ==
  ASSUME IInv, NEW c \in Carriers, NEW r \in At, carrier' = [carrier EXCEPT ![c] = r],
         UNCHANGED <<subscribed, kind, value, completed, delivered, background>>,
         carrier[c].at # "idle", r.at # "idle" \/ c = 0,
         Climbing(c)' => r.pair \in Start(c) .. N,
         Brings(c)' => Brings(c) \/ c \notin {0, 1},
         NotYetFor(c)', EnteredFor(c)',
         \A p \in Pairs : Full(p) /\ Leaves(c, p) => Gone(p) \/ Leaves(c, p)',
         disposed' \in [Pairs -> BOOLEAN],
         \A p \in Pairs : disposed'[p] => disposed[p] \/ Gone(p),
         \/ lock' = lock /\ Held(c)' = Held(c)
         \/ Release(c) /\ Held(c)' = {},
         Maps', ended' \in BOOLEAN
  PROVE  IInv'
<1>1. /\ carrier' \in [Carriers -> At] /\ carrier'[c] = r
      /\ \A d \in Carriers : d # c =>
           /\ carrier'[d] = carrier[d]
           /\ Climbing(d)' <=> Climbing(d)
           /\ Brings(d)' <=> Brings(d)
           /\ \A p \in Pairs : Leaves(d, p)' <=> Leaves(d, p)
  BY OneMoves DEF IInv
<1>2. HandedOn' <=> HandedOn
  BY DEF HandedOn
<1>3. /\ \A p \in Pairs, side \in Sides : Stored(p, side)' <=> Stored(p, side)
      /\ \A d \in Carriers : Entered(d)' <=> Entered(d)
      /\ \A p \in Pairs : Full(p)' <=> Full(p)
      /\ \A p \in Pairs : Gone(p)' <=> Gone(p)
  BY <1>2, SameValues
<1>4. Locks' /\ lock' \in [Pairs -> Carriers \cup {Free}]
  BY KeepsLocks
<1>5. TypeInv'
  <2>1. Packed(value[N])' = Packed(value[N])
    BY DEF Packed
  <2>2. \A d \in Carriers : Climbing(d)' => carrier'[d].pair \in Start(d) .. N
    BY <1>1 DEF IInv, TypeInv
  <2> QED BY <1>1, <1>4, <2>1, <2>2 DEF IInv, TypeInv, At
<1>6. SendsOnce'
  <2>1. \A t \in Signals : t \in Carriers /\ t # 0
    BY SignalsAssumption DEF Signals, Carriers
  <2>2. \A t \in Signals : carrier'[t].at = "idle" <=> carrier[t].at = "idle"
    BY <1>1, <2>1
  <2>3. carrier'[0].at # "idle" => carrier[0].at # "idle"
    BY <1>1, Numbers
  <2>4. Brings(1)' => Brings(1)
    BY <1>1, Numbers
  <2> QED BY <1>3, <2>1, <2>2, <2>3, <2>4, Numbers DEF IInv, SendsOnce
<1>7. NotYet' /\ HasEntered'
  <2>1. \A d \in Carriers : d # c => NotYetFor(d)' /\ EnteredFor(d)'
    BY <1>2, KeepsOthers
  <2> QED BY <2>1 DEF NotYet, HasEntered
<1>8. Chain'
  <2>1. ASSUME NEW p \in Pairs, Full(p)' PROVE Gone(p)' \/ \E d \in Carriers : Leaves(d, p)'
    <3>1. Gone(p) \/ \E d \in Carriers : Leaves(d, p)
      BY <1>3, <2>1 DEF IInv, Chain
    <3> QED BY <1>1, <1>3, <2>1, <3>1
  <2>2. \A p, q \in Pairs : Gone(p)' /\ q <= p => Full(q)'
    BY <1>3 DEF IInv, Chain
  <2>3. \A p \in Pairs : disposed'[p] => Gone(p)'
    BY <1>3 DEF IInv, Chain
  <2>4. \A p \in Pairs, side \in Sides : completed'[p][side] => Stored(p, side)'
    BY <1>3 DEF IInv, Chain
  <2> QED BY <2>1, <2>2, <2>3, <2>4 DEF Chain
<1> QED
  BY <1>4, <1>5, <1>6, <1>7, <1>8 DEF IInv

\* A signal completes once its value has been passed on; signal 1 when its map does.
LEMMA CompleteInv == ASSUME IInv, NEW c \in Carriers, Complete(c) PROVE IInv'
<1>1. /\ carrier[c].at = "ending" /\ carrier[c] \in At
      /\ UNCHANGED <<subscribed, kind, lock, value, completed, disposed,
                     background, lastMap, delivered, ended>>
      /\ firstMap' = IF c <= 1 THEN leaveFirst(c) ELSE firstMap
  BY DEF Complete, pairVars, IInv, TypeInv, At
<1>2. PICK r \in At :
        /\ carrier' = [carrier EXCEPT ![c] = r]
        /\ \/ /\ r.at = (IF c = 0 THEN "idle" ELSE "done") /\ r.what = carrier[c].what
              /\ c <= 1 /\ firstMap' # {}
           \/ /\ r = [at |-> "acquire", what |-> "completed", pair |-> Start(c)]
              /\ c <= 1 => firstMap' = {}
  <2>1. CASE c <= 1 /\ firstMap' # {}
    <3> DEFINE step == IF c = 0 THEN "idle" ELSE "done"
               r == [carrier[c] EXCEPT !.at = step]
    <3>1. r \in At /\ r.at = step /\ r.what = carrier[c].what
      BY <1>1 DEF At, Steps
    <3>2. carrier' = [carrier EXCEPT ![c] = r]
      BY <2>1 DEF Complete, Move
    <3> QED BY <2>1, <3>1, <3>2
  <2>2. CASE ~(c <= 1 /\ firstMap' # {})
    <3> DEFINE r == [at |-> "acquire", what |-> "completed", pair |-> Start(c)]
    <3>1. r \in At
      BY Places DEF At, Steps
    <3>2. carrier' = [carrier EXCEPT ![c] = r]
      BY <2>2 DEF Complete, Climb
    <3> QED BY <2>2, <3>1, <3>2
  <2> QED BY <2>1, <2>2
<1>3. carrier'[c] = r
  BY <1>2, OneMoves DEF IInv
<1>4. EnteredFor(c)
  BY DEF IInv, HasEntered
<1>5. "inner" \notin firstMap' => Entered(0)
  <2>1. CASE firstMap' = firstMap \/ firstMap' = firstMap \ {"source"}
    BY <2>1 DEF IInv, Maps
  <2>2. CASE c = 0
    BY <1>1, <1>4, <2>2 DEF EnteredFor
  <2>3. CASE c = 1 /\ HasScheduler(c)
    <3>1. Entered(1)
      BY <1>1, <1>4, <2>3 DEF EnteredFor, HasScheduler
    <3> QED BY <3>1 DEF Entered, Start, Side
  <2> QED BY <1>1, <2>1, <2>2, <2>3 DEF leaveFirst, Carriers
<1>6. r.what = "completed" => Entered(c)
  <2>1. CASE c <= 1 /\ firstMap' = {}
    <3>1. Entered(0)
      BY <1>5, <2>1
    <3>2. c = 0 \/ c = 1
      BY <2>1 DEF Carriers
    <3> QED BY <3>1, <3>2 DEF Entered, Start, Side
  <2>2. CASE ~(c <= 1)
    <3>1. c # 1
      BY <2>2
    <3> QED BY <1>1, <1>4, <3>1 DEF EnteredFor
  <2>3. CASE c <= 1 /\ firstMap' # {}
    BY <1>2, <1>4, <2>3 DEF EnteredFor
  <2> QED BY <2>1, <2>2, <2>3
<1>7. /\ Climbing(c)' => r = [at |-> "acquire", what |-> "completed", pair |-> Start(c)]
      /\ ~Brings(c)' /\ Held(c)' = {} /\ Held(c) = {}
      /\ \A p \in Pairs : ~Leaves(c, p)
  <2>1. Held(c) = {} /\ \A p \in Pairs : ~Leaves(c, p)
    BY <1>1 DEF Held, Leaves
  <2>2. CASE r.at \in {"idle", "done"}
    BY <1>3, <2>1, <2>2 DEF Climbing, Brings, Held
  <2>3. CASE r = [at |-> "acquire", what |-> "completed", pair |-> Start(c)]
    <3>1. Held(c)' = Start(c) .. Start(c) - 1 /\ ~Brings(c)'
      BY <1>3, <2>3 DEF Held, Brings
    <3>2. Start(c) .. Start(c) - 1 = {}
      BY Places DEF Pairs
    <3> QED BY <2>1, <2>3, <3>1, <3>2
  <2> QED BY <1>2, <2>2, <2>3
<1>8. NotYetFor(c)'
  BY <1>7 DEF NotYetFor
<1>9. EnteredFor(c)'
  <2>1. Entered(c)' <=> Entered(c)
    BY <1>1, SameValues
  <2>2. Start(c) \in Int /\ ~(Start(c) > Start(c))
    BY Places DEF Pairs
  <2>3. \A p \in Pairs : ~(Climbing(c)' /\ carrier'[c].pair = p /\ p > Start(c))
    BY <1>3, <1>7, <2>2
  <2>4. carrier'[c].at \notin {"test", "ending"}
        /\ (carrier'[c].at = "acquire" => carrier'[c].what = "completed")
    BY <1>2, <1>3
  <2> QED BY <1>3, <1>6, <2>1, <2>3, <2>4 DEF EnteredFor
<1>10. Maps'
  <2>1. Entered(0)' <=> Entered(0)
    BY <1>1, Numbers, SameValues
  <2> QED BY <1>1, <1>5, <2>1 DEF IInv, Maps
<1>11. Climbing(c)' => r.pair \in Start(c) .. N
  BY <1>7, Places DEF Pairs
<1>12. disposed' \in [Pairs -> BOOLEAN] /\ ended' \in BOOLEAN
       /\ \A p \in Pairs : disposed'[p] => disposed[p]
  BY <1>1 DEF IInv, TypeInv
<1>13. r.at # "idle" \/ c = 0
  BY <1>2
<1> QED
  BY <1>1, <1>2, <1>7, <1>8, <1>9, <1>10, <1>11, <1>12, <1>13, QuietStep

\* Where a carrier is that has stored at a pair.
LEMMA AtTest ==
  ASSUME IInv, NEW c \in Carriers, carrier[c].at = "test"
  PROVE  /\ carrier[c] \in At /\ carrier[c].pair \in Pairs
         /\ carrier[c].pair >= Start(c) /\ carrier[c].pair <= N
         /\ lock[carrier[c].pair] = c /\ Entered(c)
         /\ carrier[c].what = "next" => ~Gone(carrier[c].pair) /\ ~disposed[carrier[c].pair]
<1>1. carrier[c] \in At /\ carrier[c].pair \in Pairs /\ Climbing(c)
  BY DEF IInv, TypeInv, At, Climbing
<1>2. carrier[c].pair >= Start(c) /\ carrier[c].pair <= N /\ carrier[c].pair \in Held(c)
  <2>1. carrier[c].pair \in Start(c) .. N
    BY <1>1 DEF IInv, TypeInv
  <2>2. Start(c) \in Int
    BY Places DEF Pairs
  <2> QED BY <2>1, <2>2, SignalsAssumption DEF Held
<1>3. lock[carrier[c].pair] = c
  BY <1>1, <1>2 DEF IInv, Locks
<1>4. Entered(c)
  BY DEF IInv, HasEntered, EnteredFor
<1>5. carrier[c].what = "next" => ~Gone(carrier[c].pair)
  <2>1. NotYetFor(c)
    BY DEF IInv, NotYet
  <2> QED BY <1>1, <2>1 DEF NotYetFor, Brings
<1>6. carrier[c].what = "next" => ~disposed[carrier[c].pair]
  BY <1>1, <1>5 DEF IInv, Chain
<1> QED
  BY <1>1, <1>2, <1>3, <1>4, <1>5, <1>6

\* A completion finds that the value of the pair is gone, or one side is still open:
\* whoever brought the second side has the lock until it is with the pair above.
LEMMA ValueIsGone ==
  ASSUME IInv, NEW c \in Carriers, carrier[c].at = "test", carrier[c].what # "next",
         Both(completed[carrier[c].pair])
  PROVE  Gone(carrier[c].pair)
<1> DEFINE p == carrier[c].pair
<1>1. p \in Pairs /\ lock[p] = c
  BY AtTest
<1> HIDE DEF p
<1>2. Full(p)
  <2>1. completed[p]["self"] /\ completed[p]["other"]
    BY DEF Both, p
  <2> QED BY <1>1, <2>1, SideValues DEF IInv, Chain, Full, BothIn, Stored
<1>3. ASSUME NEW d \in Carriers, Leaves(d, p) PROVE FALSE
  <2>1. p \in Held(d)
    <3>1. carrier[d].pair \in Start(d) .. N /\ Start(d) \in Int
      BY <1>3, Places DEF Leaves, IInv, TypeInv, Climbing, Pairs
    <3> QED BY <1>1, <1>3, <3>1 DEF Leaves, Held, Pairs
  <2>2. d = c
    BY <1>1, <2>1 DEF IInv, Locks
  <2> QED BY <1>3, <2>2 DEF Leaves
<1>4. Gone(p)
  BY <1>1, <1>2, <1>3 DEF IInv, Chain
<1> QED
  BY <1>4 DEF p

\* The test finds a side missing, or the value of the pair past it.
LEMMA WaitInv == ASSUME IInv, NEW c \in Carriers, wait(c) PROVE IInv'
<1> DEFINE step == IF carrier[c].what = "next" THEN "ending" ELSE IF c = 0 THEN "idle" ELSE "done"
           r == [carrier[c] EXCEPT !.at = step]
<1>1. /\ carrier[c].at = "test" /\ Release(c)
      /\ UNCHANGED <<subscribed, kind, value, completed, disposed,
                     background, firstMap, lastMap, delivered, ended>>
      /\ carrier[c].what = "next" =>
           ~Full(carrier[c].pair) \/ disposed[carrier[c].pair]
  BY DEF wait, mapVars, Full
<1>2. carrier[c] \in At /\ Entered(c)
      /\ (carrier[c].what = "next" => ~disposed[carrier[c].pair])
  BY <1>1, AtTest
<1>3. r \in At /\ r.at = step /\ r.what = carrier[c].what /\ r.pair = carrier[c].pair
  BY <1>2 DEF At, Steps
<1>4. carrier' = [carrier EXCEPT ![c] = r]
  BY DEF wait, Move
<1>5. step \in {"ending", "idle", "done"} /\ (step = "idle" => c = 0)
  OBVIOUS
<1> HIDE DEF r, step
<1>6. carrier'[c] = r
  BY <1>3, <1>4, OneMoves DEF IInv
<1>7. ~Climbing(c)' /\ ~Brings(c)' /\ Held(c)' = {}
  BY <1>3, <1>5, <1>6 DEF Climbing, Brings, Held
<1>8. NotYetFor(c)'
  BY <1>7 DEF NotYetFor
<1>9. EnteredFor(c)'
  <2>1. Entered(c)'
    BY <1>1, <1>2, SameValues
  <2> QED BY <1>7, <2>1 DEF EnteredFor
<1>10. \A p \in Pairs : ~(Full(p) /\ Leaves(c, p))
  BY <1>1, <1>2 DEF Leaves
<1>11. Maps'
  <2>1. Entered(0)' <=> Entered(0)
    BY <1>1, Numbers, SameValues
  <2> QED BY <1>1, <2>1 DEF IInv, Maps
<1>12. disposed' \in [Pairs -> BOOLEAN] /\ ended' \in BOOLEAN
       /\ \A p \in Pairs : disposed'[p] => disposed[p]
  BY <1>1 DEF IInv, TypeInv
<1>13. carrier[c].at # "idle" /\ (r.at # "idle" \/ c = 0)
  BY <1>1, <1>3, <1>5
<1> QED
  BY <1>1, <1>3, <1>4, <1>7, <1>8, <1>9, <1>10, <1>11, <1>12, <1>13, QuietStep

\* A value or a completion goes on to the pair above, with this one still locked.
LEMMA PassUpInv == ASSUME IInv, NEW c \in Carriers, passUp(c) PROVE IInv'
<1>0. PICK p \in Pairs : carrier[c].pair = p
  BY DEF IInv, TypeInv
<1> DEFINE r == [carrier[c] EXCEPT !.at = "acquire", !.pair = p + 1]
<1>1. /\ carrier[c].at = "test" /\ p < N
      /\ UNCHANGED <<subscribed, kind, lock, value, completed,
                     background, firstMap, lastMap, delivered, ended>>
      /\ IF carrier[c].what = "next"
         THEN Full(p) /\ UNCHANGED disposed
         ELSE Both(completed[p]) /\ disposed' = [disposed EXCEPT ![p] = TRUE]
  BY <1>0 DEF passUp, mapVars, Full
<1>2. carrier[c] \in At /\ Entered(c) /\ p \in Pairs /\ p >= Start(c)
      /\ (carrier[c].what = "next" => ~Gone(p))
  BY <1>0, <1>1, AtTest
<1>3. carrier[c].what # "next" => Gone(p)
  BY <1>0, <1>1, ValueIsGone
<1>4. p + 1 \in Pairs /\ p + 1 - 1 = p /\ p \in Int /\ Start(c) \in Int
      /\ p + 1 > Start(c) /\ p + 1 \in Start(c) .. N
  BY <1>1, <1>2, Places, SignalsAssumption DEF Pairs
<1>5. r \in At /\ r.at = "acquire" /\ r.what = carrier[c].what /\ r.pair = p + 1
  BY <1>2, <1>4 DEF At, Steps
<1>6. carrier' = [carrier EXCEPT ![c] = r]
  BY <1>0 DEF passUp
<1> HIDE DEF r
<1>8. carrier'[c] = r
  BY <1>5, <1>6, OneMoves DEF IInv
<1>9. Side(c, p + 1) = "self"
  BY <1>4, Places
<1>10. ~Gone(p) => ~Stored(p + 1, "self")
  BY <1>1 DEF Gone
<1>11. /\ \A q \in Pairs, side \in Sides : Stored(q, side)' <=> Stored(q, side)
       /\ \A d \in Carriers : Entered(d)' <=> Entered(d)
       /\ \A q \in Pairs : Full(q)' <=> Full(q)
       /\ \A q \in Pairs : Gone(q)' <=> Gone(q)
  <2>1. HandedOn' <=> HandedOn
    BY <1>1 DEF HandedOn
  <2> QED BY <1>1, <2>1, SameValues
<1>12. NotYetFor(c)'
  <2>1. ASSUME NEW q \in Pairs, Brings(c)', carrier'[c].pair = q
        PROVE  q = p + 1 /\ carrier[c].what = "next"
    BY <2>1, <1>5, <1>8 DEF Brings
  <2>2. carrier[c].what = "next" => ~Stored(p + 1, "self")' /\ Full(p)'
    BY <1>1, <1>2, <1>4, <1>10, <1>11, SideValues
  <2>3. ASSUME NEW q \in Pairs, Brings(c)', carrier'[c].pair = q
        PROVE  ~Stored(q, Side(c, q))' /\ Full(q - 1)'
    BY <2>1, <2>2, <2>3, <1>4, <1>9
  <2> QED BY <1>5, <1>8, <2>3 DEF NotYetFor
<1>13. EnteredFor(c)'
  <2>1. Entered(c)'
    BY <1>2, <1>11
  <2>2. carrier[c].what # "next" => Gone(p)'
    BY <1>2, <1>3, <1>11
  <2>3. ASSUME NEW q \in Pairs, carrier'[c].what = "completed", carrier'[c].pair = q
        PROVE  Gone(q - 1)'
    BY <2>2, <2>3, <1>4, <1>5, <1>8
  <2> QED BY <2>1, <2>3 DEF EnteredFor
<1>14. Held(c)' = Held(c)
  BY <1>1, <1>4, <1>5, <1>0, <1>8 DEF Held
<1>15. ASSUME NEW q \in Pairs, Leaves(c, q) PROVE Leaves(c, q)'
  <2>1. q = p /\ carrier[c].what = "next"
    BY <1>1, <1>0, <1>15 DEF Leaves
  <2> QED BY <1>2, <1>5, <1>8, <2>1 DEF Leaves
<1>16. Maps'
  BY <1>1, <1>11, Numbers DEF IInv, Maps
<1>17. disposed' \in [Pairs -> BOOLEAN] /\ ended' \in BOOLEAN
       /\ \A q \in Pairs : disposed'[q] => disposed[q] \/ Gone(q)
  <2>1. disposed \in [Pairs -> BOOLEAN] /\ ended' \in BOOLEAN
    BY <1>1 DEF IInv, TypeInv
  <2> QED BY <1>1, <1>2, <1>3, <2>1
<1>18. Brings(c)' => Brings(c)
  BY <1>1, <1>5, <1>8 DEF Brings, Climbing
<1> QED
  BY <1>1, <1>4, <1>5, <1>6, <1>12, <1>13, <1>14, <1>15, <1>16, <1>17, <1>18, QuietStep

\* The completion of the top pair finds the joined value handed on.
LEMMA FinishInv == ASSUME IInv, NEW c \in Carriers, finish(c) PROVE IInv'
<1> DEFINE step == IF c = 0 THEN "idle" ELSE "done"
           r == [carrier[c] EXCEPT !.at = step]
<1>1. /\ carrier[c].at = "test" /\ carrier[c].pair = N /\ carrier[c].what = "completed"
      /\ Both(completed[N]) /\ Release(c)
      /\ UNCHANGED <<subscribed, kind, value, completed, background, firstMap, delivered>>
      /\ disposed' = [disposed EXCEPT ![N] = TRUE] /\ lastMap' = lastMap \ {"source"}
      /\ ended' = (ended \/ lastMap' = {})
  BY DEF finish, lastMapCompletes
<1>2. carrier[c] \in At /\ Entered(c)
  BY <1>1, AtTest
<1>3. Gone(N)
  BY <1>1, ValueIsGone
<1>4. r \in At /\ r.at = step /\ r.what = "completed" /\ r.pair = N
  BY <1>1, <1>2 DEF At, Steps
<1>5. carrier' = [carrier EXCEPT ![c] = r]
  BY DEF finish, Move
<1>6. step \in {"idle", "done"} /\ (step = "idle" => c = 0)
  OBVIOUS
<1> HIDE DEF r, step
<1>7. carrier'[c] = r
  BY <1>4, <1>5, OneMoves DEF IInv
<1>8. ~Climbing(c)' /\ ~Brings(c)' /\ Held(c)' = {}
  BY <1>4, <1>6, <1>7 DEF Climbing, Brings, Held
<1>9. NotYetFor(c)'
  BY <1>8 DEF NotYetFor
<1>10. EnteredFor(c)'
  <2>1. Entered(c)'
    BY <1>1, <1>2, SameValues
  <2> QED BY <1>8, <2>1 DEF EnteredFor
<1>11. \A p \in Pairs : ~Leaves(c, p)
  BY <1>1 DEF Leaves
<1>12. Maps'
  <2>1. Entered(0)' <=> Entered(0)
    BY <1>1, Numbers, SameValues
  <2>2. "inner" \in lastMap' <=> "inner" \in lastMap
    BY <1>1
  <2>3. ended' => ended \/ "inner" \notin lastMap'
    BY <1>1
  <2> QED BY <1>1, <2>1, <2>2, <2>3 DEF IInv, Maps
<1>13. disposed' \in [Pairs -> BOOLEAN] /\ ended' \in BOOLEAN
       /\ \A p \in Pairs : disposed'[p] => disposed[p] \/ Gone(p)
  <2>1. disposed \in [Pairs -> BOOLEAN] /\ ended \in BOOLEAN
    BY DEF IInv, TypeInv
  <2>2. disposed' \in [Pairs -> BOOLEAN]
    BY <1>1, <2>1
  <2>3. \A p \in Pairs : disposed'[p] => disposed[p] \/ p = N
    BY <1>1, <2>1
  <2>4. ended' \in BOOLEAN
    BY <1>1, <2>1
  <2> QED BY <1>3, <2>2, <2>3, <2>4
<1>14. carrier[c].at # "idle" /\ (r.at # "idle" \/ c = 0)
  BY <1>1, <1>4, <1>6
<1> QED
  BY <1>1, <1>4, <1>5, <1>8, <1>9, <1>10, <1>11, <1>12, <1>13, <1>14, QuietStep

\* A pair that has both sides has them at every pair below.
LEMMA FullBelow ==
  ASSUME IInv, NEW p \in Pairs, Full(p), NEW q \in Pairs, q <= p
  PROVE  Full(q)
<1>1. CASE q = p
  BY <1>1
<1>2. CASE q # p
  <2>1. p - 1 \in Pairs /\ p - 1 < N /\ p - 1 + 1 = p /\ q <= p - 1
    BY <1>2, SignalsAssumption DEF Pairs
  <2>2. Stored(p, "self")
    BY DEF Full, BothIn, Stored
  <2>3. Gone(p - 1)
    BY <2>1, <2>2 DEF Gone
  <2> QED BY <2>1, <2>3 DEF IInv, Chain
<1> QED
  BY <1>1, <1>2

\* Signal 1 is in, so the background scheduler has nothing of it left.
LEMMA FirstIsIn ==
  ASSUME IInv, Full(N) PROVE Entered(0) /\ background # <<"first">>
<1>1. Full(2)
  BY FullBelow, Numbers
<1>2. Entered(0)
  BY <1>1 DEF Full, BothIn, Entered, Stored, Start, Side
<1> QED
  BY <1>2 DEF IInv, SendsOnce

\* The top pair hands the joined value on.
LEMMA JoinInv == ASSUME IInv, NEW c \in Carriers, join(c) PROVE IInv'
<1> DEFINE r == [carrier[c] EXCEPT !.at = "ending"]
           now == HasScheduler(c)
<1>1. /\ carrier[c].at = "test" /\ carrier[c].pair = N /\ carrier[c].what = "next"
      /\ Full(N) /\ Release(c)
      /\ UNCHANGED <<subscribed, kind, value, completed, disposed, firstMap, ended>>
      /\ IF now
         THEN /\ delivered' = Append(delivered, Packed(value[N]))
              /\ lastMap' = lastMap \ {"inner"} /\ background' = background
         ELSE /\ background' = Append(background, "joined")
              /\ delivered' = delivered /\ lastMap' = lastMap
  BY DEF join, Full
<1>2. carrier[c] \in At /\ Entered(c) /\ ~Gone(N) /\ lock[N] = c
  BY <1>1, AtTest
<1>3. delivered = <<>> /\ background = <<>> /\ ~ended /\ "inner" \in lastMap
  <2>1. delivered = <<>> /\ background # <<"joined">>
    BY <1>2, Numbers DEF Gone, HandedOn
  <2>2. background # <<"first">>
    BY <1>1, FirstIsIn
  <2> QED BY <2>1, <2>2 DEF IInv, TypeInv, Maps
<1>4. IF now
      THEN delivered' = <<Packed(value[N])>> /\ background' = <<>>
      ELSE delivered' = <<>> /\ background' = <<"joined">>
  <2>1. Append(delivered, Packed(value[N])) = <<Packed(value[N])>>
    BY <1>3
  <2>2. Append(background, "joined") = <<"joined">>
    BY <1>3
  <2> QED BY <1>1, <1>3, <2>1, <2>2
<1>5. HandedOn'
  BY <1>4 DEF HandedOn
<1>6. carrier' = [carrier EXCEPT ![c] = r]
  BY DEF join, Move
<1>7. r \in At /\ r.at = "ending" /\ r.what = "next"
  BY <1>1, <1>2 DEF At, Steps
<1> HIDE DEF r, now
<1>8. /\ carrier' \in [Carriers -> At] /\ carrier'[c] = r
      /\ \A d \in Carriers : d # c =>
           /\ carrier'[d] = carrier[d]
           /\ Climbing(d)' <=> Climbing(d)
           /\ Brings(d)' <=> Brings(d)
           /\ \A p \in Pairs : Leaves(d, p)' <=> Leaves(d, p)
  BY <1>6, <1>7, OneMoves DEF IInv
<1>9. ~Climbing(c)' /\ ~Brings(c)' /\ Held(c)' = {}
  BY <1>7, <1>8 DEF Climbing, Brings, Held
<1>10. /\ \A p \in Pairs, side \in Sides : Stored(p, side)' <=> Stored(p, side)
       /\ \A d \in Carriers : Entered(d)' <=> Entered(d)
       /\ \A p \in Pairs : Full(p)' <=> Full(p)
  BY <1>1, SameValues
<1>11. \A p \in Pairs : /\ p < N => (Gone(p)' <=> Gone(p))
                        /\ ~(p < N) => p = N /\ Gone(p)'
  <2>1. \A p \in Pairs : p < N => p + 1 \in Pairs
    BY Numbers, Places
  <2>2. ASSUME NEW p \in Pairs, p < N PROVE Gone(p)' <=> Gone(p)
    BY <1>10, <2>1, <2>2, SideValues DEF Gone
  <2>3. \A p \in Pairs : ~(p < N) => p = N
    BY SignalsAssumption DEF Pairs
  <2> QED BY <1>5, <2>2, <2>3 DEF Gone
<1>12. Locks' /\ lock' \in [Pairs -> Carriers \cup {Free}]
  BY <1>1, <1>6, <1>7, <1>9, KeepsLocks
<1>13. TypeInv'
  <2>1. Packed(value[N])' = Packed(value[N])
    BY <1>1 DEF Packed
  <2>2. \A d \in Carriers : Climbing(d)' => carrier'[d].pair \in Start(d) .. N
    BY <1>8, <1>9 DEF IInv, TypeInv
  <2>3. /\ background' \in {<<>>, <<"first">>, <<"joined">>}
        /\ delivered' \in {<<>>, <<Packed(value[N])>>'}
    BY <1>4, <2>1
  <2> QED BY <1>1, <1>8, <1>12, <2>2, <2>3 DEF IInv, TypeInv, At
<1>14. SendsOnce'
  <2>1. \A t \in Signals : t \in Carriers /\ t # 0
    BY SignalsAssumption DEF Signals, Carriers
  <2>2. \A t \in Signals : carrier'[t].at = "idle" => carrier[t].at = "idle"
    BY <1>7, <1>8, <2>1
  <2>3. \A t \in Signals : carrier'[t].at # "idle" => carrier[t].at # "idle"
    BY <1>1, <1>8, <2>1
  <2>4. carrier'[0].at # "idle" => carrier[0].at # "idle"
    BY <1>1, <1>8, Numbers
  <2>5. carrier[1].at = "idle" /\ carrier[0].at = "idle" => carrier'[0].at = "idle"
    BY <1>1, <1>8, Numbers
  <2>6. Brings(1)' => Brings(1)
    BY <1>8, <1>9, Numbers
  <2>7. background' # <<"first">>
    BY <1>4
  <2> QED BY <1>1, <1>10, <2>1, <2>2, <2>3, <2>4, <2>5, <2>6, <2>7, Numbers DEF IInv, SendsOnce
<1>15. NotYet'
  <2>1. ASSUME NEW d \in Carriers, d # c PROVE NotYetFor(d)'
    <3>1. NotYetFor(d)
      BY DEF IInv, NotYet
    <3>2. \A p \in Pairs : p > Start(d) => p - 1 \in Pairs
      BY Places
    <3>3. \A p \in Pairs : Side(d, p) \in Sides
      BY Places
    <3>4. ASSUME NEW p \in Pairs, Brings(d), carrier[d].pair = p, carrier[d].at = "acquire"
          PROVE  ~Stored(p, Side(d, p))' /\ (p > Start(d) => Full(p - 1)')
      BY <1>10, <3>1, <3>2, <3>3, <3>4 DEF NotYetFor
    <3>5. ASSUME NEW p \in Pairs, Brings(d), carrier[d].pair = p, carrier[d].at # "acquire"
          PROVE  ~Gone(p)'
      <4>1. carrier[d].at = "test"
        BY <3>5 DEF Brings, Climbing
      <4>2. lock[p] = d
        BY <3>5, <4>1, AtTest
      <4>3. p # N
        BY <1>2, <2>1, <4>2
      <4> QED BY <1>11, <3>1, <3>5, <4>3 DEF NotYetFor
    <3> QED BY <1>8, <2>1, <3>4, <3>5 DEF NotYetFor
  <2>2. NotYetFor(c)'
    BY <1>9 DEF NotYetFor
  <2> QED BY <2>1, <2>2 DEF NotYet
<1>16. HasEntered'
  <2>1. ASSUME NEW d \in Carriers, d # c PROVE EnteredFor(d)'
    <3>1. EnteredFor(d)
      BY DEF IInv, HasEntered
    <3>2. \A p \in Pairs : p > Start(d) => p - 1 \in Pairs
      BY Places
    <3>3. \A p \in Pairs : Gone(p) => Gone(p)'
      BY <1>11
    <3> QED BY <1>1, <1>8, <1>10, <2>1, <3>1, <3>2, <3>3 DEF EnteredFor
  <2>2. EnteredFor(c)'
    BY <1>2, <1>9, <1>10 DEF EnteredFor
  <2> QED BY <2>1, <2>2 DEF HasEntered
<1>17. Chain'
  <2>1. ASSUME NEW p \in Pairs, NEW q \in Pairs, Gone(p)', q <= p PROVE Full(q)'
    <3>1. CASE p < N
      BY <1>10, <1>11, <2>1, <3>1 DEF IInv, Chain
    <3>2. CASE ~(p < N)
      BY <1>1, <1>10, <1>11, <2>1, <3>2, FullBelow
    <3> QED BY <3>1, <3>2
  <2>2. ASSUME NEW p \in Pairs, Full(p)' PROVE Gone(p)' \/ \E d \in Carriers : Leaves(d, p)'
    <3>1. CASE ~(p < N)
      BY <1>11, <3>1
    <3>2. CASE p < N
      <4>1. ~Leaves(c, p)
        BY <1>1, <3>2 DEF Leaves, Pairs
      <4>2. Gone(p) \/ \E d \in Carriers : Leaves(d, p)
        BY <1>10, <2>2 DEF IInv, Chain
      <4> QED BY <1>8, <1>11, <3>2, <4>1, <4>2
    <3> QED BY <3>1, <3>2
  <2>3. \A p \in Pairs : disposed'[p] => Gone(p)'
    BY <1>1, <1>11 DEF IInv, Chain
  <2>4. \A p \in Pairs, side \in Sides : completed'[p][side] => Stored(p, side)'
    BY <1>1, <1>10 DEF IInv, Chain
  <2> QED BY <2>1, <2>2, <2>3, <2>4 DEF Chain
<1>18. Maps'
  <2>1. Entered(0)' <=> Entered(0)
    BY <1>10, Numbers
  <2>2. "inner" \in lastMap' <=> delivered' = <<>>
    <3>1. <<Packed(value[N])>> # <<>>
      OBVIOUS
    <3>2. CASE now
      <4>1. "inner" \notin lastMap' /\ delivered' = <<Packed(value[N])>>
        BY <1>1, <1>4, <3>2
      <4> QED BY <3>1, <4>1
    <3>3. CASE ~now
      BY <1>1, <1>3, <1>4, <3>3
    <3> QED BY <3>2, <3>3
  <2>3. background' = <<"joined">> => delivered' = <<>>
    BY <1>4
  <2> QED BY <1>1, <1>3, <2>1, <2>2, <2>3 DEF IInv, Maps
<1> QED
  BY <1>12, <1>13, <1>14, <1>15, <1>16, <1>17, <1>18 DEF IInv

\* The background scheduler runs the inner signal of the first map, or of the last.
LEMMA BackgroundInv == ASSUME IInv, runBackground PROVE IInv'
<1>1. /\ carrier[0].at = "idle" /\ background # <<>> /\ background' = Tail(background)
      /\ UNCHANGED <<subscribed, kind, lock, value, completed, disposed, firstMap>>
  BY DEF runBackground, pairVars
<1>2. background \in {<<"first">>, <<"joined">>}
  BY <1>1 DEF IInv, TypeInv
<1>3. background' = <<>>
  <2>1. Tail(<<"first">>) = <<>> /\ Tail(<<"joined">>) = <<>>
    OBVIOUS
  <2> QED BY <1>1, <1>2, <2>1
<1>4. /\ \A p \in Pairs, side \in Sides : Stored(p, side)' <=> Stored(p, side)
      /\ \A d \in Carriers : Entered(d)' <=> Entered(d)
      /\ \A p \in Pairs : Full(p)' <=> Full(p)
      /\ (HandedOn' <=> HandedOn) => \A p \in Pairs : Gone(p)' <=> Gone(p)
  BY <1>1, SameValues
<1>5. Packed(value[N])' = Packed(value[N])
  BY <1>1 DEF Packed
<1>6. CASE background = <<"first">>
  <2> DEFINE r == [at |-> "acquire", what |-> "next", pair |-> Start(0)]
  <2>1. Head(background) = "first"
    BY <1>6
  <2>2. carrier' = [carrier EXCEPT ![0] = r] /\ UNCHANGED <<lastMap, delivered, ended>>
    BY <2>1 DEF runBackground, Climb
  <2>3. r \in At /\ r.at = "acquire" /\ r.what = "next" /\ r.pair = 2 /\ Start(0) = 2
    BY Numbers DEF At, Steps, Start
  <2> HIDE DEF r
  <2>4. /\ carrier' \in [Carriers -> At] /\ carrier'[0] = r
        /\ \A d \in Carriers : d # 0 =>
             /\ carrier'[d] = carrier[d]
             /\ Climbing(d)' <=> Climbing(d)
             /\ Brings(d)' <=> Brings(d)
             /\ \A p \in Pairs : Leaves(d, p)' <=> Leaves(d, p)
    BY <2>2, <2>3, Numbers, OneMoves DEF IInv
  <2>5. HandedOn' <=> HandedOn
    BY <1>3, <1>6, <2>2 DEF HandedOn
  <2>6. \A p \in Pairs : Gone(p)' <=> Gone(p)
    BY <1>4, <2>5
  <2>7. /\ kind[1] = "bare" /\ ~Entered(0) /\ carrier[1].at # "idle"
    BY <1>6 DEF IInv, SendsOnce
  <2>8. Held(0) = {} /\ Held(0)' = {}
    <3>1. Held(0)' = 2 .. 1
      BY <2>3, <2>4 DEF Held
    <3> QED BY <1>1, <3>1 DEF Held
  <2>9. Locks' /\ lock' \in [Pairs -> Carriers \cup {Free}]
    BY <1>1, <2>2, <2>3, <2>8, Numbers, KeepsLocks
  <2>10. TypeInv'
    <3>1. \A d \in Carriers : Climbing(d)' => carrier'[d].pair \in Start(d) .. N
      BY <2>3, <2>4, SignalsAssumption DEF IInv, TypeInv
    <3> QED BY <1>1, <1>3, <1>5, <2>2, <2>4, <2>9, <3>1 DEF IInv, TypeInv, At
  <2>11. SendsOnce'
    <3>1. \A t \in Signals : t \in Carriers /\ t # 0
      BY SignalsAssumption DEF Signals, Carriers
    <3>2. \A t \in Signals : carrier'[t] = carrier[t]
      BY <2>4, <3>1
    <3>3. Brings(1)' <=> Brings(1)
      BY <2>4, Numbers
    <3>4. carrier'[1].at # "idle"
      BY <2>7, <3>2, Numbers
    <3>5. background' # <<"first">>
      BY <1>3
    <3>6. \A t \in Signals : carrier'[t].at # "idle" => t <= subscribed'
      BY <1>1, <3>2 DEF IInv, SendsOnce
    <3>7. \A t \in Signals : carrier'[t].at = "idle" => ~Entered(t)'
      BY <1>4, <3>1, <3>2 DEF IInv, SendsOnce
    <3>8. Brings(1)' => kind'[1] # "bare"
      BY <1>1, <3>3 DEF IInv, SendsOnce
    <3>9. kind'[1] = "bare"
      BY <1>1, <2>7
    <3> QED BY <3>4, <3>5, <3>6, <3>7, <3>8, <3>9 DEF SendsOnce
  <2>12. NotYet' /\ HasEntered'
    <3>1. \A d \in Carriers : d # 0 => NotYetFor(d)' /\ EnteredFor(d)'
      BY <1>1, <2>2, <2>3, <2>5, Numbers, KeepsOthers
    <3>2. ~Stored(2, Side(0, 2))'
      BY <1>4, <2>3, <2>7, Numbers, Places DEF Entered
    <3>3. NotYetFor(0)'
      BY <2>3, <2>4, <3>2 DEF NotYetFor
    <3>4. EnteredFor(0)'
      BY <2>3, <2>4 DEF EnteredFor
    <3> QED BY <3>1, <3>3, <3>4 DEF NotYet, HasEntered
  <2>13. Chain'
    <3>1. ASSUME NEW p \in Pairs, Full(p)' PROVE Gone(p)' \/ \E d \in Carriers : Leaves(d, p)'
      <4>1. Gone(p) \/ \E d \in Carriers : Leaves(d, p)
        BY <1>4, <3>1 DEF IInv, Chain
      <4>2. ~Leaves(0, p)
        BY <1>1 DEF Leaves
      <4> QED BY <2>4, <2>6, <4>1, <4>2
    <3> QED BY <1>1, <1>4, <2>6, <3>1 DEF IInv, Chain
  <2>14. Maps'
    BY <1>1, <1>3, <1>4, <2>2, Numbers DEF IInv, Maps
  <2> QED BY <2>9, <2>10, <2>11, <2>12, <2>13, <2>14 DEF IInv
<1>7. CASE background = <<"joined">>
  <2>1. Head(background) # "first"
    BY <1>7
  <2>2. /\ carrier' = carrier /\ delivered' = Append(delivered, Packed(value[N]))
        /\ lastMap' = lastMap \ {"inner"} /\ ended' = (lastMap' = {})
    BY <2>1 DEF runBackground, lastMapCompletes
  <2>3. delivered' = <<Packed(value[N])>>
    <3>1. delivered = <<>>
      BY <1>7 DEF IInv, Maps
    <3> QED BY <2>2, <3>1
  <2>4. <<Packed(value[N])>> # <<>>
    OBVIOUS
  <2>5. HandedOn /\ HandedOn'
    BY <1>7, <2>3, <2>4 DEF HandedOn
  <2>6. \A p \in Pairs : Gone(p)' <=> Gone(p)
    BY <1>4, <2>5
  <2>7. /\ \A d \in Carriers : /\ Climbing(d)' <=> Climbing(d)
                               /\ Brings(d)' <=> Brings(d)
                               /\ Held(d)' = Held(d)
                               /\ \A p \in Pairs : Leaves(d, p)' <=> Leaves(d, p)
    BY <2>2 DEF Climbing, Brings, Held, Leaves
  <2>8. TypeInv'
    <3>1. ended' \in BOOLEAN
      BY <2>2
    <3> QED BY <1>1, <1>3, <1>5, <2>2, <2>3, <2>7, <3>1 DEF IInv, TypeInv
  <2>9. Locks'
    BY <1>1, <2>7 DEF IInv, Locks
  <2>10. SendsOnce'
    <3>1. \A t \in Signals : t \in Carriers
      BY DEF Signals, Carriers
    <3> QED BY <1>1, <1>3, <1>4, <2>2, <2>7, <3>1, Numbers DEF IInv, SendsOnce
  <2>11. NotYet' /\ HasEntered'
    <3>1. \A c \in Carriers, p \in Pairs : p > Start(c) => p - 1 \in Pairs
      BY Places
    <3>2. NotYet'
      BY <1>4, <2>2, <2>6, <2>7, <3>1, Places DEF IInv, NotYet, NotYetFor
    <3>3. HasEntered'
      BY <1>1, <1>4, <2>2, <2>6, <2>7, <3>1 DEF IInv, HasEntered, EnteredFor
    <3> QED BY <3>2, <3>3
  <2>12. Chain'
    BY <1>1, <1>4, <2>6, <2>7 DEF IInv, Chain
  <2>13. Maps'
    <3>1. "inner" \notin lastMap' /\ delivered' # <<>>
      BY <2>2, <2>3, <2>4
    <3>2. background' # <<"joined">>
      BY <1>3
    <3> QED BY <1>1, <1>4, <3>1, <3>2, Numbers DEF IInv, Maps
  <2> QED BY <2>8, <2>9, <2>10, <2>11, <2>12, <2>13 DEF IInv
<1> QED
  BY <1>2, <1>6, <1>7

-----------------------------------------------------------------------------
(* Into a pair *)

\* The carriers that come to one side of a pair: the thread of its own signal on one,
\* whoever keeps the pair below on the other, and of signal 1 its thread or the
\* background scheduler.
LEMMA SameSide ==
  ASSUME NEW c \in Carriers, NEW p \in Pairs, p >= Start(c)
  PROVE  /\ Side(c, p) = "other" => c = p
         /\ Side(c, p) # "other" => Side(c, p) = "self" /\ (p > Start(c) \/ (p = 2 /\ c \in {0, 1}))
         /\ p > Start(c) => p # 2
  BY SignalsAssumption DEF Side, Start, Pairs, Carriers

\* A carrier at a pair keeps the ones that it came through.
LEMMA KeepsBelow ==
  ASSUME IInv, NEW c \in Carriers, NEW p \in Pairs, Climbing(c), carrier[c].pair = p, p > Start(c)
  PROVE  p - 1 \in Pairs /\ lock[p - 1] = c
<1>1. p - 1 \in Pairs /\ Start(c) \in Pairs
  BY Places
<1>2. p - 1 \in Held(c)
  BY <1>1 DEF Climbing, Held, Pairs
<1> QED
  BY <1>1, <1>2 DEF IInv, Locks

\* No two carriers bring a value to the same side of a pair.
LEMMA MeetOnce ==
  ASSUME IInv, NEW c \in Carriers, NEW d \in Carriers, NEW p \in Pairs,
         Brings(c), Brings(d), carrier[c].pair = p, carrier[d].pair = p,
         Side(c, p) = Side(d, p)
  PROVE  c = d
<1>1. p >= Start(c) /\ p >= Start(d)
  <2>1. p \in Start(c) .. N /\ p \in Start(d) .. N
    BY DEF Brings, IInv, TypeInv
  <2> QED BY <2>1, Places DEF Pairs
<1>2. CASE Side(c, p) = "other"
  BY <1>1, <1>2, SameSide
<1>3. CASE Side(c, p) # "other" /\ p # 2
  <2>1. p > Start(c) /\ p > Start(d)
    BY <1>1, <1>3, SameSide
  <2>2. lock[p - 1] = c /\ lock[p - 1] = d
    BY <2>1, KeepsBelow DEF Brings
  <2> QED BY <2>2
<1>4. CASE Side(c, p) # "other" /\ p = 2
  <2>1. c \in {0, 1} /\ d \in {0, 1}
    BY <1>1, <1>4, SameSide
  <2>2. ~(Brings(0) /\ Brings(1))
    BY DEF IInv, SendsOnce, Brings, Climbing
  <2> QED BY <2>1, <2>2
<1> QED
  BY <1>2, <1>3, <1>4

\* Where a carrier is that waits for a lock, and that it has it after the step.
LEMMA AcquireMoves ==
  ASSUME IInv, NEW c \in Carriers, NEW p \in Pairs, acquire(c), carrier[c].pair = p
  PROVE  \E r \in At :
           /\ r.at = "test" /\ r.what = carrier[c].what /\ r.pair = p
           /\ carrier' = [carrier EXCEPT ![c] = r]
           /\ p >= Start(c) /\ p \in Start(c) .. N
           /\ Locks' /\ lock' \in [Pairs -> Carriers \cup {Free}]
           /\ Climbing(c) /\ Climbing(c)' /\ carrier'[c] = r /\ carrier[c].at = "acquire"
<1> DEFINE r == [carrier[c] EXCEPT !.at = "test"]
<1>1. carrier[c].at = "acquire" /\ lock[p] = Free /\ lock' = [lock EXCEPT ![p] = c]
      /\ carrier' = [carrier EXCEPT ![c] = r]
  BY DEF acquire, Move
<1>2. r \in At /\ r.at = "test" /\ r.what = carrier[c].what /\ r.pair = p
  <2>1. carrier[c] \in At
    BY DEF IInv, TypeInv, At
  <2> QED BY <2>1 DEF At, Steps
<1> HIDE DEF r
<1>3. carrier'[c] = r /\ \A d \in Carriers : d # c => Held(d)' = Held(d)
  BY <1>1, <1>2, OneMoves DEF IInv
<1>4. Climbing(c) /\ Climbing(c)'
  BY <1>1, <1>2, <1>3 DEF Climbing
<1>5. p \in Start(c) .. N
  BY <1>4 DEF IInv, TypeInv
<1>6. Start(c) \in Pairs /\ p >= Start(c)
  BY <1>5, Places DEF Pairs
<1>7. Held(c) = Start(c) .. p - 1 /\ Held(c)' = Start(c) .. p
  BY <1>1, <1>2, <1>3 DEF Held
<1>8. \A q \in Pairs : q \in Held(c)' <=> q \in Held(c) \/ q = p
  BY <1>6, <1>7 DEF Pairs
<1>9. \A d \in Carriers : p \notin Held(d)
  BY <1>1, Numbers DEF IInv, Locks
<1>10. lock' \in [Pairs -> Carriers \cup {Free}]
       /\ \A q \in Pairs : lock'[q] = IF q = p THEN c ELSE lock[q]
  BY <1>1 DEF IInv, TypeInv
<1>11. ASSUME NEW q \in Pairs, NEW d \in Carriers PROVE lock'[q] = d <=> q \in Held(d)'
  <2>1. lock[q] = d <=> q \in Held(d)
    BY DEF IInv, Locks
  <2>2. CASE d = c
    BY <1>8, <1>10, <2>1, <2>2
  <2>3. CASE d # c
    BY <1>3, <1>9, <1>10, <2>1, <2>3
  <2> QED BY <2>2, <2>3
<1>12. Locks'
  BY <1>11 DEF Locks
<1> QED
  BY <1>1, <1>2, <1>3, <1>4, <1>5, <1>6, <1>10, <1>12

\* A completion is stored at a side that has its value.
LEMMA AcquireCompletedInv ==
  ASSUME IInv, NEW c \in Carriers, acquire(c), carrier[c].what # "next" PROVE IInv'
<1>0. PICK p \in Pairs : carrier[c].pair = p
  BY DEF IInv, TypeInv
<1>1. PICK r \in At :
        /\ r.at = "test" /\ r.what = carrier[c].what /\ r.pair = p
        /\ carrier' = [carrier EXCEPT ![c] = r]
        /\ p >= Start(c) /\ p \in Start(c) .. N
        /\ Locks' /\ lock' \in [Pairs -> Carriers \cup {Free}]
        /\ Climbing(c) /\ Climbing(c)' /\ carrier'[c] = r /\ carrier[c].at = "acquire"
  BY <1>0, AcquireMoves
<1>2. /\ UNCHANGED <<subscribed, kind, disposed, background, firstMap, lastMap, delivered, ended>>
      /\ store(c, p)
  BY <1>0 DEF acquire, mapVars
<1>3. /\ value' = value /\ completed' \in [Pairs -> [Sides -> BOOLEAN]]
      /\ \A q \in Pairs, side \in Sides : completed'[q][side] =>
           completed[q][side] \/ (q = p /\ side = Side(c, p))
  BY <1>2, CompletedEffect DEF IInv
<1>4. /\ carrier' \in [Carriers -> At]
      /\ \A d \in Carriers : d # c =>
           /\ carrier'[d] = carrier[d]
           /\ Climbing(d)' <=> Climbing(d)
           /\ Brings(d)' <=> Brings(d)
           /\ \A q \in Pairs : Leaves(d, q)' <=> Leaves(d, q)
  BY <1>1, OneMoves DEF IInv
<1>5. HandedOn' <=> HandedOn
  BY <1>2 DEF HandedOn
<1>6. /\ \A q \in Pairs, side \in Sides : Stored(q, side)' <=> Stored(q, side)
      /\ \A d \in Carriers : Entered(d)' <=> Entered(d)
      /\ \A q \in Pairs : Full(q)' <=> Full(q)
      /\ \A q \in Pairs : Gone(q)' <=> Gone(q)
  BY <1>3, <1>5, SameValues
<1>7. carrier[c].what = "completed"
  BY DEF IInv, TypeInv
<1>8. ~Brings(c) /\ ~Brings(c)' /\ \A q \in Pairs : ~Leaves(c, q) /\ ~Leaves(c, q)'
  BY <1>1, <1>7 DEF Brings, Leaves
<1>9. Entered(c) /\ (p > Start(c) => Gone(p - 1))
  BY <1>0, <1>1, <1>7 DEF IInv, HasEntered, EnteredFor
<1>10. Stored(p, Side(c, p))
  <2>1. CASE p = Start(c)
    BY <1>9, <2>1 DEF Entered
  <2>2. CASE p > Start(c)
    <3>1. p - 1 < N /\ p - 1 + 1 = p
      BY SignalsAssumption DEF Pairs
    <3>2. Side(c, p) = "self"
      BY <2>2, Places
    <3> QED BY <1>9, <2>2, <3>1, <3>2 DEF Gone
  <2>3. p = Start(c) \/ p > Start(c)
    BY <1>1, Places DEF Pairs
  <2> QED BY <2>1, <2>2, <2>3
<1>11. TypeInv'
  <2>1. Packed(value[N])' = Packed(value[N])
    BY <1>3 DEF Packed
  <2>2. \A d \in Carriers : Climbing(d)' => carrier'[d].pair \in Start(d) .. N
    BY <1>1, <1>4 DEF IInv, TypeInv
  <2>3. DOMAIN value' = Pairs /\ \A q \in Pairs : DOMAIN value'[q] = Sides
    BY <1>3 DEF IInv, TypeInv
  <2> QED BY <1>1, <1>2, <1>3, <1>4, <2>1, <2>2, <2>3 DEF IInv, TypeInv, At
<1>12. SendsOnce'
  <2>1. \A t \in Carriers : carrier'[t].at = "idle" <=> carrier[t].at = "idle"
    BY <1>1, <1>4
  <2>2. \A t \in Signals : t \in Carriers
    BY DEF Signals, Carriers
  <2>3. \A t \in Carriers : Brings(t)' <=> Brings(t)
    BY <1>4, <1>8
  <2> QED BY <1>2, <1>6, <2>1, <2>2, <2>3, Numbers DEF IInv, SendsOnce
<1>13. NotYet' /\ HasEntered'
  <2>1. \A d \in Carriers : d # c => NotYetFor(d)' /\ EnteredFor(d)'
    BY <1>1, <1>2, <1>3, <1>5, KeepsOthers
  <2>2. NotYetFor(c)'
    BY <1>8 DEF NotYetFor
  <2>3. p > Start(c) => Gone(p - 1)'
    BY <1>6, <1>9, Places
  <2>4. \A q \in Pairs : carrier'[c].pair = q => q = p
    BY <1>1
  <2>5. EnteredFor(c)'
    BY <1>6, <1>9, <2>3, <2>4 DEF EnteredFor
  <2> QED BY <2>1, <2>2, <2>5 DEF NotYet, HasEntered
<1>14. Chain'
  <2>1. ASSUME NEW q \in Pairs, Full(q)' PROVE Gone(q)' \/ \E d \in Carriers : Leaves(d, q)'
    <3>1. Gone(q) \/ \E d \in Carriers : Leaves(d, q)
      BY <1>6, <2>1 DEF IInv, Chain
    <3> QED BY <1>4, <1>6, <1>8, <3>1
  <2>2. ASSUME NEW q \in Pairs, NEW side \in Sides, completed'[q][side] PROVE Stored(q, side)'
    <3>1. Stored(q, side)
      BY <1>3, <1>10, <2>2 DEF IInv, Chain
    <3> QED BY <1>6, <3>1
  <2>3. \A q, t \in Pairs : Gone(q)' /\ t <= q => Full(t)'
    BY <1>6 DEF IInv, Chain
  <2>4. \A q \in Pairs : disposed'[q] => Gone(q)'
    BY <1>2, <1>6 DEF IInv, Chain
  <2> QED BY <2>1, <2>2, <2>3, <2>4 DEF Chain
<1>15. Maps'
  BY <1>2, <1>6, Numbers DEF IInv, Maps
<1> QED
  BY <1>1, <1>11, <1>12, <1>13, <1>14, <1>15 DEF IInv

\* A value is stored: what is newly there is its side of the pair, and through it that
\* the pair below is gone.
LEMMA AcquireStores ==
  ASSUME IInv, NEW c \in Carriers, acquire(c), carrier[c].what = "next",
         NEW p \in Pairs, carrier[c].pair = p
  PROVE  /\ ~Stored(p, Side(c, p)) /\ ~Full(p) /\ ~Gone(p)
         /\ p > Start(c) => Full(p - 1)
         /\ completed' = completed /\ DOMAIN value' = Pairs
         /\ \A q \in Pairs : DOMAIN value'[q] = Sides
         /\ value'[p][Side(c, p)] = object_or_ractuplenil(0, Carried(c, p))
         /\ \A q \in Pairs : q # p => value'[q] = value[q]
         /\ \A q \in Pairs, side \in Sides :
              q # p \/ side # Side(c, p) => value'[q][side] = value[q][side]
         /\ \A q \in Pairs, side \in Sides :
              Stored(q, side)' <=> Stored(q, side) \/ (q = p /\ side = Side(c, p))
         /\ HandedOn' <=> HandedOn
<1>1. store(c, p) /\ carrier[c].at = "acquire" /\ UNCHANGED <<background, delivered>>
  BY DEF acquire, mapVars
<1>2. /\ completed' = completed /\ DOMAIN value' = Pairs
      /\ \A q \in Pairs : DOMAIN value'[q] = Sides
      /\ value'[p][Side(c, p)] = object_or_ractuplenil(0, Carried(c, p))
      /\ \A q \in Pairs, side \in Sides :
           q # p \/ side # Side(c, p) => value'[q][side] = value[q][side]
      /\ \A q \in Pairs : q # p => value'[q] = value[q]
  BY <1>1, StoreEffect DEF IInv
<1>3. ~Stored(p, Side(c, p)) /\ (p > Start(c) => Full(p - 1))
  <2>1. NotYetFor(c)
    BY DEF IInv, NotYet
  <2> QED BY <1>1, <2>1 DEF NotYetFor, Brings, Climbing
<1>4. Side(c, p) \in Sides
  BY Places
<1>5. ~Full(p)
  BY <1>3, <1>4, SideValues DEF Full, BothIn, Stored
<1>6. ~Gone(p)
  <2>1. p <= p
    BY DEF Pairs
  <2> QED BY <1>5, <2>1 DEF IInv, Chain
<1>7. Stored(p, Side(c, p))'
  BY <1>2, NeverNil DEF Stored
<1>8. ASSUME NEW q \in Pairs, NEW side \in Sides, q # p \/ side # Side(c, p)
      PROVE  Stored(q, side)' <=> Stored(q, side)
  BY <1>2, <1>8 DEF Stored
<1>9. \A q \in Pairs, side \in Sides :
        Stored(q, side)' <=> Stored(q, side) \/ (q = p /\ side = Side(c, p))
  BY <1>7, <1>8
<1>10. HandedOn' <=> HandedOn
  BY <1>1 DEF HandedOn
<1> QED
  BY <1>2, <1>3, <1>5, <1>6, <1>9, <1>10

\* The same for where signals have entered, pairs that are full and pairs that are past.
LEMMA AcquireAdds ==
  ASSUME IInv, NEW c \in Carriers, acquire(c), carrier[c].what = "next",
         NEW p \in Pairs, carrier[c].pair = p
  PROVE  /\ \A d \in Carriers :
              Entered(d)' <=> Entered(d) \/ (Start(d) = p /\ Side(d, p) = Side(c, p))
         /\ \A q \in Pairs : Full(q) => Full(q)'
         /\ \A q \in Pairs : Full(q)' => Full(q) \/ q = p
         /\ \A q \in Pairs :
              Gone(q)' <=> Gone(q) \/ (q < N /\ q + 1 = p /\ Side(c, p) = "self")
<1>1. /\ \A q \in Pairs, side \in Sides :
           Stored(q, side)' <=> Stored(q, side) \/ (q = p /\ side = Side(c, p))
      /\ HandedOn' <=> HandedOn
  BY AcquireStores
<1>2. ASSUME NEW d \in Carriers
      PROVE  Entered(d)' <=> Entered(d) \/ (Start(d) = p /\ Side(d, p) = Side(c, p))
  <2>1. Start(d) \in Pairs /\ Side(d, Start(d)) \in Sides
    BY Places
  <2> QED BY <1>1, <2>1 DEF Entered
<1>3. \A q \in Pairs : Full(q) <=> Stored(q, "self") /\ Stored(q, "other")
  BY DEF Full, BothIn, Stored
<1>4. \A q \in Pairs : Full(q)' <=> Stored(q, "self")' /\ Stored(q, "other")'
  BY DEF Full, BothIn, Stored
<1>5. \A q \in Pairs : (Full(q) => Full(q)') /\ (Full(q)' => Full(q) \/ q = p)
  BY <1>1, <1>3, <1>4, SideValues
<1>6. ASSUME NEW q \in Pairs
      PROVE  Gone(q)' <=> Gone(q) \/ (q < N /\ q + 1 = p /\ Side(c, p) = "self")
  <2>1. CASE q < N
    <3>1. q + 1 \in Pairs
      BY <2>1, Places, Numbers
    <3>2. Stored(q + 1, "self")' <=> Stored(q + 1, "self") \/ (q + 1 = p /\ "self" = Side(c, p))
      BY <1>1, <3>1, SideValues
    <3> QED BY <2>1, <3>2 DEF Gone
  <2>2. CASE ~(q < N)
    BY <1>1, <2>2 DEF Gone
  <2> QED BY <2>1, <2>2
<1> QED
  BY <1>2, <1>5, <1>6

\* Nobody else's value is stored by it, and no signal has sent before.
LEMMA AcquireSendsOnce ==
  ASSUME IInv, NEW c \in Carriers, acquire(c), carrier[c].what = "next"
  PROVE  SendsOnce'
<1>0. PICK p \in Pairs : carrier[c].pair = p
  BY DEF IInv, TypeInv
<1>1. PICK r \in At :
        /\ r.at = "test" /\ r.what = "next" /\ r.pair = p
        /\ carrier' = [carrier EXCEPT ![c] = r] /\ p >= Start(c) /\ carrier'[c] = r
        /\ Climbing(c) /\ Climbing(c)' /\ carrier[c].at = "acquire"
  BY <1>0, AcquireMoves
<1>2. UNCHANGED <<subscribed, kind, background>>
  BY DEF acquire, mapVars
<1>3. \A d \in Carriers : Entered(d)' <=> Entered(d) \/ (Start(d) = p /\ Side(d, p) = Side(c, p))
  BY <1>0, AcquireAdds
<1>4. \A d \in Carriers : d # c => carrier'[d] = carrier[d] /\ (Brings(d)' <=> Brings(d))
  BY <1>1, OneMoves DEF IInv
<1>5. Brings(c) /\ Brings(c)'
  BY <1>1 DEF Brings
<1>6. \A d \in Carriers : (carrier'[d].at = "idle" <=> carrier[d].at = "idle")
                          /\ (Brings(d)' <=> Brings(d))
  BY <1>1, <1>4, <1>5
\* A signal that has nothing on its way and would enter where c does.
<1>7. ASSUME NEW d \in Carriers, Start(d) = p, Side(d, p) = Side(c, p)
      PROVE  d = c \/ (c \in {0, 1} /\ d \in {0, 1})
  <2>1. p >= Start(d) /\ ~(p > Start(d))
    BY <1>7 DEF Pairs
  <2>2. CASE Side(c, p) = "other"
    BY <1>1, <1>7, <2>1, <2>2, SameSide
  <2>3. CASE Side(c, p) # "other"
    BY <1>1, <1>7, <2>1, <2>3, SameSide
  <2> QED BY <2>2, <2>3
<1>8. ASSUME NEW t \in Signals, carrier'[t].at = "idle" PROVE ~Entered(t)'
  <2>1. t \in Carriers /\ t # 0
    BY <1>8, SignalsAssumption DEF Signals, Carriers
  <2>2. carrier[t].at = "idle" /\ ~Entered(t)
    BY <1>6, <1>8, <2>1 DEF IInv, SendsOnce
  <2>3. t # c /\ ~(t = 1 /\ c = 0)
    BY <1>1, <2>2 DEF IInv, SendsOnce
  <2>4. ~(Start(t) = p /\ Side(t, p) = Side(c, p))
    BY <1>7, <2>1, <2>3
  <2> QED BY <1>3, <2>1, <2>2, <2>4
<1>9. background' = <<"first">> =>
        kind'[1] = "bare" /\ ~Entered(0)' /\ carrier'[0].at = "idle" /\ carrier'[1].at # "idle"
  <2> SUFFICES ASSUME background = <<"first">>
               PROVE  kind[1] = "bare" /\ ~Entered(0)' /\ carrier'[0].at = "idle" /\ carrier'[1].at # "idle"
    BY <1>2
  <2>1. kind[1] = "bare" /\ ~Entered(0) /\ carrier[0].at = "idle" /\ carrier[1].at # "idle"
    BY DEF IInv, SendsOnce
  <2>2. c # 0 /\ c # 1
    BY <1>1, <1>5, <2>1 DEF IInv, SendsOnce
  <2>3. ~(Start(0) = p /\ Side(0, p) = Side(c, p))
    BY <1>7, <2>2, Numbers
  <2> QED BY <1>3, <1>6, <2>1, <2>3, Numbers
<1>10. \A t \in Signals : t \in Carriers
  BY DEF Signals, Carriers
<1>11. \A t \in Signals : carrier'[t].at # "idle" => t <= subscribed'
  BY <1>2, <1>6, <1>10 DEF IInv, SendsOnce
<1>12. /\ carrier'[1].at = "idle" => carrier'[0].at = "idle"
       /\ carrier'[0].at # "idle" => kind'[1] = "bare"
       /\ Brings(1)' => kind'[1] # "bare"
  BY <1>2, <1>6, Numbers DEF IInv, SendsOnce
<1> QED
  BY <1>8, <1>9, <1>11, <1>12 DEF SendsOnce

\* A value is brought to a pair whose lock is free.
LEMMA AcquireNextInv ==
  ASSUME IInv, NEW c \in Carriers, acquire(c), carrier[c].what = "next" PROVE IInv'
<1>0. PICK p \in Pairs : carrier[c].pair = p
  BY DEF IInv, TypeInv
<1>1. PICK r \in At :
        /\ r.at = "test" /\ r.what = "next" /\ r.pair = p
        /\ carrier' = [carrier EXCEPT ![c] = r]
        /\ p >= Start(c) /\ p \in Start(c) .. N
        /\ Locks' /\ lock' \in [Pairs -> Carriers \cup {Free}]
        /\ Climbing(c) /\ Climbing(c)' /\ carrier'[c] = r /\ carrier[c].at = "acquire"
  BY <1>0, AcquireMoves
<1>2. UNCHANGED <<subscribed, kind, disposed, background, firstMap, lastMap, delivered, ended>>
  BY DEF acquire, mapVars
<1>3. /\ ~Stored(p, Side(c, p)) /\ ~Full(p) /\ ~Gone(p)
      /\ p > Start(c) => Full(p - 1)
      /\ completed' = completed /\ DOMAIN value' = Pairs
      /\ \A q \in Pairs : DOMAIN value'[q] = Sides
      /\ \A q \in Pairs : q # p => value'[q] = value[q]
      /\ \A q \in Pairs, side \in Sides :
           Stored(q, side)' <=> Stored(q, side) \/ (q = p /\ side = Side(c, p))
  BY <1>0, AcquireStores
<1>4. /\ \A d \in Carriers :
           Entered(d)' <=> Entered(d) \/ (Start(d) = p /\ Side(d, p) = Side(c, p))
      /\ \A q \in Pairs : Full(q) => Full(q)'
      /\ \A q \in Pairs : Full(q)' => Full(q) \/ q = p
      /\ \A q \in Pairs :
           Gone(q)' <=> Gone(q) \/ (q < N /\ q + 1 = p /\ Side(c, p) = "self")
  BY <1>0, AcquireAdds
<1>5. /\ carrier' \in [Carriers -> At]
      /\ \A d \in Carriers : d # c =>
           /\ carrier'[d] = carrier[d]
           /\ Climbing(d)' <=> Climbing(d)
           /\ Brings(d)' <=> Brings(d)
           /\ \A q \in Pairs : Leaves(d, q)' <=> Leaves(d, q)
  BY <1>1, OneMoves DEF IInv
<1>6. Brings(c) /\ Leaves(c, p)'
  BY <1>1 DEF Brings, Leaves
\* The pair below, which is gone by this, is full and c keeps its lock.
<1>7. ASSUME NEW q \in Pairs, q < N, q + 1 = p, Side(c, p) = "self"
      PROVE  p > Start(c) /\ q = p - 1 /\ lock[q] = c /\ Full(q)
  <2>1. p # 2 /\ q = p - 1
    BY <1>7, SignalsAssumption DEF Pairs
  <2>2. p > Start(c)
    BY <1>1, <1>7, <2>1, SameSide
  <2> QED BY <1>0, <1>1, <1>3, <2>1, <2>2, KeepsBelow
<1>8. TypeInv'
  <2>1. delivered' \in {<<>>, <<Packed(value[N])>>'}
    <3>1. CASE p = N
      <4>1. ~HandedOn
        BY <1>3, <3>1, Numbers DEF Gone
      <4> QED BY <1>2, <4>1 DEF HandedOn
    <3>2. CASE p # N
      <4>1. Packed(value[N])' = Packed(value[N])
        BY <1>3, <3>2, Numbers DEF Packed
      <4> QED BY <1>2, <4>1 DEF IInv, TypeInv
    <3> QED BY <3>1, <3>2
  <2>2. \A d \in Carriers : Climbing(d)' => carrier'[d].pair \in Start(d) .. N
    BY <1>1, <1>5 DEF IInv, TypeInv
  <2> QED BY <1>1, <1>2, <1>3, <1>5, <2>1, <2>2 DEF IInv, TypeInv, At
<1>9. SendsOnce'
  BY AcquireSendsOnce
<1>10. NotYet'
  <2>1. ASSUME NEW d \in Carriers, d # c PROVE NotYetFor(d)'
    <3>1. NotYetFor(d)
      BY DEF IInv, NotYet
    <3>2. \A q \in Pairs : q > Start(d) => q - 1 \in Pairs
      BY Places
    <3>3. ASSUME NEW q \in Pairs, Brings(d), carrier[d].pair = q, carrier[d].at = "acquire"
          PROVE  ~Stored(q, Side(d, q))' /\ (q > Start(d) => Full(q - 1)')
      <4>1. ~Stored(q, Side(d, q)) /\ (q > Start(d) => Full(q - 1))
        BY <3>1, <3>3 DEF NotYetFor
      <4>2. ~(q = p /\ Side(d, q) = Side(c, p))
        BY <1>0, <1>6, <2>1, <3>3, MeetOnce
      <4>3. Side(d, q) \in Sides
        BY Places
      <4> QED BY <1>3, <1>4, <3>2, <4>1, <4>2, <4>3
    <3>4. ASSUME NEW q \in Pairs, Brings(d), carrier[d].pair = q, carrier[d].at # "acquire"
          PROVE  ~Gone(q)'
      <4>1. carrier[d].at = "test"
        BY <3>4 DEF Brings, Climbing
      <4>2. lock[q] = d
        BY <3>4, <4>1, AtTest
      <4>3. ~(q < N /\ q + 1 = p /\ Side(c, p) = "self")
        BY <1>7, <2>1, <4>2
      <4>4. ~Gone(q)
        BY <3>1, <3>4 DEF NotYetFor
      <4> QED BY <1>4, <4>3, <4>4
    <3> QED BY <1>5, <2>1, <3>3, <3>4 DEF NotYetFor
  <2>2. NotYetFor(c)'
    <3>1. ~Gone(p)'
      <4>1. p + 1 # p
        BY DEF Pairs
      <4> QED BY <1>3, <1>4, <4>1
    <3>2. \A q \in Pairs : carrier'[c].pair = q => q = p
      BY <1>1
    <3>3. carrier'[c].at = "test"
      BY <1>1
    <3> QED BY <3>1, <3>2, <3>3 DEF NotYetFor
  <2> QED BY <2>1, <2>2 DEF NotYet
<1>11. HasEntered'
  <2>1. ASSUME NEW d \in Carriers, d # c PROVE EnteredFor(d)'
    <3>1. EnteredFor(d)
      BY DEF IInv, HasEntered
    <3>2. \A q \in Pairs : q > Start(d) => q - 1 \in Pairs
      BY Places
    <3>3. /\ Entered(d) => Entered(d)'
          /\ \A q \in Pairs : Gone(q) => Gone(q)'
      BY <1>4
    <3> QED BY <1>2, <1>5, <2>1, <3>1, <3>2, <3>3 DEF EnteredFor
  <2>2. EnteredFor(c)'
    <3>1. CASE p = Start(c)
      BY <1>1, <1>4, <3>1 DEF EnteredFor
    <3>2. CASE p > Start(c)
      <4>1. EnteredFor(c)
        BY DEF IInv, HasEntered
      <4>2. Entered(c)
        BY <1>0, <1>1, <3>2, <4>1 DEF EnteredFor
      <4> QED BY <1>1, <1>4, <4>2 DEF EnteredFor
    <3>3. p = Start(c) \/ p > Start(c)
      BY <1>1, Places DEF Pairs
    <3> QED BY <3>1, <3>2, <3>3
  <2> QED BY <2>1, <2>2 DEF HasEntered
<1>12. Chain'
  <2>1. ASSUME NEW q \in Pairs, NEW t \in Pairs, Gone(q)', t <= q PROVE Full(t)'
    <3>1. CASE Gone(q)
      BY <1>4, <2>1, <3>1 DEF IInv, Chain
    <3>2. CASE q < N /\ q + 1 = p /\ Side(c, p) = "self"
      BY <1>4, <1>7, <2>1, <3>2, FullBelow
    <3> QED BY <1>4, <2>1, <3>1, <3>2
  <2>2. ASSUME NEW q \in Pairs, Full(q)' PROVE Gone(q)' \/ \E d \in Carriers : Leaves(d, q)'
    <3>1. CASE q = p
      BY <1>6, <3>1
    <3>2. CASE q # p
      <4>1. Gone(q) \/ \E d \in Carriers : Leaves(d, q)
        BY <1>4, <2>2, <3>2 DEF IInv, Chain
      <4>2. CASE Leaves(c, q)
        <5>1. p = q + 1 /\ q >= Start(c)
          BY <1>0, <1>1, <4>2 DEF Leaves
        <5>2. p > Start(c) /\ q < N
          BY <1>1, <5>1, Places, SignalsAssumption DEF Pairs
        <5>3. Side(c, p) = "self"
          BY <5>2, Places
        <5> QED BY <1>4, <5>1, <5>2, <5>3
      <4> QED BY <1>4, <1>5, <4>1, <4>2
    <3> QED BY <3>1, <3>2
  <2>3. \A q \in Pairs : disposed'[q] => Gone(q)'
    BY <1>2, <1>4 DEF IInv, Chain
  <2>4. ASSUME NEW q \in Pairs, NEW side \in Sides, completed'[q][side] PROVE Stored(q, side)'
    <3>1. Stored(q, side)
      BY <1>3, <2>4 DEF IInv, Chain
    <3> QED BY <1>3, <3>1
  <2> QED BY <2>1, <2>2, <2>3, <2>4 DEF Chain
<1>13. Maps'
  BY <1>2, <1>4, Numbers DEF IInv, Maps
<1> QED
  BY <1>1, <1>8, <1>9, <1>10, <1>11, <1>12, <1>13 DEF IInv

-----------------------------------------------------------------------------
(* The theorems *)

LEMMA NextInv == IInv /\ [Next]_vars => IInv'
<1> SUFFICES ASSUME IInv, [Next]_vars PROVE IInv'
  OBVIOUS
<1>1. CASE UNCHANGED vars
  <2>1. /\ UNCHANGED <<subscribed, kind, carrier, lock, value, completed, disposed,
                       background, firstMap, lastMap, delivered, ended>>
    BY <1>1 DEF vars, pairVars, mapVars
  <2>2. TypeInv' /\ Locks' /\ Maps' /\ SendsOnce'
    BY <2>1 DEF IInv, TypeInv, Locks, Maps, SendsOnce, Climbing, Held, Packed, Entered,
                Stored, Brings
  <2>3. NotYet' /\ HasEntered'
    BY <2>1 DEF IInv, NotYet, NotYetFor, HasEntered, EnteredFor, Climbing, Entered, Stored,
                Brings, Gone, HandedOn, Full
  <2>4. Chain'
    BY <2>1 DEF IInv, Chain, Gone, HandedOn, Full, Stored, Leaves
  <2> QED BY <2>2, <2>3, <2>4 DEF IInv
<1>2. CASE \E s \in Signals : Subscribe(s) \/ Send(s)
  BY <1>2, SubscribeInv, SendInv
<1>3. ASSUME NEW c \in Carriers, Step(c) PROVE IInv'
  <2>1. CASE acquire(c)
    BY <2>1, AcquireNextInv, AcquireCompletedInv
  <2> QED BY <1>3, <2>1, CompleteInv, WaitInv, PassUpInv, JoinInv, FinishInv DEF Step
<1>4. CASE runBackground
  BY <1>4, BackgroundInv
<1> QED
  BY <1>1, <1>2, <1>3, <1>4 DEF Next, Terminated

\* The invariant of the chain of pairs: who keeps which locks, that each side is stored
\* once, and that a pair with both its sides has passed its value up or is about to.
THEOREM JoinInvariant == Spec => []IInv
  BY InitInv, NextInv, PTL DEF Spec

\* No completion overtakes a value, for any number of signals on any threads: when a
\* subscription ends, both sides of the pair are in and with the pair above, and the
\* subscriber is told of the completion after the joined value.
THEOREM NoCompletionOvertakes == Spec => []ValueBeforeCompletion
<1>1. IInv => ValueBeforeCompletion
  <2> SUFFICES ASSUME IInv PROVE ValueBeforeCompletion
    OBVIOUS
  <2>1. ASSUME NEW p \in Pairs, disposed[p]
        PROVE  BothIn(value[p]) /\ (p < N => value[p + 1]["self"] # nil)
    <3>1. Gone(p) /\ p <= p
      BY <2>1 DEF IInv, Chain, Pairs
    <3>2. Full(p)
      BY <3>1 DEF IInv, Chain
    <3> QED BY <3>1, <3>2 DEF Full, Gone, Stored
  <2>2. ended => Len(delivered) = 1
    <3>1. ended => delivered = <<Packed(value[N])>>
      BY DEF IInv, TypeInv, Maps
    <3>2. Len(<<Packed(value[N])>>) = 1
      OBVIOUS
    <3> QED BY <3>1, <3>2
  <2> QED BY <2>1, <2>2 DEF ValueBeforeCompletion
<1> QED
  BY <1>1, JoinInvariant, PTL

-----------------------------------------------------------------------------
(* The steps of Join *)

\* When the top pair has both sides, every signal's value is in.
LEMMA AllArrived == ASSUME IInv, Full(N) PROVE Arrived = Signals
<1>1. ASSUME NEW s \in Signals PROVE s \in Arrived
  <2>1. Start(s) \in Pairs /\ Side(s, Start(s)) \in Sides /\ Start(s) <= N
    BY Places, SignalsAssumption DEF Signals, Carriers, Pairs
  <2>2. Full(Start(s))
    BY <2>1, FullBelow, Numbers
  <2> QED BY <2>1, <2>2, SideValues DEF Full, BothIn, Arrived
<1> QED
  BY <1>1 DEF Arrived

\* A value that is stored is that of one signal more, or of a pair.
LEMMA AcquireArrives ==
  ASSUME IInv, NEW c \in Carriers, acquire(c), carrier[c].what = "next"
  PROVE  Arrived' = Arrived \/ \E s \in Signals : s \notin Arrived /\ Arrived' = Arrived \cup {s}
<1>0. PICK p \in Pairs : carrier[c].pair = p
  BY DEF IInv, TypeInv
<1>1. p >= Start(c)
  BY <1>0, AcquireMoves
<1>2. \A d \in Carriers : Entered(d)' <=> Entered(d) \/ (Start(d) = p /\ Side(d, p) = Side(c, p))
  BY <1>0, AcquireAdds
<1>3. ~Stored(p, Side(c, p))
  BY <1>0, AcquireStores
<1>4. \A s \in Signals : s \in Carriers
  BY DEF Signals, Carriers
<1>5. /\ Arrived = {s \in Signals : Entered(s)}
      /\ Arrived' = {s \in Signals : Entered(s)'}
  BY DEF Arrived, Entered, Stored
<1>6. \A s \in Signals : s \in Arrived' <=>
        s \in Arrived \/ (Start(s) = p /\ Side(s, p) = Side(c, p))
  BY <1>2, <1>4, <1>5
<1>7. ASSUME NEW s \in Signals, NEW t \in Signals, Start(s) = p, Start(t) = p,
             Side(s, p) = Side(t, p)
      PROVE  s = t
  BY <1>7, SignalsAssumption DEF Start, Side, Signals
<1>8. CASE \E s \in Signals : Start(s) = p /\ Side(s, p) = Side(c, p)
  <2>1. PICK s \in Signals : Start(s) = p /\ Side(s, p) = Side(c, p)
    BY <1>8
  <2>2. s \notin Arrived
    BY <1>3, <1>5, <2>1 DEF Entered
  <2>3. \A t \in Signals : t \in Arrived' <=> t \in Arrived \/ t = s
    BY <1>6, <1>7, <2>1
  <2>4. Arrived \subseteq Signals /\ Arrived' \subseteq Signals
    BY <1>5
  <2> QED BY <2>2, <2>3, <2>4
<1>9. CASE ~\E s \in Signals : Start(s) = p /\ Side(s, p) = Side(c, p)
  BY <1>5, <1>6, <1>9
<1> QED
  BY <1>8, <1>9

\* The pairs, the maps and the threads take the steps of Join: the values come in one
\* at a time, and all of them are handed on together when the last is in, once.
THEOREM TakesTheStepsOfJoin == Spec => Joined!Init /\ [][Joined!Next]_(Joined!joinVars)
<1>1. Init => Joined!Init
  <2> SUFFICES ASSUME Init PROVE Arrived = {} /\ Len(delivered) = 0
    BY DEF Joined!Init
  <2>1. \A s \in Signals : value[Start(s)][Side(s, Start(s))] = nil
    BY Places DEF Init, Signals, Carriers
  <2>2. delivered = <<>>
    BY DEF Init
  <2> QED BY <2>1, <2>2 DEF Arrived
<1>2. ASSUME IInv, [Next]_vars PROVE [Joined!Next]_(Joined!joinVars)
  <2> SUFFICES \/ Arrived' = Arrived /\ Len(delivered)' = Len(delivered)
               \/ /\ Arrived = Signals /\ Len(delivered) = 0
                  /\ Len(delivered)' = 1 /\ Arrived' = Arrived
               \/ \E s \in Signals : /\ s \notin Arrived /\ Arrived' = Arrived \cup {s}
                                     /\ Len(delivered)' = Len(delivered)
    BY DEF Joined!Next, Joined!Deliver, Joined!Arrive, Joined!joinVars
  <2>1. CASE value' = value /\ delivered' = delivered
    BY <2>1 DEF Arrived
  <2>2. CASE value' = value /\ Full(N) /\ delivered = <<>> /\ delivered' = Append(delivered, Packed(value[N]))
    <3>1. Arrived' = Arrived
      BY <2>2 DEF Arrived
    <3>2. Len(<<>>) = 0 /\ Len(Append(<<>>, Packed(value[N]))) = 1
      OBVIOUS
    <3>3. Arrived = Signals
      BY <1>2, <2>2, AllArrived
    <3> QED BY <2>2, <3>1, <3>2, <3>3
  <2>3. ASSUME NEW c \in Carriers, acquire(c), carrier[c].what = "next"
        PROVE  \/ Arrived' = Arrived /\ Len(delivered)' = Len(delivered)
               \/ \E s \in Signals : /\ s \notin Arrived /\ Arrived' = Arrived \cup {s}
                                     /\ Len(delivered)' = Len(delivered)
    <3>1. delivered' = delivered
      BY <2>3 DEF acquire, mapVars
    <3> QED BY <1>2, <2>3, <3>1, AcquireArrives
  <2>4. ASSUME NEW c \in Carriers, join(c)
        PROVE  \/ value' = value /\ delivered' = delivered
               \/ /\ value' = value /\ Full(N) /\ delivered = <<>>
                  /\ delivered' = Append(delivered, Packed(value[N]))
    <3>1. carrier[c].at = "test" /\ carrier[c].what = "next" /\ carrier[c].pair = N
          /\ Full(N) /\ value' = value
          /\ (delivered' = delivered \/ delivered' = Append(delivered, Packed(value[N])))
      BY <2>4 DEF join, Full
    <3>2. delivered = <<>>
      BY <1>2, <3>1, AtTest, Numbers DEF Gone, HandedOn
    <3> QED BY <3>1, <3>2
  <2>5. ASSUME runBackground
        PROVE  \/ value' = value /\ delivered' = delivered
               \/ /\ value' = value /\ Full(N) /\ delivered = <<>>
                  /\ delivered' = Append(delivered, Packed(value[N]))
    <3>1. value' = value
      BY <2>5 DEF runBackground, pairVars
    <3>2. CASE Head(background) = "first"
      BY <2>5, <3>1, <3>2 DEF runBackground
    <3>3. CASE Head(background) # "first"
      <4>1. background # <<>> /\ delivered' = Append(delivered, Packed(value[N]))
        BY <2>5, <3>3 DEF runBackground
      <4>2. background = <<"joined">>
        <5>1. Head(<<"first">>) = "first"
          OBVIOUS
        <5> QED BY <1>2, <3>3, <4>1, <5>1 DEF IInv, TypeInv
      <4>3. Gone(N) /\ N <= N
        BY <4>2, Numbers DEF Gone, HandedOn
      <4>4. Full(N) /\ delivered = <<>>
        BY <1>2, <4>2, <4>3, Numbers DEF IInv, Chain, Maps
      <4> QED BY <3>1, <4>1, <4>4
    <3> QED BY <3>2, <3>3
  <2>6. CASE UNCHANGED vars
    BY <2>1, <2>6 DEF vars, pairVars, mapVars
  <2>7. ASSUME NEW s \in Signals, Subscribe(s) \/ Send(s) PROVE value' = value /\ delivered' = delivered
    BY <2>7 DEF Subscribe, Send, pairVars, mapVars
  <2>8. ASSUME NEW c \in Carriers, acquire(c), carrier[c].what # "next"
        PROVE  value' = value /\ delivered' = delivered
    <3>1. store(c, carrier[c].pair) /\ delivered' = delivered
      BY <2>8 DEF acquire, mapVars
    <3> QED BY <2>8, <3>1 DEF store
  <2>9. ASSUME NEW c \in Carriers, Complete(c) \/ wait(c) \/ passUp(c) \/ finish(c)
        PROVE  value' = value /\ delivered' = delivered
    BY <2>9 DEF Complete, wait, passUp, finish, pairVars, mapVars
  <2> QED BY <1>2, <2>1, <2>2, <2>3, <2>4, <2>5, <2>6, <2>7, <2>8, <2>9 DEF Next, Step, Terminated
<1> QED
  BY <1>1, <1>2, JoinInvariant, PTL DEF Spec

-----------------------------------------------------------------------------
(* What is handed on *)

\* What a carrier stores belongs to the side where it stores it.
LEMMA StoresItsOwn ==
  ASSUME IInv, NEW c \in Carriers, NEW p \in Pairs, p >= Start(c)
  PROVE  LET v == object_or_ractuplenil(0, Carried(c, p)) IN
         IF Side(c, p) = "other" THEN v = OwnValue(p) ELSE v = FromBelow(p)
<1>1. /\ Side(c, p) = "other" => c = p
      /\ Side(c, p) # "other" => Side(c, p) = "self" /\ (p > Start(c) \/ (p = 2 /\ c \in {0, 1}))
      /\ p > Start(c) => p # 2
  BY SameSide
<1>2. CASE Side(c, p) = "other"
  <2>1. c = p /\ ~(c <= 1) /\ ~(p > Start(c))
    BY <1>1, <1>2, SignalsAssumption DEF Pairs, Start
  <2> QED BY <1>2, <2>1 DEF Carried, OwnValue
<1>3. CASE Side(c, p) # "other" /\ p > Start(c)
  <2>1. Packed(value[p - 1]) # nil
    BY NeverNil DEF Packed
  <2> QED BY <1>1, <1>3, <2>1 DEF Carried, FromBelow, object_or_ractuplenil
<1>4. CASE Side(c, p) # "other" /\ ~(p > Start(c))
  <2>1. p = 2 /\ c <= 1
    BY <1>1, <1>4
  <2>2. RACTuplePack(<<Sent(1)>>) # nil
    BY NeverNil
  <2> QED BY <1>4, <2>1, <2>2 DEF Carried, FromBelow, object_or_ractuplenil
<1> QED
  BY <1>2, <1>3, <1>4

LEMMA ContentsInit == Init => Contents
  BY SideValues DEF Init, Contents

LEMMA ContentsNext == IInv /\ Contents /\ [Next]_vars => Contents'
<1> SUFFICES ASSUME IInv, Contents, [Next]_vars PROVE Contents'
  OBVIOUS
<1>1. CASE value' = value
  <2>1. \A p \in Pairs : FromBelow(p)' = FromBelow(p)
    BY <1>1 DEF FromBelow
  <2> QED BY <1>1, <2>1 DEF Contents
<1>2. ASSUME NEW c \in Carriers, acquire(c), carrier[c].what = "next" PROVE Contents'
  <2>0. PICK p \in Pairs : carrier[c].pair = p
    BY DEF IInv, TypeInv
  <2>1. p >= Start(c)
    BY <1>2, <2>0, AcquireMoves
  <2>2. /\ ~Gone(p)
        /\ value'[p][Side(c, p)] = object_or_ractuplenil(0, Carried(c, p))
        /\ \A q \in Pairs : q # p => value'[q] = value[q]
        /\ \A q \in Pairs, side \in Sides :
             q # p \/ side # Side(c, p) => value'[q][side] = value[q][side]
    BY <1>2, <2>0, AcquireStores
  <2>3. IF Side(c, p) = "other" THEN value'[p][Side(c, p)] = OwnValue(p)
        ELSE value'[p][Side(c, p)] = FromBelow(p)
    BY <2>1, <2>2, StoresItsOwn
  <2>4. Side(c, p) \in Sides
    BY Places
  <2>5. \A q \in Pairs : value'[q]["other"] \in {nil, OwnValue(q)}
                         /\ value'[q]["self"] \in {nil, FromBelow(q)}
    BY <2>2, <2>3, <2>4, SideValues DEF Contents
  <2>6. ASSUME NEW q \in Pairs, value'[q]["self"] # nil PROVE FromBelow(q)' = FromBelow(q)
    <3>1. CASE q = 2
      BY <3>1 DEF FromBelow
    <3>2. CASE q # 2
      <4>1. q - 1 \in Pairs /\ q - 1 < N /\ q - 1 + 1 = q
        BY <3>2, SignalsAssumption DEF Pairs
      <4>2. q - 1 # p
        <5>1. SUFFICES ASSUME q - 1 = p PROVE FALSE
          OBVIOUS
        <5>2. q # p
          BY <5>1 DEF Pairs
        <5>3. value[q]["self"] # nil
          BY <2>2, <2>6, <5>2
        <5>4. Gone(p)
          BY <4>1, <5>1, <5>3 DEF Gone, Stored
        <5> QED BY <2>2, <5>4
      <4>3. value'[q - 1] = value[q - 1]
        BY <2>2, <4>1, <4>2
      <4> QED BY <3>2, <4>3 DEF FromBelow
    <3> QED BY <3>1, <3>2
  <2>7. \A q \in Pairs : value'[q]["self"] \in {nil, FromBelow(q)'}
    BY <2>5, <2>6
  <2> QED BY <2>5, <2>7 DEF Contents, OwnValue
<1>3. ASSUME NEW c \in Carriers, acquire(c), carrier[c].what # "next" PROVE value' = value
  <2>1. store(c, carrier[c].pair)
    BY <1>3 DEF acquire
  <2> QED BY <1>3, <2>1 DEF store
<1>4. ASSUME NEW c \in Carriers, Step(c), ~acquire(c) PROVE value' = value
  BY <1>4 DEF Step, Complete, wait, passUp, join, finish, pairVars
<1>5. CASE (\E s \in Signals : Subscribe(s) \/ Send(s)) \/ runBackground \/ UNCHANGED vars
  <2>1. value' = value
    BY <1>5 DEF Subscribe, Send, runBackground, vars, pairVars
  <2> QED BY <1>1, <2>1
<1> QED
  BY <1>1, <1>2, <1>3, <1>4, <1>5 DEF Next, Step, Terminated

\* The order of the values, short of taking the layers off: what the subscriber is sent
\* packs, from the top pair down, the value of each signal with what the pair below
\* packed, down to the tuple around the value of signal 1, whatever order they came in.
THEOREM LayersInOrder == Spec => []LayersAreWhole
<1>1. ASSUME IInv, Contents PROVE LayersAreWhole
  <2> SUFFICES ASSUME delivered # <<>>
               PROVE  /\ delivered = <<Packed(value[N])>>
                      /\ \A p \in Pairs : value[p]["other"] = OwnValue(p)
                                          /\ value[p]["self"] = FromBelow(p)
    BY DEF LayersAreWhole
  <2>1. Gone(N) /\ \A p \in Pairs : p <= N
    BY Numbers DEF Gone, HandedOn, Pairs
  <2>2. \A p \in Pairs : Full(p)
    BY <1>1, <2>1, Numbers DEF IInv, Chain
  <2> QED BY <1>1, <2>2 DEF IInv, TypeInv, Contents, Full, BothIn
<1> QED
  BY <1>1, ContentsInit, ContentsNext, JoinInvariant, PTL DEF Spec

-----------------------------------------------------------------------------
(* Tuples *)

\* The number of up to two arguments, from the place where they push the countdown.
LEMMA CountsArguments ==
  /\ \A a : metamacro_argcount(<<a>>) = 1
  /\ \A a, b : metamacro_argcount(<<a, b>>) = 2
<1>1. /\ CountDown = [i \in 1 .. 20 |-> 21 - i]
      /\ DOMAIN CountDown = 1 .. 20 /\ CountDown[20] = 1 /\ CountDown[19] = 2
      /\ CountDown \in Seq(Int) /\ Len(CountDown) = 20
  BY DEF CountDown, Limit
<1>2. ASSUME NEW a PROVE (<<a>> \o CountDown)[21] = CountDown[20]
  BY <1>1
<1>3. ASSUME NEW a, NEW b PROVE (<<a, b>> \o CountDown)[21] = CountDown[19]
  BY <1>1
<1> QED
  BY <1>1, <1>2, <1>3 DEF metamacro_argcount, metamacro_at, Limit

\* The expansions for each of up to two arguments.
Expanded(context, args, n) == [i \in 1 .. n |-> <<i - 1, context, args[i]>>]

LEMMA ExpandsEach ==
  ASSUME NEW context, NEW args, NEW n \in 1 .. 2, metamacro_argcount(args) = n
  PROVE  metamacro_foreach_cxt(context, args) = Expanded(context, args, n)
<1> DEFINE Rows(f) ==
             f = [k \in 0 .. Limit |->
                    IF k = 0 THEN <<>> ELSE Append(f[k - 1], <<k - 1, context, args[k]>>)]
           row == CHOOSE f : Rows(f)
           e(i) == <<i - 1, context, args[i]>>
           g == [k \in 0 .. Limit |-> [i \in 1 .. k |-> e(i)]]
<1> HIDE DEF e
<1>1. ASSUME NEW k \in 0 .. Limit, k # 0 PROVE g[k] = Append(g[k - 1], e(k))
  <2>1. k \in Nat /\ k - 1 \in 0 .. Limit
    BY <1>1 DEF Limit
  <2>2. g[k] = [i \in 1 .. k |-> e(i)] /\ g[k - 1] = [i \in 1 .. k - 1 |-> e(i)]
    BY <2>1
  <2>3. Append([i \in 1 .. k - 1 |-> e(i)], e(k)) = [i \in 1 .. k |-> e(i)]
    BY <1>1, <2>1
  <2> QED BY <2>2, <2>3
<1>2. g[0] = <<>>
  BY DEF Limit
<1>3. Rows(g)
  BY <1>1, <1>2 DEF e
<1>4. Rows(row)
  BY <1>3, Zenon
<1>5. metamacro_foreach_cxt(context, args) = row[n]
  BY DEF metamacro_foreach_cxt
<1> HIDE DEF row
<1>6. row[0] = <<>> /\ row[1] = Append(row[0], e(1)) /\ row[2] = Append(row[1], e(2))
  <2>1. \A k \in 0 .. Limit :
          row[k] = IF k = 0 THEN <<>> ELSE Append(row[k - 1], <<k - 1, context, args[k]>>)
    BY <1>4, Zenon
  <2>2. 0 \in 0 .. Limit /\ 1 \in 0 .. Limit /\ 2 \in 0 .. Limit /\ 1 - 1 = 0 /\ 2 - 1 = 1
    BY DEF Limit
  <2>3. row[0] = <<>>
    BY <2>1, <2>2, Zenon
  <2>4. row[1] = Append(row[1 - 1], <<1 - 1, context, args[1]>>)
    BY <2>1, <2>2, 1 # 0, Zenon
  <2>5. row[2] = Append(row[2 - 1], <<2 - 1, context, args[2]>>)
    BY <2>1, <2>2, 2 # 0, Zenon
  <2> QED BY <2>2, <2>3, <2>4, <2>5 DEF e
<1>7. row[1] = [i \in 1 .. 1 |-> e(i)]
  BY <1>6
<1>8. row[2] = [i \in 1 .. 2 |-> e(i)]
  BY <1>6, <1>7
<1>9. n = 1 \/ n = 2
  OBVIOUS
<1> QED
  BY <1>5, <1>7, <1>8, <1>9 DEF e, Expanded

\* A tuple of one and of two.
LEMMA Packs ==
  ASSUME NEW a, NEW b
  PROVE  /\ RACTuplePack(<<a>>) =
              tupleWithObjectsFromArray([i \in 1 .. 1 |-> object_or_ractuplenil(0, a)])
         /\ RACTuplePack(<<a, b>>) =
              tupleWithObjectsFromArray([i \in 1 .. 2 |-> object_or_ractuplenil(0, <<a, b>>[i])])
<1>1. ASSUME NEW args, NEW n \in 1 .. 2, metamacro_argcount(args) = n
      PROVE  RACTuplePack(args) =
               tupleWithObjectsFromArray([i \in 1 .. n |-> object_or_ractuplenil(0, args[i])])
  <2> DEFINE macro == "object_or_ractuplenil"
             iter == metamacro_foreach_cxt(macro, args)
             given == metamacro_foreach(macro, args)
  <2> HIDE DEF macro
  <2>1. iter = [i \in 1 .. n |-> <<i - 1, macro, args[i]>>]
    <3>1. metamacro_foreach_cxt(macro, args) = Expanded(macro, args, n)
      BY <1>1, ExpandsEach, Zenon
    <3> QED BY <3>1, Zenon DEF Expanded
  <2>2. given = [i \in DOMAIN iter |-> <<iter[i][1], iter[i][3]>>]
    BY DEF metamacro_foreach
  <2> HIDE DEF iter
  <2>3. given = [i \in 1 .. n |-> <<i - 1, args[i]>>]
    BY <2>1, <2>2
  <2>4. RACTuplePack(args) =
          tupleWithObjectsFromArray(
            [i \in DOMAIN given |-> object_or_ractuplenil(given[i][1], given[i][2])])
    BY DEF RACTuplePack, macro
  <2> HIDE DEF given
  <2>5. DOMAIN given = 1 .. n /\ \A i \in 1 .. n : given[i][2] = args[i]
    BY <2>3
  <2>6. [i \in DOMAIN given |-> object_or_ractuplenil(given[i][1], given[i][2])]
          = [i \in 1 .. n |-> object_or_ractuplenil(0, args[i])]
    BY <2>5 DEF object_or_ractuplenil
  <2> QED BY <2>4, <2>6
<1>2. metamacro_argcount(<<a>>) = 1 /\ metamacro_argcount(<<a, b>>) = 2
  BY CountsArguments
<1>3. 1 \in 1 .. 2 /\ 2 \in 1 .. 2
  OBVIOUS
<1>4. RACTuplePack(<<a>>) =
        tupleWithObjectsFromArray([i \in 1 .. 1 |-> object_or_ractuplenil(0, <<a>>[i])])
  BY <1>1, <1>2, <1>3
<1>5. [i \in 1 .. 1 |-> object_or_ractuplenil(0, <<a>>[i])]
        = [i \in 1 .. 1 |-> object_or_ractuplenil(0, a)]
  OBVIOUS
<1>6. RACTuplePack(<<a, b>>) =
        tupleWithObjectsFromArray([i \in 1 .. 2 |-> object_or_ractuplenil(0, <<a, b>>[i])])
  BY <1>1, <1>2, <1>3
<1> QED
  BY <1>4, <1>5, <1>6

\* The objects of a tuple of one and of two.
LEMMA PackedObjects ==
  ASSUME NEW a, NEW b
  PROVE  /\ Count(RACTuplePack(<<a>>)) = 1
         /\ LastOf(RACTuplePack(<<a>>)) = (IF a = nil \/ a = tupleNil THEN nil ELSE a)
         /\ Count(RACTuplePack(<<a, b>>)) = 2
         /\ First(RACTuplePack(<<a, b>>)) = (IF a = nil \/ a = tupleNil THEN nil ELSE a)
         /\ LastOf(RACTuplePack(<<a, b>>)) = (IF b = nil \/ b = tupleNil THEN nil ELSE b)
<1> DEFINE v == object_or_ractuplenil(0, a)
           w == object_or_ractuplenil(0, b)
           one == RACTuplePack(<<a>>)
           two == RACTuplePack(<<a, b>>)
<1>1. /\ one.of = [i \in 1 .. 1 |-> object_or_ractuplenil(0, a)]
      /\ two.of = [i \in 1 .. 2 |-> object_or_ractuplenil(0, <<a, b>>[i])]
  <2>1. \A f : tupleWithObjectsFromArray(f).of = f
    BY DEF tupleWithObjectsFromArray
  <2> DEFINE A == [i \in 1 .. 1 |-> object_or_ractuplenil(0, a)]
             B == [i \in 1 .. 2 |-> object_or_ractuplenil(0, <<a, b>>[i])]
  <2>2. one = tupleWithObjectsFromArray(A) /\ two = tupleWithObjectsFromArray(B)
    BY Packs
  <2> HIDE DEF A, B, one, two
  <2>3. one.of = A /\ two.of = B
    BY <2>1, <2>2
  <2> QED BY <2>3 DEF A, B
<1> HIDE DEF one, two
<1>2. Len(one.of) = 1 /\ one.of[1] = v
  BY <1>1
<1>3. Len(two.of) = 2 /\ two.of[1] = v /\ two.of[2] = w
  <2>1. Len(two.of) = 2
    BY <1>1
  <2>2. <<a, b>>[1] = a /\ <<a, b>>[2] = b
    OBVIOUS
  <2> QED BY <1>1, <2>1, <2>2
<1>4. /\ (IF v = tupleNil THEN nil ELSE v) = (IF a = nil \/ a = tupleNil THEN nil ELSE a)
      /\ (IF w = tupleNil THEN nil ELSE w) = (IF b = nil \/ b = tupleNil THEN nil ELSE b)
  BY DEF object_or_ractuplenil
<1>5. (1 - 1) % 65536 = 0 /\ (2 - 1) % 65536 = 1 /\ 0 + 1 = 1 /\ 1 + 1 = 2
      /\ ~(0 >= 1) /\ ~(0 >= 2) /\ ~(1 >= 2)
  OBVIOUS
<1> HIDE DEF v, w
<1>6. Count(one) = 1 /\ LastOf(one) = (IF v = tupleNil THEN nil ELSE v)
  BY <1>2, <1>5 DEF Count, LastOf, objectAtIndex, IndexModulus
<1>7. /\ Count(two) = 2
      /\ First(two) = (IF v = tupleNil THEN nil ELSE v)
      /\ LastOf(two) = (IF w = tupleNil THEN nil ELSE w)
  BY <1>3, <1>5 DEF Count, First, LastOf, objectAtIndex, IndexModulus
<1> QED
  BY <1>4, <1>6, <1>7 DEF one, two

-----------------------------------------------------------------------------
(* The order of the values *)

\* What is left of the joined tuple when the values above signal n are off.
Layer(n) ==
  IF n = 0 THEN nil ELSE IF n = 1 THEN RACTuplePack(<<Sent(1)>>) ELSE Packed(value[n])
LayersFit ==
  \A p \in Pairs : value[p]["other"] = OwnValue(p) /\ value[p]["self"] = FromBelow(p)
After(n) == [xs |-> Layer(N - n), values |-> [i \in 1 .. n |-> OwnValue(N - n + i)]]

\* What a signal sends is not what stands for nil in a tuple.
LEMMA SentIsNotTupleNil ==
  ASSUME NEW s PROVE Sent(s) # tupleNil /\ (OwnValue(s) = tupleNil <=> Sent(s) = nil)
<1>1. \A a : RACTuplePack(a) # tupleNil
  BY DEF RACTuplePack, tupleWithObjectsFromArray, tupleNil
<1>2. nil # tupleNil /\ Object(s) # tupleNil
  BY DEF nil, tupleNil, Object
<1>3. Sent(s) # tupleNil
  BY <1>1, <1>2 DEF Sent
<1> QED BY <1>3 DEF OwnValue, object_or_ractuplenil

\* A round takes one layer off and puts the value of its signal in front.
LEMMA PeelsALayer ==
  ASSUME LayersFit, NEW n \in Signals, NEW vals
  PROVE  peel([xs |-> Layer(n), values |-> vals]) =
           [xs |-> Layer(n - 1), values |-> <<OwnValue(n)>> \o vals]
<1> DEFINE round == [xs |-> Layer(n), values |-> vals]
           last == object_or_ractuplenil(0, LastOf(Layer(n)))
           rest == IF Count(Layer(n)) > 1 THEN First(Layer(n)) ELSE nil
<1>1. n \in Nat /\ n >= 1
  BY SignalsAssumption DEF Signals
<1>2. Layer(n) # nil
  BY <1>1, NeverNil DEF Layer, Packed
<1>3. peel(round) = [xs |-> rest, values |-> <<last>> \o vals]
  <2>1. round.xs = Layer(n) /\ round.values = vals
    OBVIOUS
  <2> HIDE DEF round
  <2> QED BY <1>2, <2>1 DEF peel
<1>4. CASE n = 1
  <2>1. Layer(n) = RACTuplePack(<<Sent(1)>>) /\ Layer(n - 1) = nil
    BY <1>4 DEF Layer
  <2>2. Count(Layer(n)) = 1 /\ LastOf(Layer(n)) = Sent(1)
    BY <2>1, PackedObjects, SentIsNotTupleNil
  <2>3. last = OwnValue(n)
    BY <1>4, <2>2 DEF OwnValue
  <2>4. rest = Layer(n - 1)
    BY <2>1, <2>2
  <2> QED BY <1>3, <2>3, <2>4
<1>5. CASE n # 1
  <2>1. n \in Pairs /\ n - 1 # 0 /\ (n - 1 = 1 <=> n = 2)
    BY <1>1, <1>5, SignalsAssumption DEF Pairs, Signals
  <2>2. Layer(n) = RACTuplePack(<<Layer(n - 1), OwnValue(n)>>)
    <3>1. Layer(n) = Packed(value[n])
      BY <1>1, <1>5 DEF Layer
    <3>2. value[n]["self"] = Layer(n - 1) /\ value[n]["other"] = OwnValue(n)
      BY <2>1 DEF LayersFit, FromBelow, Layer
    <3> QED BY <3>1, <3>2 DEF Packed
  <2>3. Layer(n - 1) # nil /\ Layer(n - 1) # tupleNil
    <3>1. \A a : RACTuplePack(a) # nil /\ RACTuplePack(a) # tupleNil
      BY DEF RACTuplePack, tupleWithObjectsFromArray, nil, tupleNil
    <3> QED BY <2>1, <3>1 DEF Layer, Packed
  <2>4. /\ Count(Layer(n)) = 2 /\ First(Layer(n)) = Layer(n - 1)
        /\ LastOf(Layer(n)) =
             (IF OwnValue(n) = nil \/ OwnValue(n) = tupleNil THEN nil ELSE OwnValue(n))
    <3> DEFINE below == Layer(n - 1)
               own == OwnValue(n)
               two == Layer(n)
    <3>1. two = RACTuplePack(<<below, own>>) /\ below # nil /\ below # tupleNil
      BY <2>2, <2>3
    <3> HIDE DEF below, own, two
    <3>2. /\ Count(two) = 2 /\ First(two) = below
          /\ LastOf(two) = (IF own = nil \/ own = tupleNil THEN nil ELSE own)
      BY <3>1, PackedObjects
    <3> QED BY <3>2 DEF below, own, two
  <2>5. last = OwnValue(n)
    <3>1. OwnValue(n) # nil
      BY NeverNil DEF OwnValue
    <3> QED BY <2>4, <3>1 DEF object_or_ractuplenil
  <2>6. rest = Layer(n - 1)
    BY <2>4
  <2> QED BY <1>3, <2>5, <2>6
<1> QED
  BY <1>4, <1>5

\* The rounds, one by one.
LEMMA RoundsPeel ==
  ASSUME LayersFit
  PROVE  rounds(Layer(N))[N] = After(N)
<1> DEFINE Rounds(f) ==
             f = [n \in 0 .. N |->
                    IF n = 0 THEN [xs |-> Layer(N), values |-> <<>>] ELSE peel(f[n - 1])]
           g == [n \in 0 .. N |-> After(n)]
           round == CHOOSE f : Rounds(f)
<1>1. After(0) = [xs |-> Layer(N), values |-> <<>>]
  <2>1. N - 0 = N /\ [i \in 1 .. 0 |-> OwnValue(N - 0 + i)] = <<>>
    BY SignalsAssumption
  <2> QED BY <2>1 DEF After
<1>2. ASSUME NEW n \in 0 .. N, n # 0 PROVE After(n) = peel(After(n - 1))
  <2>1. n \in Nat /\ n - 1 \in Nat /\ N - n + 1 \in Signals /\ N - (n - 1) = N - n + 1
        /\ N - n + 1 - 1 = N - n
    BY <1>2, SignalsAssumption DEF Signals
  <2> DEFINE s == N - n + 1
             vals == [i \in 1 .. n - 1 |-> OwnValue(s + i)]
             own == OwnValue(s)
  <2>2. After(n - 1) = [xs |-> Layer(s), values |-> vals]
    BY <2>1 DEF After
  <2>3. peel(After(n - 1)) = [xs |-> Layer(s - 1), values |-> <<own>> \o vals]
    BY <2>1, <2>2, PeelsALayer
  <2>4. <<own>> \o vals = [i \in 1 .. n |-> OwnValue(N - n + i)]
    <3>1. \A i \in 1 .. n : i # 1 => i - 1 \in 1 .. n - 1 /\ s + (i - 1) = N - n + i
      BY <2>1, SignalsAssumption
    <3>2. \A i \in 1 .. n : i = 1 => N - n + i = s
      BY <2>1
    <3> HIDE DEF s
    <3>3. Len(vals) = n - 1
      BY <2>1
    <3>4. <<own>> \o vals = [i \in 1 .. n |-> IF i = 1 THEN own ELSE vals[i - 1]]
      <4> HIDE DEF vals, own
      <4> QED BY <2>1, <3>3
    <3>5. \A i \in 1 .. n : (IF i = 1 THEN own ELSE vals[i - 1]) = OwnValue(N - n + i)
      BY <3>1, <3>2
    <3>6. [i \in 1 .. n |-> IF i = 1 THEN own ELSE vals[i - 1]]
            = [i \in 1 .. n |-> OwnValue(N - n + i)]
      <4> HIDE DEF vals, own
      <4> QED BY <3>5
    <3> QED BY <3>4, <3>6, Zenon
  <2>5. Layer(s - 1) = Layer(N - n)
    <3>1. s - 1 = N - n
      BY <2>1, SignalsAssumption
    <3> HIDE DEF s
    <3> QED BY <3>1
  <2> DEFINE a == Layer(N - n)
             b == [i \in 1 .. n |-> OwnValue(N - n + i)]
  <2>6. After(n) = [xs |-> a, values |-> b]
    BY DEF After
  <2>7. peel(After(n - 1)) = [xs |-> a, values |-> b]
    BY <2>3, <2>4, <2>5
  <2> QED BY <2>6, <2>7
<1>3. Rounds(g)
  <2>1. \A n \in 0 .. N : n # 0 => n - 1 \in 0 .. N
    BY SignalsAssumption
  <2> QED BY <1>1, <1>2, <2>1
<1>4. Rounds(round)
  BY <1>3, Zenon
<1>5. rounds(Layer(N)) = round
  BY DEF rounds
<1> HIDE DEF round
<1> DEFINE wrong == {n \in 0 .. N : round[n] # After(n)}
<1>6. wrong = {}
  <2>1. SUFFICES ASSUME wrong # {} PROVE FALSE
    OBVIOUS
  <2>2. wrong \subseteq Nat
    BY SignalsAssumption
  <2>3. PICK m \in wrong : \A k \in wrong : <<k, m>> \notin OpToRel(<, Nat)
    BY <2>1, <2>2, WFMin, NatLessThanWellFounded
  <2>4. m \in 0 .. N /\ m \in Nat /\ \A k \in wrong : ~(k < m)
    BY <2>2, <2>3 DEF OpToRel
  <2>5. m # 0
    BY <1>1, <1>4, <2>3, <2>4
  <2>6. m - 1 \in 0 .. N /\ m - 1 < m
    BY <2>4, <2>5, SignalsAssumption
  <2>7. round[m - 1] = After(m - 1)
    BY <2>4, <2>6
  <2>8. round[m] = peel(round[m - 1])
    BY <1>4, <2>4, <2>5
  <2> QED BY <1>2, <2>3, <2>4, <2>5, <2>7, <2>8
<1>7. N \in 0 .. N
  BY SignalsAssumption
<1> QED
  BY <1>5, <1>6, <1>7

\* The subscriber gets the values in the order of the signals, for any number of signals,
\* on whatever threads and in whatever order they send: the nils and the tuples that
\* signals send stay what they are.
THEOREM ValuesInOrder == Spec => []DeliveredInOrder
<1>1. LayersAreWhole => DeliveredInOrder
  <2> SUFFICES ASSUME LayersAreWhole, delivered # <<>> PROVE DeliveredInOrder
    BY DEF DeliveredInOrder
  <2>1. delivered = <<Packed(value[N])>> /\ LayersFit
    BY DEF LayersAreWhole, LayersFit
  <2>2. N # 0 /\ N # 1 /\ N - N = 0
    BY SignalsAssumption
  <2>3. Packed(value[N]) = Layer(N)
    BY <2>2 DEF Layer
  <2>4. \A i \in 1 .. Len(delivered) : delivered[i] = Layer(N)
    BY <2>1, <2>3
  <2>5. rounds(Layer(N))[N] = [xs |-> nil, values |-> [i \in Signals |-> OwnValue(i)]]
    <3>1. [i \in 1 .. N |-> OwnValue(N - N + i)] = [i \in Signals |-> OwnValue(i)]
      BY SignalsAssumption DEF Signals
    <3>2. Layer(N - N) = nil
      BY <2>2 DEF Layer
    <3> QED BY <2>1, <3>1, <3>2, RoundsPeel DEF After
  <2> DEFINE joined == unwrap(Layer(N))
  <2>6. joined.of = [i \in Signals |-> OwnValue(i)]
    BY <2>5 DEF unwrap, tupleWithObjectsFromArray
  <2>7. Count(joined) = N
    <3>1. Len([i \in 1 .. N |-> OwnValue(i)]) = N
      BY SignalsAssumption
    <3> QED BY <2>6, <3>1 DEF Count, Signals
  <2> HIDE DEF joined
  <2>8. ASSUME NEW s \in Signals PROVE objectAtIndex(joined, s - 1) = Sent(s)
    <3>1. ~(s - 1 >= N) /\ s - 1 + 1 = s
      BY SignalsAssumption DEF Signals
    <3>2. objectAtIndex(joined, s - 1) = IF OwnValue(s) = tupleNil THEN nil ELSE OwnValue(s)
      BY <2>6, <2>7, <3>1 DEF objectAtIndex
    <3>3. OwnValue(s) # tupleNil => OwnValue(s) = Sent(s)
      BY DEF OwnValue, object_or_ractuplenil
    <3> QED BY <3>2, <3>3, SentIsNotTupleNil
  <2>9. rounds(Layer(N))[N].xs = nil
    BY <2>5
  <2> QED BY <2>4, <2>7, <2>8, <2>9 DEF DeliveredInOrder, joined
<1> QED
  BY <1>1, LayersInOrder, PTL

-----------------------------------------------------------------------------
(* The locks *)

\* A carrier takes the locks in the order of the pairs.  It waits for one while it
\* keeps those below, whose holder is past it, so nobody waits in a ring: of those on
\* their way, who is at the highest pair can go on.
THEOREM NobodyWaitsInARing == Spec => []SomebodyGoesOn
<1>1. ASSUME IInv PROVE SomebodyGoesOn
  <2> SUFFICES ASSUME NEW e \in Carriers, Climbing(e)
               PROVE  \E c \in Carriers :
                        \/ carrier[c].at = "test"
                        \/ carrier[c].at = "acquire" /\ lock[carrier[c].pair] = Free
    BY DEF SomebodyGoesOn
  <2> DEFINE left == {n \in Nat : \E c \in Carriers : Climbing(c) /\ n = N - carrier[c].pair}
  <2>1. \A c \in Carriers : Climbing(c) => carrier[c].pair \in Pairs /\ N - carrier[c].pair \in Nat
    <3>1. \A c \in Carriers : carrier[c].pair \in Pairs
      BY <1>1 DEF IInv, TypeInv
    <3>2. \A p \in Pairs : N - p \in Nat
      BY SignalsAssumption DEF Pairs
    <3> QED BY <3>1, <3>2
  <2>2. left \subseteq Nat /\ left # {}
    BY <2>1
  <2>3. PICK m \in left : \A n \in left : <<n, m>> \notin OpToRel(<, Nat)
    BY <2>2, WFMin, NatLessThanWellFounded
  <2>4. \A n \in left : ~(n < m)
    BY <2>2, <2>3 DEF OpToRel
  <2>5. PICK c \in Carriers : Climbing(c) /\ m = N - carrier[c].pair
    BY <2>3
  <2>6. CASE carrier[c].at = "acquire" /\ lock[carrier[c].pair] # Free
    <3>1. PICK p \in Pairs : carrier[c].pair = p
      BY <2>1, <2>5
    <3>2. PICK d \in Carriers : lock[p] = d
      BY <1>1, <2>6, <3>1 DEF IInv, TypeInv
    <3>3. p \in Held(d)
      BY <1>1, <3>2 DEF IInv, Locks
    <3>4. Climbing(d) /\ carrier[d].at \in {"acquire", "test"}
      BY <3>3 DEF Held, Climbing
    <3>5. carrier[d].at = "acquire" => p \in Start(d) .. carrier[d].pair - 1
      BY <3>3 DEF Held
    <3>6. carrier[d].at # "acquire"
      <4>1. SUFFICES ASSUME carrier[d].at = "acquire" PROVE FALSE
        OBVIOUS
      <4>2. N - carrier[d].pair \in left
        BY <2>1, <3>4
      <4>3. ~(N - carrier[d].pair < N - p)
        BY <2>4, <2>5, <3>1, <4>2
      <4>4. PICK q \in Pairs : carrier[d].pair = q
        BY <2>1, <3>4
      <4>5. p \in Start(d) .. q - 1 /\ Start(d) \in Pairs
        BY <3>5, <4>1, <4>4, Places
      <4>6. ~(N - q < N - p)
        BY <4>3, <4>4
      <4> HIDE DEF left
      <4> QED BY <4>5, <4>6, SignalsAssumption DEF Pairs
    <3> QED BY <3>4, <3>6
  <2> QED BY <2>5, <2>6 DEF Climbing
<1> QED
  BY <1>1, JoinInvariant, PTL

=============================================================================
