--------------------------------- MODULE Join ---------------------------------
(***************************************************************************)
(* What the scan and the port scan rely on when they join a list of        *)
(* signals that send one value each: when every value is in, all of them   *)
(* are handed on together, once.                                           *)
(***************************************************************************)
EXTENDS Naturals

CONSTANT Signals

VARIABLES
  arrived,    \* the signals whose value is in
  delivered   \* how often the joined values were handed on

joinVars == <<arrived, delivered>>

Init == arrived = {} /\ delivered = 0

Arrive(s) ==
  /\ s \notin arrived
  /\ arrived' = arrived \cup {s}
  /\ UNCHANGED delivered

Deliver ==
  /\ arrived = Signals /\ delivered = 0
  /\ delivered' = 1
  /\ UNCHANGED arrived

Next == Deliver \/ \E s \in Signals : Arrive(s)

Spec == Init /\ [][Next]_joinVars /\ WF_joinVars(Deliver)
=============================================================================
