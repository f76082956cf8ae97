----------------------------- MODULE CombineLatest ----------------------------
(***************************************************************************)
(* RACSignal.combineLatest as this program uses it, on signals that send   *)
(* one value and complete (RACSignal+Operations.m, RACStream.m, RACSignal.m*)
(* under src/Pods/ReactiveCocoa).                                          *)
(*                                                                         *)
(* The join is a chain of pairs.  Pair 2 joins signals 1 and 2, and pair p *)
(* joins what pair p - 1 sends with signal p; each has a lock, kept while  *)
(* it calls the pair above.  The values of signal 1 and those of the top   *)
(* pair go through a `map', whose inner signal is subscribed to at once on *)
(* a thread that has a RACScheduler and on the background scheduler when   *)
(* the thread has none.                                                    *)
(*                                                                         *)
(* Carrier s is the thread on which signal s sends, carrier 0 the queue of *)
(* the background scheduler.  Signal s sends inside its subscription       *)
(* ("inline": a port, a ping that fails at once), later on a thread with a *)
(* scheduler ("scheduled": a ping, a request) or on one without ("bare": a *)
(* host name).  A RACSubscriber's own lock is left out: nothing but the    *)
(* pair below it, or its signal, calls it.                                 *)
(*                                                                         *)
(* Each signal sends a value of its own; some send nil and some a tuple,   *)
(* which the join must not take for its own nils and tuples.               *)
(***************************************************************************)
EXTENDS RACTuple

CONSTANTS
  N,        \* how many signals are joined; a list of one has no pair
  Nils,     \* the signals that send nil
  Tuples    \* the signals that send a tuple

ASSUME SignalsAssumption == N \in Nat /\ N >= 2 /\ Nils \cap Tuples = {}

VARIABLES
  subscribed,   \* signals 1 .. subscribed are subscribed to
  kind,         \* [Signals -> Kinds \cup {"none"}]
  carrier,      \* [Carriers -> where it is and what it carries]
  lock,         \* [Pairs -> Carriers \cup {Free}]
  value,        \* [Pairs -> [Sides -> values]]: lastSelfValue, lastOtherValue
  completed,    \* [Pairs -> [Sides -> BOOLEAN]]: selfCompleted, otherCompleted
  disposed,     \* [Pairs -> BOOLEAN]: the subscription to this pair has ended
  background,   \* blocks on the background scheduler
  firstMap,     \* what the map of signal 1 has left in its `signals'
  lastMap,      \* the same for the map of the top pair
  delivered,    \* the tuples whose unwrapped values the subscriber was sent
  ended         \* the subscriber was told of the completion

pairVars == <<lock, value, completed, disposed>>
mapVars == <<background, firstMap, lastMap, delivered, ended>>
vars == <<subscribed, kind, carrier, pairVars, mapVars>>

Signals == 1 .. N
Pairs == 2 .. N
Carriers == 0 .. N
Free == N + 1
Sides == {"self", "other"}
Kinds == {"inline", "scheduled", "bare"}
Steps == {"idle", "acquire", "test", "ending", "done"}

\* The pair at which a carrier's value enters the chain, and on which side.
Start(c) == IF c <= 1 THEN 2 ELSE c
Side(c, p) == IF c = p THEN "other" ELSE "self"

\* What signal s sends.
Sent(s) ==
  IF s \in Nils THEN nil
  ELSE IF s \in Tuples THEN RACTuplePack(<<Object(s), nil>>) ELSE Object(s)

Init ==
  /\ subscribed = 0 /\ kind = [s \in Signals |-> "none"]
  /\ carrier = [c \in Carriers |-> [at |-> "idle", what |-> "next", pair |-> Start(c)]]
  /\ lock = [p \in Pairs |-> Free]
  /\ value = [p \in Pairs |-> [side \in Sides |-> nil]]
  /\ completed = [p \in Pairs |-> [side \in Sides |-> FALSE]]
  /\ disposed = [p \in Pairs |-> FALSE]
  /\ background = <<>>
  /\ firstMap = {"source", "inner"} /\ lastMap = {"source", "inner"}
  /\ delivered = <<>> /\ ended = FALSE

HasScheduler(c) == c = 0 \/ kind[c] # "bare"
Move(c, step) == carrier' = [carrier EXCEPT ![c].at = step]
Climb(c, what) ==
  carrier' = [carrier EXCEPT ![c] = [at |-> "acquire", what |-> what, pair |-> Start(c)]]
Release(c) == lock' = [p \in Pairs |-> IF lock[p] = c THEN Free ELSE lock[p]]
BothIn(values) == values["self"] # nil /\ values["other"] # nil
Both(flags) == flags["self"] /\ flags["other"]
Packed(values) == RACTuplePack(<<values["self"], values["other"]>>)

\* What a carrier brings to pair p: what its signal sent, of signal 1 through the
\* first map, or what the pair below, which it keeps locked, has packed.
Carried(c, p) ==
  IF p > Start(c) THEN Packed(value[p - 1])
  ELSE IF c <= 1 THEN RACTuplePack(<<Sent(1)>>) ELSE Sent(c)

-----------------------------------------------------------------------------
(* Subscribing and sending *)

\* The pairs subscribe from the innermost out, so signal 1 comes first; a signal
\* that sends inside its subscription holds up the next.
Subscribe(s) ==
  /\ subscribed = s - 1
  /\ \A t \in 1 .. s - 1 : kind[t] = "inline" => carrier[t].at = "done"
  /\ subscribed' = s
  /\ \E k \in Kinds : kind' = [kind EXCEPT ![s] = k]
  /\ UNCHANGED <<carrier, pairVars, mapVars>>

\* A signal sends its value.  Signal 1's goes through a map first, on its own
\* thread or as a block of the background scheduler.
Send(s) ==
  /\ s <= subscribed /\ carrier[s].at = "idle"
  /\ IF s = 1 /\ ~HasScheduler(s)
     THEN /\ background' = Append(background, "first")
          /\ Move(s, "ending")
     ELSE /\ Climb(s, "next")
          /\ UNCHANGED background
  /\ UNCHANGED <<subscribed, kind, pairVars, firstMap, lastMap, delivered, ended>>

\* completeSignal of the first map: the source and the inner signal leave
\* `signals', and the one that leaves it empty completes the map.
leaveFirst(c) ==
  IF c = 0 THEN firstMap \ {"inner"}
  ELSE IF HasScheduler(c) THEN {} ELSE firstMap \ {"source"}

\* A value has been passed on and its signal completes.
Complete(c) ==
  /\ carrier[c].at = "ending"
  /\ firstMap' = IF c <= 1 THEN leaveFirst(c) ELSE firstMap
  /\ IF c <= 1 /\ firstMap' # {}
     THEN Move(c, IF c = 0 THEN "idle" ELSE "done")
     ELSE Climb(c, "completed")
  /\ UNCHANGED <<subscribed, kind, pairVars, background, lastMap, delivered, ended>>

-----------------------------------------------------------------------------
(* A pair *)

\* lastSelfValue = x, or selfCompleted = YES, or those of the other side
store(c, p) ==
  IF carrier[c].what = "next"
  THEN /\ value' = [value EXCEPT ![p][Side(c, p)] = object_or_ractuplenil(0, Carried(c, p))]
       /\ UNCHANGED completed
  ELSE completed' = [completed EXCEPT ![p][Side(c, p)] = TRUE] /\ UNCHANGED value

\* mutant: the pair has no lock
acquireUnlocked(c) ==
  /\ carrier[c].at = "acquire"
  /\ Move(c, "test")
  /\ store(c, carrier[c].pair)
  /\ UNCHANGED <<subscribed, kind, lock, disposed, mapVars>>

\* @synchronized (disposable); only who has the lock uses what it stores.
acquire(c) ==
  LET p == carrier[c].pair IN
  /\ carrier[c].at = "acquire" /\ lock[p] = Free
  /\ Move(c, "test")
  /\ lock' = [lock EXCEPT ![p] = c]
  /\ store(c, p)
  /\ UNCHANGED <<subscribed, kind, disposed, mapVars>>

\* The test finds the other side missing, or nobody subscribed any more: the
\* carrier leaves every pair it is in.
wait(c) ==
  LET p == carrier[c].pair IN
  /\ carrier[c].at = "test"
  /\ IF carrier[c].what = "next"
     THEN ~BothIn(value[p]) \/ disposed[p]
     ELSE ~Both(completed[p])
  /\ Release(c)
  /\ Move(c, IF carrier[c].what = "next" THEN "ending" ELSE IF c = 0 THEN "idle" ELSE "done")
  /\ UNCHANGED <<subscribed, kind, value, completed, disposed, mapVars>>

\* Both sides are there and the pair above is called, with this one locked.  Its
\* subscriber ends the subscription before it handles a completion.
passUp(c) ==
  LET p == carrier[c].pair IN
  /\ carrier[c].at = "test" /\ p < N
  /\ IF carrier[c].what = "next"
     THEN BothIn(value[p]) /\ ~disposed[p] /\ UNCHANGED disposed
     ELSE Both(completed[p]) /\ disposed' = [disposed EXCEPT ![p] = TRUE]
  /\ carrier' = [carrier EXCEPT ![c].at = "acquire", ![c].pair = p + 1]
  /\ UNCHANGED <<subscribed, kind, lock, value, completed, mapVars>>

\* The top pair sends the joined value, which the last map unwraps and hands on, at
\* once or through the background scheduler.
join(c) ==
  /\ carrier[c].at = "test" /\ carrier[c].pair = N /\ carrier[c].what = "next"
  /\ BothIn(value[N]) /\ ~disposed[N]
  /\ Release(c) /\ Move(c, "ending")
  /\ IF HasScheduler(c)
     THEN /\ delivered' = Append(delivered, Packed(value[N]))
          /\ lastMap' = lastMap \ {"inner"}
          /\ UNCHANGED background
     ELSE /\ background' = Append(background, "joined")
          /\ UNCHANGED <<delivered, lastMap>>
  /\ UNCHANGED <<subscribed, kind, value, completed, disposed, firstMap, ended>>

\* mutant: the completion of the top pair goes past the last map
leaveLastAlways(left) == TRUE

\* The last map is left empty.
lastMapCompletes(left) == left = {}

\* The top pair completes; the last map does when its inner signal has, too.
finish(c) ==
  /\ carrier[c].at = "test" /\ carrier[c].pair = N /\ carrier[c].what = "completed"
  /\ Both(completed[N])
  /\ disposed' = [disposed EXCEPT ![N] = TRUE]
  /\ lastMap' = lastMap \ {"source"}
  /\ ended' = (ended \/ lastMapCompletes(lastMap'))
  /\ Release(c) /\ Move(c, IF c = 0 THEN "idle" ELSE "done")
  /\ UNCHANGED <<subscribed, kind, value, completed, background, firstMap, delivered>>

\* The background scheduler runs its next block: the inner signal of the first
\* map sends the value of signal 1, or that of the last map the joined value.
runBackground ==
  /\ carrier[0].at = "idle" /\ background # <<>>
  /\ background' = Tail(background)
  /\ IF Head(background) = "first"
     THEN Climb(0, "next") /\ UNCHANGED <<lastMap, delivered, ended>>
     ELSE /\ delivered' = Append(delivered, Packed(value[N]))
          /\ lastMap' = lastMap \ {"inner"}
          /\ ended' = lastMapCompletes(lastMap')
          /\ UNCHANGED carrier
  /\ UNCHANGED <<subscribed, kind, pairVars, firstMap>>

Step(c) ==
  Complete(c) \/ acquire(c) \/ wait(c) \/ passUp(c) \/ join(c) \/ finish(c)

\* Every signal has completed and every block has run.
Terminated ==
  /\ ended /\ \A s \in Signals : carrier[s].at = "done"
  /\ carrier[0].at = "idle" /\ background = <<>>
  /\ UNCHANGED vars

Next ==
  \/ \E s \in Signals : Subscribe(s) \/ Send(s)
  \/ \E c \in Carriers : Step(c)
  \/ runBackground
  \/ Terminated

\* Threads run.  That a signal sends at all is not assumed, nor that it completes
\* (those of the manufacturers never do); the inner signals the background scheduler
\* sends for do both.
Fairness ==
  WF_vars(\/ runBackground
          \/ \E c \in Carriers : Step(c) /\ (c = 0 \/ carrier[c].at # "ending"))

Spec == Init /\ [][Next]_vars /\ Fairness

-----------------------------------------------------------------------------
(* What the subscriber is sent *)

\* mutant: a value goes behind those of the layers around it
peelBackwards(round) ==
  IF round.xs = nil THEN round
  ELSE [xs |-> IF Count(round.xs) > 1 THEN First(round.xs) ELSE nil,
        values |-> Append(round.values, object_or_ractuplenil(0, LastOf(round.xs)))]

\* while (xs != nil), of the last map: the last value of a layer goes in front of those
\* of the layers around it.
peel(round) ==
  IF round.xs = nil THEN round
  ELSE [xs |-> IF Count(round.xs) > 1 THEN First(round.xs) ELSE nil,
        values |-> <<object_or_ractuplenil(0, LastOf(round.xs))>> \o round.values]

\* The layers (((1), 2), 3) come off in as many rounds as there are signals.
rounds(xs) ==
  LET round[n \in 0 .. N] ==
        IF n = 0 THEN [xs |-> xs, values |-> <<>>] ELSE peel(round[n - 1])
  IN  round
unwrap(xs) == tupleWithObjectsFromArray(rounds(xs)[N].values)

-----------------------------------------------------------------------------
(* Properties *)

\* A completion never overtakes a value: when a subscription between two pairs,
\* or that of the subscriber, ends, the joined value has gone through it.  A value
\* that came later would be dropped without a trace.
ValueBeforeCompletion ==
  /\ \A p \in Pairs :
       disposed[p] => BothIn(value[p]) /\ (p < N => value[p + 1]["self"] # nil)
  /\ ended => Len(delivered) = 1

\* The subscriber gets the values in the order of the signals, whatever order they
\* came in: a nil where nil was sent, and a tuple that a signal sent is not taken for
\* a layer of the join.  The list of hosts is in the order of the addresses by this.
DeliveredInOrder ==
  \A i \in 1 .. Len(delivered) :
    LET joined == unwrap(delivered[i]) IN
    /\ rounds(delivered[i])[N].xs = nil /\ Count(joined) = N
    /\ \A s \in Signals : objectAtIndex(joined, s - 1) = Sent(s)

\* The chain of pairs, whatever threads its signals send on and in whatever order
\* they meet in a pair, joins like Join: one delivery, once every value is in.
Arrived == {s \in Signals : value[Start(s)][Side(s, Start(s))] # nil}
Joined == INSTANCE Join WITH Signals <- Signals, arrived <- Arrived, delivered <- Len(delivered)
ImplementsJoin == Joined!Spec
=============================================================================
