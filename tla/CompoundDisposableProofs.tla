----------------------- MODULE CompoundDisposableProofs -----------------------
(***************************************************************************)
(* For any threads, disposables and inline slots: the block of a           *)
(* disposable runs once, and the locked calls are those of DisposableSet.  *)
(***************************************************************************)
EXTENDS CompoundDisposable, WellFoundedInduction, TLAPS

\* The steps of a thread that has a disposable in hand.
Handling == {"check", "add", "adding", "remove", "removing", "load", "swap", "run"}

\* The threads that are about to run the block of d.
Runs(t, d) == step[t] = "run" /\ target[t] = d

HandlesDisposable == \A t \in Threads : step[t] \in Handling => target[t] \in Disposables

\* A block that is still there has not run, and nobody is about to run it.
UntakenIsUnrun ==
  \A d \in disposeBlock : ran[d] = 0 /\ \A t \in Threads : ~Runs(t, d)

\* One thread only is about to run a block, and it has not run yet.
OneRunner ==
  \A d \in Disposables, t \in Threads : Runs(t, d) =>
    ran[d] = 0 /\ \A u \in Threads : Runs(u, d) => u = t

IInv ==
  /\ TypeOK /\ HandlesDisposable /\ UntakenIsUnrun /\ OneRunner /\ BlockRunsOnce

-----------------------------------------------------------------------------
(* Where a thread goes on *)

\* GoTo sets the step and the target of one thread.
LEMMA GoToEffect ==
  ASSUME TypeOK, NEW t \in Threads, NEW s \in Steps,
         NEW d \in Disposables \cup {Nil}, GoTo(t, s, d)
  PROVE  /\ step' \in [Threads -> Steps]
         /\ target' \in [Threads -> Disposables \cup {Nil}]
         /\ step'[t] = s /\ target'[t] = d
         /\ \A u \in Threads : u # t => step'[u] = step[u] /\ target'[u] = target[u]
BY DEF TypeOK, GoTo

\* Continue leads to the end of the call or to another disposal, never to a block.
LEMMA ContinueEffect ==
  ASSUME TypeOK, NEW t \in Threads, NEW left \in SUBSET Disposables, Continue(t, left)
  PROVE  /\ step' \in [Threads -> Steps]
         /\ target' \in [Threads -> Disposables \cup {Nil}]
         /\ remaining' \in [Threads -> SUBSET Disposables]
         /\ step'[t] \in {"idle", "load"}
         /\ step'[t] = "load" => target'[t] \in Disposables
         /\ step'[t] = "idle" => left = {} /\ remaining'[t] = {}
         /\ step'[t] = "load" => left = remaining'[t] \cup {target'[t]}
         /\ \A u \in Threads : u # t =>
              /\ step'[u] = step[u] /\ target'[u] = target[u]
              /\ remaining'[u] = remaining[u]
<1>1. CASE left = {}
  <2>1. GoTo(t, "idle", Nil) /\ remaining' = [remaining EXCEPT ![t] = {}]
    BY <1>1 DEF Continue
  <2> QED BY <2>1, <1>1, GoToEffect DEF Steps, TypeOK
<1>2. CASE left # {}
  <2>1. PICK d \in left : /\ GoTo(t, "load", d)
                          /\ remaining' = [remaining EXCEPT ![t] = left \ {d}]
    BY <1>2 DEF Continue
  <2>2. d \in Disposables
    OBVIOUS
  <2> QED BY <2>1, <2>2, GoToEffect DEF Steps, TypeOK
<1> QED BY <1>1, <1>2

\* A step that neither runs nor takes a block, and leads to none, keeps the
\* invariant about blocks.
LEMMA BlocksKept ==
  ASSUME IInv, NEW t \in Threads,
         step' \in [Threads -> Steps], target' \in [Threads -> Disposables \cup {Nil}],
         step'[t] # "run", step'[t] \in Handling => target'[t] \in Disposables,
         \A u \in Threads : u # t => step'[u] = step[u] /\ target'[u] = target[u],
         disposeBlock' \subseteq disposeBlock, ran' = ran
  PROVE  HandlesDisposable' /\ UntakenIsUnrun' /\ OneRunner' /\ BlockRunsOnce'
<1>1. \A u \in Threads, d \in Disposables : Runs(u, d)' => Runs(u, d)
  BY DEF Runs
<1>2. HandlesDisposable'
  BY DEF IInv, HandlesDisposable
<1>3. UntakenIsUnrun'
  BY <1>1 DEF IInv, UntakenIsUnrun, TypeOK
<1>4. OneRunner'
  BY <1>1 DEF IInv, OneRunner
<1>5. BlockRunsOnce'
  BY DEF IInv, BlockRunsOnce
<1> QED BY <1>2, <1>3, <1>4, <1>5

-----------------------------------------------------------------------------
(* The invariant *)

\* It holds when nothing has been called.
LEMMA InitIInv == Init => IInv
<1> SUFFICES ASSUME Init PROVE IInv
  OBVIOUS
<1>1. TypeOK
  BY DEF Init, TypeOK, Steps
<1>2. HandlesDisposable /\ UntakenIsUnrun /\ OneRunner /\ BlockRunsOnce
  BY DEF Init, HandlesDisposable, UntakenIsUnrun, OneRunner, BlockRunsOnce, Runs, Handling
<1> QED BY <1>1, <1>2 DEF IInv

\* A call only sets the thread on its way.
LEMMA CallKeeps == ASSUME IInv, NEW t \in Threads, call(t) PROVE IInv'
<1>1. PICK s \in {"check", "remove", "load", "dispose"}, d \in Disposables \cup {Nil} :
        GoTo(t, s, d) /\ (s # "dispose" => d \in Disposables)
  BY DEF call
<1>2. /\ step' \in [Threads -> Steps] /\ target' \in [Threads -> Disposables \cup {Nil}]
      /\ step'[t] = s /\ target'[t] = d
      /\ \A u \in Threads : u # t => step'[u] = step[u] /\ target'[u] = target[u]
  BY <1>1, GoToEffect DEF IInv, Steps
<1>3. TypeOK'
  BY <1>2 DEF IInv, TypeOK, call, compound, blocks
<1>4. disposeBlock' \subseteq disposeBlock /\ ran' = ran
  BY DEF call, blocks
<1> QED BY <1>1, <1>2, <1>3, <1>4, BlocksKept DEF IInv, Handling

\* A lock is taken on the way to the critical section.
LEMMA LockKeeps == ASSUME IInv, NEW t \in Threads, lock(t) PROVE IInv'
<1>1. PICK s \in {"adding", "removing", "disposing"} :
        GoTo(t, s, target[t]) /\ (s # "disposing" => step[t] \in {"add", "remove"})
  BY DEF lock
<1>2. target[t] \in Disposables \cup {Nil}
  BY DEF IInv, TypeOK
<1>3. /\ step' \in [Threads -> Steps] /\ target' \in [Threads -> Disposables \cup {Nil}]
      /\ step'[t] = s /\ target'[t] = target[t]
      /\ \A u \in Threads : u # t => step'[u] = step[u] /\ target'[u] = target[u]
  BY <1>1, <1>2, GoToEffect DEF IInv, Steps
<1>4. TypeOK'
  BY <1>3 DEF IInv, TypeOK, lock, compound, blocks
<1>5. disposeBlock' \subseteq disposeBlock /\ ran' = ran
  BY DEF lock, blocks
<1>6. step'[t] \in Handling => target'[t] \in Disposables
  BY <1>1, <1>3 DEF IInv, HandlesDisposable, Handling
<1> QED BY <1>3, <1>4, <1>5, <1>6, BlocksKept DEF IInv

\* The steps that end in Continue, with whatever is left.
LEMMA ContinueKeeps ==
  ASSUME IInv, NEW t \in Threads, NEW left \in SUBSET Disposables, Continue(t, left),
         spinLock' \in Threads \cup {Nil},
         inlineDisposables' \in [Slots -> Disposables \cup {Nil}],
         disposables' \subseteq Disposables, disposed' \in BOOLEAN,
         disposeBlock' \subseteq disposeBlock, UNCHANGED <<ran, blockPtr, calls>>
  PROVE  IInv'
<1>1. /\ step' \in [Threads -> Steps] /\ target' \in [Threads -> Disposables \cup {Nil}]
      /\ remaining' \in [Threads -> SUBSET Disposables]
      /\ step'[t] # "run" /\ (step'[t] \in Handling => target'[t] \in Disposables)
      /\ \A u \in Threads : u # t => step'[u] = step[u] /\ target'[u] = target[u]
  BY ContinueEffect DEF IInv, Handling
<1>2. TypeOK'
  BY <1>1 DEF IInv, TypeOK
<1> QED BY <1>1, <1>2, BlocksKept DEF IInv

\* The steps that end in GoTo with a disposable in hand, and leave the blocks alone.
LEMMA GoToKeeps ==
  ASSUME IInv, NEW t \in Threads, NEW s \in Steps \ {"run"}, target[t] \in Disposables,
         GoTo(t, s, target[t]),
         spinLock' \in Threads \cup {Nil}, blockPtr' \in [Threads -> BOOLEAN],
         UNCHANGED <<compound, blocks, remaining, calls>>
  PROVE  IInv'
<1>1. /\ step' \in [Threads -> Steps] /\ target' \in [Threads -> Disposables \cup {Nil}]
      /\ step'[t] = s /\ target'[t] = target[t]
      /\ \A u \in Threads : u # t => step'[u] = step[u] /\ target'[u] = target[u]
  BY GoToEffect DEF IInv
<1>2. TypeOK'
  BY <1>1 DEF IInv, TypeOK, compound, blocks
<1>3. disposeBlock' \subseteq disposeBlock /\ ran' = ran
  BY DEF blocks
<1> QED BY <1>1, <1>2, <1>3, BlocksKept DEF IInv

\* store keeps the types of the compound disposable.
LEMMA StoreTypes ==
  ASSUME TypeOK, NEW d \in Disposables, store(d)
  PROVE  /\ inlineDisposables' \in [Slots -> Disposables \cup {Nil}]
         /\ disposables' \subseteq Disposables /\ disposed' \in BOOLEAN
BY DEF TypeOK, store

\* What is in the slots are disposables.
LEMMA InlineTypes == ASSUME TypeOK PROVE InlineContents \subseteq Disposables
BY DEF TypeOK, InlineContents

\* check, add, remove and dispose
LEMMA CompoundKeeps ==
  ASSUME IInv, NEW t \in Threads, check(t) \/ add(t) \/ remove(t) \/ dispose(t)
  PROVE  IInv'
<1>0. remaining[t] \in SUBSET Disposables /\ Nil \in Threads \cup {Nil} /\ TypeOK
  BY DEF IInv, TypeOK
<1>1. CASE check(t)
  <2>1. target[t] \in Disposables
    BY <1>1 DEF IInv, HandlesDisposable, Handling, check
  <2>2. CASE target[t] \in disposeBlock
    BY <1>0, <1>1, <2>1, <2>2, GoToKeeps DEF check, Steps, TypeOK
  <2>3. CASE target[t] \notin disposeBlock
    BY <1>0, <1>1, <2>3, ContinueKeeps DEF check, compound, blocks, TypeOK
  <2> QED BY <2>2, <2>3
<1>2. CASE add(t)
  <2>1. target[t] \in Disposables
    BY <1>2 DEF IInv, HandlesDisposable, Handling, add
  <2>2. CASE disposed
    BY <1>0, <1>2, <2>1, <2>2, GoToKeeps DEF add, Steps, TypeOK
  <2>3. CASE ~disposed
    <3>1. store(target[t]) /\ Continue(t, remaining[t]) /\ spinLock' = Nil
          /\ disposeBlock' = disposeBlock /\ UNCHANGED <<ran, blockPtr, calls>>
      BY <1>2, <2>3 DEF add, blocks
    <3>2. /\ inlineDisposables' \in [Slots -> Disposables \cup {Nil}]
          /\ disposables' \subseteq Disposables /\ disposed' \in BOOLEAN
      BY <1>0, <2>1, <3>1, StoreTypes
    <3> QED BY <1>0, <3>1, <3>2, ContinueKeeps
  <2> QED BY <2>2, <2>3
<1>3. CASE remove(t)
  <2>1. /\ inlineDisposables' \in [Slots -> Disposables \cup {Nil}]
        /\ disposables' \subseteq Disposables /\ disposed' \in BOOLEAN
    BY <1>0, <1>3 DEF remove, TypeOK, compound
  <2> QED BY <1>0, <1>3, <2>1, ContinueKeeps DEF remove, blocks
<1>4. CASE dispose(t)
  <2>1. /\ inlineDisposables' \in [Slots -> Disposables \cup {Nil}]
        /\ disposables' \subseteq Disposables /\ disposed' \in BOOLEAN
    BY <1>0, <1>4 DEF dispose, TypeOK
  <2>2. remaining[t] \cup InlineContents \cup disposables \in SUBSET Disposables
    BY <1>0, InlineTypes DEF TypeOK
  <2> QED BY <1>0, <1>4, <2>1, <2>2, ContinueKeeps DEF dispose, blocks
<1> QED BY <1>1, <1>2, <1>3, <1>4

\* The block is read.
LEMMA LoadKeeps == ASSUME IInv, NEW t \in Threads, load(t) PROVE IInv'
<1>1. target[t] \in Disposables /\ TypeOK
  BY DEF IInv, HandlesDisposable, Handling, load
<1>2. blockPtr' \in [Threads -> BOOLEAN] /\ spinLock' \in Threads \cup {Nil}
  BY <1>1 DEF TypeOK, load
<1> QED BY <1>1, <1>2, GoToKeeps DEF load, Steps

\* The block is taken: until now nobody was about to run it.
LEMMA SwapKeeps == ASSUME IInv, NEW t \in Threads, swap(t) PROVE IInv'
<1> DEFINE d == target[t]
<1>1. d \in Disposables /\ TypeOK /\ remaining[t] \in SUBSET Disposables
  BY DEF IInv, HandlesDisposable, Handling, swap, TypeOK
<1>2. CASE blockPtr[t] # (d \in disposeBlock)
  BY <1>1, <1>2, GoToKeeps DEF swap, Steps, blocks, TypeOK
<1>3. CASE ~blockPtr[t] /\ d \notin disposeBlock
  BY <1>1, <1>3, ContinueKeeps DEF swap, compound, TypeOK
<1>4. CASE blockPtr[t] /\ d \in disposeBlock
  <2>1. GoTo(t, "run", d) /\ disposeBlock' = disposeBlock \ {d}
        /\ UNCHANGED <<spinLock, inlineDisposables, disposables, disposed, ran, blockPtr,
                       remaining, calls>>
    BY <1>4 DEF swap, compound
  <2>2. /\ step' \in [Threads -> Steps] /\ target' \in [Threads -> Disposables \cup {Nil}]
        /\ step'[t] = "run" /\ target'[t] = d
        /\ \A u \in Threads : u # t => step'[u] = step[u] /\ target'[u] = target[u]
    BY <1>1, <2>1, GoToEffect DEF Steps
  <2>3. TypeOK'
    BY <1>1, <2>1, <2>2 DEF TypeOK
  <2>4. HandlesDisposable'
    BY <1>1, <2>2 DEF IInv, HandlesDisposable
  <2>5. \A e \in Disposables, u \in Threads :
          Runs(u, e)' => (u = t /\ e = d) \/ (u # t /\ Runs(u, e))
    BY <2>2 DEF Runs
  <2>6. ran[d] = 0 /\ \A u \in Threads : ~Runs(u, d)
    BY <1>4 DEF IInv, UntakenIsUnrun
  <2>7. UntakenIsUnrun'
    BY <1>1, <2>1, <2>5 DEF IInv, UntakenIsUnrun, TypeOK
  <2>8. OneRunner'
    BY <2>1, <2>5, <2>6 DEF IInv, OneRunner
  <2> QED BY <2>1, <2>3, <2>4, <2>7, <2>8 DEF IInv, BlockRunsOnce
<1> QED BY <1>1, <1>2, <1>3, <1>4 DEF TypeOK

\* The block runs: the one runner runs it for the first time.
LEMMA RunKeeps == ASSUME IInv, NEW t \in Threads, run(t) PROVE IInv'
<1> DEFINE d == target[t]
<1>1. d \in Disposables /\ TypeOK /\ remaining[t] \in SUBSET Disposables
  BY DEF IInv, HandlesDisposable, Handling, run, TypeOK
<1>2. Runs(t, d) /\ ran[d] = 0 /\ d \notin disposeBlock
      /\ \A u \in Threads : Runs(u, d) => u = t
  BY <1>1 DEF IInv, OneRunner, UntakenIsUnrun, Runs, run
<1>3. ran' = [ran EXCEPT ![d] = @ + 1]
      /\ UNCHANGED <<spinLock, inlineDisposables, disposables, disposed, disposeBlock,
                     blockPtr, calls>>
  BY DEF run, compound
<1>4. ran' \in [Disposables -> Nat] /\ ran'[d] = 1
      /\ \A e \in Disposables : e # d => ran'[e] = ran[e]
  BY <1>1, <1>2, <1>3 DEF TypeOK
<1>5. /\ step' \in [Threads -> Steps] /\ target' \in [Threads -> Disposables \cup {Nil}]
      /\ remaining' \in [Threads -> SUBSET Disposables]
      /\ step'[t] # "run" /\ (step'[t] \in Handling => target'[t] \in Disposables)
      /\ \A u \in Threads : u # t => step'[u] = step[u] /\ target'[u] = target[u]
  <2>1. CASE Continue(t, remaining[t])
    BY <1>1, <2>1, ContinueEffect DEF Handling
  <2>2. CASE GoTo(t, "remove", d) /\ UNCHANGED remaining
    BY <1>1, <2>2, GoToEffect DEF Steps, TypeOK
  <2>3. CASE GoTo(t, "dispose", Nil) /\ UNCHANGED remaining
    BY <1>1, <2>3, GoToEffect DEF Steps, TypeOK, Handling
  <2>4. CASE \E e \in Disposables : GoTo(t, "check", e) /\ UNCHANGED remaining
    <3>1. PICK e \in Disposables : GoTo(t, "check", e) /\ UNCHANGED remaining
      BY <2>4
    <3> QED BY <1>1, <3>1, GoToEffect DEF Steps, TypeOK
  <2> QED BY <2>1, <2>2, <2>3, <2>4 DEF run
<1>6. TypeOK'
  BY <1>1, <1>3, <1>4, <1>5 DEF TypeOK
<1>7. HandlesDisposable'
  BY <1>5 DEF IInv, HandlesDisposable
<1>8. \A e \in Disposables, u \in Threads : Runs(u, e)' => e # d /\ Runs(u, e)
  BY <1>2, <1>5 DEF Runs
<1>9. UntakenIsUnrun'
  BY <1>1, <1>2, <1>3, <1>4, <1>8 DEF IInv, UntakenIsUnrun, TypeOK
<1>10. OneRunner'
  BY <1>4, <1>8 DEF IInv, OneRunner
<1>11. BlockRunsOnce'
  BY <1>4 DEF IInv, BlockRunsOnce
<1> QED BY <1>6, <1>7, <1>9, <1>10, <1>11 DEF IInv

\* Every step keeps the invariant.
LEMMA NextKeeps == IInv /\ [Next]_vars => IInv'
<1> SUFFICES ASSUME IInv, [Next]_vars PROVE IInv'
  OBVIOUS
<1>1. CASE UNCHANGED vars
  BY <1>1 DEF vars, IInv, TypeOK, HandlesDisposable, UntakenIsUnrun, OneRunner,
              BlockRunsOnce, Runs
<1>2. ASSUME NEW t \in Threads, call(t) \/ ThreadStep(t) PROVE IInv'
  BY <1>2, CallKeeps, LockKeeps, CompoundKeeps, LoadKeeps, SwapKeeps, RunKeeps
     DEF ThreadStep
<1> QED BY <1>1, <1>2 DEF Next

\* The inductive invariant of the disposables.
THEOREM DisposingInvariant == Safety => []IInv
BY InitIInv, NextKeeps, PTL DEF Safety

\* However many threads dispose of a disposable, however often it was added to the
\* compound disposable, its block runs once at most.
THEOREM BlocksRunOnce == Safety => []BlockRunsOnce
<1>1. IInv => BlockRunsOnce
  BY DEF IInv
<1> QED BY <1>1, DisposingInvariant, PTL

-----------------------------------------------------------------------------
(* The locked calls are the calls of DisposableSet *)

TakenAll == UNION {Taken(t) : t \in Threads}
Contents == InlineContents \cup disposables

\* What a thread has taken is a set of disposables.
LEMMA TakenTypes == ASSUME IInv PROVE TakenAll \subseteq Disposables
BY DEF IInv, TypeOK, HandlesDisposable, Handling, Taken, TakenAll

\* After Continue the thread has taken what was left, and the others what they had.
LEMMA ContinueTaken ==
  ASSUME IInv, NEW t \in Threads, NEW left \in SUBSET Disposables, Continue(t, left)
  PROVE  Taken(t)' = left /\ \A u \in Threads : u # t => Taken(u)' = Taken(u)
<1>1. TypeOK
  BY DEF IInv
<1> QED BY <1>1, ContinueEffect DEF Taken

\* After GoTo it has taken the disposable it is to load, too.
LEMMA GoToTaken ==
  ASSUME IInv, NEW t \in Threads, NEW s \in Steps, NEW d \in Disposables \cup {Nil},
         GoTo(t, s, d), UNCHANGED remaining
  PROVE  /\ Taken(t)' = remaining[t] \cup (IF s \in {"load", "swap"} THEN {d} ELSE {})
         /\ \A u \in Threads : u # t => Taken(u)' = Taken(u)
<1>1. TypeOK
  BY DEF IInv
<1> QED BY <1>1, GoToEffect DEF Taken

\* When one thread takes more, so do all of them.
LEMMA TakenGrows ==
  ASSUME NEW t \in Threads, NEW X, Taken(t)' = Taken(t) \cup X,
         \A u \in Threads : u # t => Taken(u)' = Taken(u)
  PROVE  TakenAll' = TakenAll \cup X
BY DEF TakenAll

\* A step that changes nothing the set knows of is a stutter.
LEMMA StutterStep ==
  ASSUME UNCHANGED <<disposed, disposeBlock>>, Contents' = Contents, TakenAll' = TakenAll
  PROVE  UNCHANGED Set!vars
BY DEF Set!vars, Contents, TakenAll

\* A call is a stutter, or somebody disposes of one disposable.
LEMMA CallMaps ==
  ASSUME IInv, NEW t \in Threads, call(t) PROVE [Set!Next]_(Set!vars)
<1>1. Contents' = Contents /\ UNCHANGED <<disposed, disposeBlock>>
  BY DEF call, compound, blocks, Contents, InlineContents
<1>2. Taken(t) = remaining[t]
  BY DEF call, Taken
<1>3. CASE GoTo(t, "dispose", Nil)
  <2>1. TakenAll' = TakenAll \cup {}
    BY <1>2, <1>3, GoToTaken, TakenGrows DEF call, Steps
  <2> QED BY <1>1, <2>1, StutterStep
<1>4. ASSUME NEW d \in Disposables, NEW s \in {"check", "remove"}, GoTo(t, s, d)
      PROVE  UNCHANGED Set!vars
  <2>0. UNCHANGED remaining /\ s \in Steps \ {"load", "swap"} /\ d \in Disposables \cup {Nil}
    BY DEF call, Steps
  <2>1. Taken(t)' = Taken(t) \cup {} /\ \A u \in Threads : u # t => Taken(u)' = Taken(u)
    <3>1. /\ Taken(t)' = remaining[t] \cup (IF s \in {"load", "swap"} THEN {d} ELSE {})
          /\ \A u \in Threads : u # t => Taken(u)' = Taken(u)
      BY <1>4, <2>0, GoToTaken
    <3> QED BY <1>2, <2>0, <3>1
  <2>2. TakenAll' = TakenAll \cup {}
    BY <2>1, TakenGrows
  <2> QED BY <1>1, <2>2, StutterStep
<1>5. ASSUME NEW d \in Disposables, GoTo(t, "load", d) PROVE Set!disposeOf(d)
  <2>1. Taken(t)' = Taken(t) \cup {d} /\ \A u \in Threads : u # t => Taken(u)' = Taken(u)
    BY <1>2, <1>5, GoToTaken DEF call, Steps
  <2>2. TakenAll' = TakenAll \cup {d}
    BY <2>1, TakenGrows
  <2> QED BY <1>1, <2>2 DEF Set!disposeOf, Contents, TakenAll
<1> QED BY <1>3, <1>4, <1>5 DEF call, Set!Next

\* The steps that leave the thread with what it had taken.
LEMMA KeepsTakenMaps ==
  ASSUME IInv, NEW t \in Threads, check(t) \/ lock(t) \/ load(t) \/ run(t)
  PROVE  UNCHANGED Set!vars
<1>0. remaining[t] \in SUBSET Disposables /\ target[t] \in Disposables \cup {Nil}
  BY DEF IInv, TypeOK
<1>1. Contents' = Contents /\ UNCHANGED <<disposed, disposeBlock>>
  BY DEF check, lock, load, run, compound, blocks, Contents, InlineContents
<1>2. Taken(t)' = Taken(t) \cup {} /\ \A u \in Threads : u # t => Taken(u)' = Taken(u)
  <2>1. CASE check(t) /\ target[t] \in disposeBlock
    BY <1>0, <2>1, GoToTaken DEF check, Taken, Steps
  <2>2. CASE check(t) /\ target[t] \notin disposeBlock
    BY <1>0, <2>2, ContinueTaken DEF check, Taken
  <2>3. CASE lock(t)
    <3>1. PICK s \in {"adding", "removing", "disposing"} :
            GoTo(t, s, target[t]) /\ UNCHANGED remaining
      BY <2>3 DEF lock
    <3> QED BY <1>0, <2>3, <3>1, GoToTaken DEF lock, Taken, Steps
  <2>4. CASE load(t)
    BY <1>0, <2>4, GoToTaken DEF load, Taken, Steps
  <2>5. CASE run(t) /\ Continue(t, remaining[t])
    BY <1>0, <2>5, ContinueTaken DEF run, Taken
  <2>6. CASE run(t) /\ UNCHANGED remaining
              /\ \/ GoTo(t, "remove", target[t]) \/ GoTo(t, "dispose", Nil)
                 \/ \E e \in Disposables : GoTo(t, "check", e)
    BY <1>0, <2>6, GoToTaken DEF run, Taken, Steps
  <2> QED BY <2>1, <2>2, <2>3, <2>4, <2>5, <2>6 DEF run
<1>3. TakenAll' = TakenAll \cup {}
  BY <1>2, TakenGrows
<1> QED BY <1>1, <1>3, StutterStep

\* There is a first one among the free slots.
LEMMA FirstSlot ==
  ASSUME NEW free \in SUBSET Slots, free # {}
  PROVE  (CHOOSE i \in free : \A j \in free : i <= j) \in free
<1>1. free \subseteq Nat
  BY DEF Slots
<1>2. \E i \in free : \A j \in free : i <= j
  <2>1. PICK i \in free : \A j \in free : <<j, i>> \notin OpToRel(<, Nat)
    BY <1>1, WFMin, NatLessThanWellFounded
  <2>2. \A j \in free : ~(j < i)
    BY <1>1, <2>1 DEF OpToRel
  <2> QED BY <1>1, <2>2
<1> QED BY <1>2

\* Storing a disposable adds it to what the slots and the array hold.
LEMMA StoreContents ==
  ASSUME TypeOK, CompoundAssumption, NEW d \in Disposables, store(d)
  PROVE  Contents' = Contents \cup {d}
<1> DEFINE free == {i \in Slots : inlineDisposables[i] = Nil}
<1>1. CASE free = {}
  BY <1>1 DEF store, Contents, InlineContents
<1>2. CASE free # {}
  <2> DEFINE slot == CHOOSE i \in free : \A j \in free : i <= j
  <2>1. slot \in free
    BY <1>2, FirstSlot
  <2>2. inlineDisposables' = [inlineDisposables EXCEPT ![slot] = d]
        /\ disposables' = disposables
    BY <1>2 DEF store
  <2> HIDE DEF slot
  <2>3. slot \in Slots /\ inlineDisposables[slot] = Nil /\ d # Nil
    BY <2>1 DEF CompoundAssumption
  <2>4. inlineDisposables'[slot] = d
        /\ \A i \in Slots : i # slot => inlineDisposables'[i] = inlineDisposables[i]
    BY <2>2, <2>3 DEF TypeOK
  <2>5. InlineContents' = InlineContents \cup {d}
    BY <2>3, <2>4 DEF InlineContents
  <2> QED BY <2>2, <2>5 DEF Contents
<1> QED BY <1>1, <1>2

\* addDisposable is that of the set: before the end the disposable is in the set,
\* after it the thread owes it its disposal.
LEMMA AddMaps ==
  ASSUME IInv, CompoundAssumption, NEW t \in Threads, add(t)
  PROVE  Set!addDisposable(target[t])
<1> DEFINE d == target[t]
<1>0. remaining[t] \in SUBSET Disposables /\ d \in Disposables /\ TypeOK
  BY DEF IInv, TypeOK, HandlesDisposable, Handling, add
<1>1. CASE disposed
  <2>1. Taken(t)' = Taken(t) \cup {d} /\ \A u \in Threads : u # t => Taken(u)' = Taken(u)
    BY <1>0, <1>1, GoToTaken DEF add, Taken, Steps
  <2>2. TakenAll' = TakenAll \cup {d}
    BY <2>1, TakenGrows
  <2>3. Contents' = Contents /\ UNCHANGED <<disposed, disposeBlock>>
    BY <1>1 DEF add, compound, blocks, Contents, InlineContents
  <2> QED BY <1>0, <1>1, <2>2, <2>3 DEF Set!addDisposable, Contents, TakenAll
<1>2. CASE ~disposed
  <2>1. Taken(t)' = Taken(t) \cup {} /\ \A u \in Threads : u # t => Taken(u)' = Taken(u)
    BY <1>0, <1>2, ContinueTaken DEF add, Taken
  <2>2. TakenAll' = TakenAll \cup {}
    BY <2>1, TakenGrows
  <2>3. Contents' = Contents \cup {d} /\ UNCHANGED <<disposed, disposeBlock>>
    BY <1>0, <1>2, StoreContents DEF add, blocks, store
  <2> QED BY <1>2, <2>2, <2>3 DEF Set!addDisposable, Contents, TakenAll
<1> QED BY <1>1, <1>2

\* removeDisposable is that of the set, and after the end nothing.
LEMMA RemoveMaps ==
  ASSUME IInv, CompoundAssumption, NEW t \in Threads, remove(t)
  PROVE  Set!removeDisposable(target[t]) \/ UNCHANGED Set!vars
<1> DEFINE d == target[t]
<1>0. remaining[t] \in SUBSET Disposables /\ d \in Disposables /\ TypeOK /\ d # Nil
  BY DEF IInv, TypeOK, HandlesDisposable, Handling, remove, CompoundAssumption
<1>1. Taken(t)' = Taken(t) \cup {} /\ \A u \in Threads : u # t => Taken(u)' = Taken(u)
  BY <1>0, ContinueTaken DEF remove, Taken
<1>2. TakenAll' = TakenAll \cup {}
  BY <1>1, TakenGrows
<1>3. UNCHANGED <<disposed, disposeBlock>>
  BY DEF remove, blocks, compound
<1>4. CASE disposed
  <2>1. Contents' = Contents
    BY <1>4 DEF remove, compound, Contents, InlineContents
  <2> QED BY <1>2, <1>3, <2>1, StutterStep
<1>5. CASE ~disposed
  <2>1. /\ inlineDisposables' = [i \in Slots |-> IF inlineDisposables[i] = d THEN Nil
                                                ELSE inlineDisposables[i]]
        /\ disposables' = disposables \ {d}
    BY <1>5 DEF remove
  <2>2. InlineContents' = InlineContents \ {d}
    BY <1>0, <2>1 DEF InlineContents
  <2> QED BY <1>2, <1>3, <1>5, <2>1, <2>2 DEF Set!removeDisposable, Contents, TakenAll
<1> QED BY <1>4, <1>5

\* dispose is that of the set: the thread owes the contents their disposal.
LEMMA DisposeMaps ==
  ASSUME IInv, NEW t \in Threads, dispose(t) PROVE Set!dispose
<1>0. Contents \subseteq Disposables /\ remaining[t] \in SUBSET Disposables
  BY InlineTypes DEF IInv, TypeOK, Contents
<1>1. Taken(t)' = Taken(t) \cup Contents
      /\ \A u \in Threads : u # t => Taken(u)' = Taken(u)
  <2>1. Continue(t, remaining[t] \cup Contents)
    BY DEF dispose, Contents
  <2>2. Taken(t)' = remaining[t] \cup Contents
        /\ \A u \in Threads : u # t => Taken(u)' = Taken(u)
    BY <1>0, <2>1, ContinueTaken
  <2> QED BY <2>2 DEF dispose, Taken
<1>2. TakenAll' = TakenAll \cup Contents
  BY <1>1, TakenGrows
<1>3. Contents' = {} /\ disposed' = TRUE /\ disposeBlock' = disposeBlock
  BY DEF dispose, blocks, Contents, InlineContents
<1> QED BY <1>0, <1>2, <1>3 DEF Set!dispose, Contents, TakenAll

\* The thread that takes the block finishes the disposal; the others turn away.
LEMMA SwapMaps ==
  ASSUME IInv, NEW t \in Threads, swap(t)
  PROVE  Set!finish(target[t]) \/ UNCHANGED Set!vars
<1> DEFINE d == target[t]
<1>0. remaining[t] \in SUBSET Disposables /\ d \in Disposables
      /\ d \in Taken(t) /\ Taken(t) = remaining[t] \cup {d} /\ blockPtr[t] \in BOOLEAN
  BY DEF IInv, TypeOK, HandlesDisposable, Handling, swap, Taken
<1>1. Contents' = Contents /\ UNCHANGED disposed
  BY DEF swap, compound, Contents, InlineContents
<1>2. CASE blockPtr[t] # (d \in disposeBlock)
  <2>1. Taken(t)' = Taken(t) \cup {} /\ \A u \in Threads : u # t => Taken(u)' = Taken(u)
    BY <1>0, <1>2, GoToTaken DEF swap, Steps
  <2>2. TakenAll' = TakenAll \cup {}
    BY <2>1, TakenGrows
  <2>3. disposeBlock' = disposeBlock
    BY <1>2 DEF swap
  <2> QED BY <1>1, <2>2, <2>3, StutterStep
<1>3. CASE blockPtr[t] = (d \in disposeBlock)
  <2>1. Taken(t)' = remaining[t] /\ \A u \in Threads : u # t => Taken(u)' = Taken(u)
    <3>1. CASE blockPtr[t]
      <4>1. GoTo(t, "run", d) /\ UNCHANGED remaining
        BY <1>3, <3>1, Zenon DEF swap
      <4>2. "run" \in Steps /\ (IF "run" \in {"load", "swap"} THEN {d} ELSE {}) = {}
        BY DEF Steps
      <4>3. /\ Taken(t)' = remaining[t] \cup {}
            /\ \A u \in Threads : u # t => Taken(u)' = Taken(u)
        BY <1>0, <4>1, <4>2, GoToTaken
      <4> QED BY <4>3
    <3>2. CASE ~blockPtr[t]
      <4>1. Continue(t, remaining[t])
        BY <1>3, <3>2, Zenon DEF swap
      <4> QED BY <1>0, <4>1, ContinueTaken
    <3> QED BY <3>1, <3>2
  <2>2. \A e : e # d => (e \in TakenAll' <=> e \in TakenAll)
    BY <1>0, <2>1 DEF TakenAll
  <2>3. disposeBlock' = disposeBlock \ {d} /\ d \in TakenAll
    BY <1>0, <1>3 DEF swap, TakenAll
  <2>4. CASE d \in disposeBlock
    <3>1. disposeBlock' \cap TakenAll' = (disposeBlock \cap TakenAll) \ {d}
      BY <2>2, <2>3
    <3>2. Disposables \ disposeBlock' = (Disposables \ disposeBlock) \cup {d}
      BY <1>0, <2>3
    <3> QED BY <1>1, <2>3, <2>4, <3>1, <3>2 DEF Set!finish, Contents, TakenAll
  <2>5. CASE d \notin disposeBlock
    <3>1. disposeBlock' = disposeBlock
      BY <2>3, <2>5
    <3>2. disposeBlock' \cap TakenAll' = disposeBlock \cap TakenAll
      BY <2>2, <2>5, <3>1
    <3> QED BY <1>1, <3>1, <3>2 DEF Set!vars, Contents, TakenAll
  <2> QED BY <2>4, <2>5
<1> QED BY <1>2, <1>3

\* Every step is a step of the set or a stutter.
LEMMA NextMaps ==
  IInv /\ CompoundAssumption /\ [Next]_vars => [Set!Next]_(Set!vars)
<1> SUFFICES ASSUME IInv, CompoundAssumption, [Next]_vars PROVE [Set!Next]_(Set!vars)
  OBVIOUS
<1>1. CASE UNCHANGED vars
  BY <1>1 DEF vars, Set!vars, InlineContents, Taken
<1>2. ASSUME NEW t \in Threads, call(t) \/ ThreadStep(t) PROVE [Set!Next]_(Set!vars)
  <2>1. CASE call(t)
    BY <2>1, CallMaps
  <2>2. CASE check(t) \/ lock(t) \/ load(t) \/ run(t)
    BY <2>2, KeepsTakenMaps
  <2>3. CASE add(t)
    <3>1. target[t] \in Disposables
      BY <2>3 DEF IInv, HandlesDisposable, Handling, add
    <3> QED BY <2>3, <3>1, AddMaps DEF Set!Next
  <2>4. CASE remove(t)
    <3>1. target[t] \in Disposables
      BY <2>4 DEF IInv, HandlesDisposable, Handling, remove
    <3> QED BY <2>4, <3>1, RemoveMaps DEF Set!Next
  <2>5. CASE dispose(t)
    BY <2>5, DisposeMaps DEF Set!Next
  <2>6. CASE swap(t)
    <3>1. target[t] \in Disposables
      BY <2>6 DEF IInv, HandlesDisposable, Handling, swap
    <3> QED BY <2>6, <3>1, SwapMaps DEF Set!Next
  <2> QED BY <1>2, <2>1, <2>2, <2>3, <2>4, <2>5, <2>6 DEF ThreadStep
<1> QED BY <1>1, <1>2 DEF Next

\* The compound disposable does what DisposableSet promises, but for the fairness:
\* every call takes effect in one step.
THEOREM ImplementsSet == Safety => Set!Safety
<1>1. Init => Set!Init
  BY DEF Init, Set!Init, InlineContents, Taken
<1> QED BY <1>1, NextMaps, DisposingInvariant, CompoundAssumption, PTL
        DEF Safety, Set!Safety
=============================================================================
