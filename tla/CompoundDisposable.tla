-------------------------- MODULE CompoundDisposable --------------------------
(***************************************************************************)
(* RACCompoundDisposable and RACDisposable of ReactiveCocoa, used by any   *)
(* number of threads.  Every subscription of the program holds one; the    *)
(* port scan closes its sockets through one.                               *)
(*                                                                         *)
(* A thread takes the spin lock in one step and does the work under it and *)
(* releases it in the next: what the lock protects nobody else touches.    *)
(* Disposables are disposed of after the release, one at a time: the block *)
(* of one is taken with a compare and swap and then run, and it may call   *)
(* the compound disposable again.  The order in which the disposables of   *)
(* one call are disposed of, and how often one is in the array, make no    *)
(* difference to anybody: the array and what a thread has left are sets.   *)
(***************************************************************************)
EXTENDS Naturals, FiniteSets

CONSTANTS
  Threads,
  Disposables,
  InlineCount,   \* RACCompoundDisposableInlineCount: 2
  Nil,           \* no thread, no disposable
  MaxCalls       \* bound: calls made from outside a block

ASSUME CompoundAssumption ==
  /\ Nil \notin Threads \cup Disposables
  /\ InlineCount \in Nat
  /\ MaxCalls \in Nat

VARIABLES
  spinLock,            \* the thread that holds it, or Nil
  inlineDisposables,   \* [Slots -> Disposables or Nil]
  disposables,         \* what is in the array
  disposed,
  disposeBlock,        \* the disposables whose _disposeBlock is not NULL
  ran,                 \* [Disposables -> Nat]: how often its block ran
  step,                \* [Threads -> Steps]: what the thread does next
  target,              \* [Threads -> Disposables or Nil]: with which disposable
  blockPtr,            \* [Threads -> BOOLEAN]: it read a block, not NULL
  remaining,           \* [Threads -> SUBSET Disposables]: to dispose of afterwards
  calls                \* calls made

vars == <<spinLock, inlineDisposables, disposables, disposed, disposeBlock, ran,
          step, target, blockPtr, remaining, calls>>
compound == <<inlineDisposables, disposables, disposed>>
blocks == <<disposeBlock, ran>>

Slots == 1 .. InlineCount
Steps == {"idle", "check", "add", "adding", "remove", "removing", "dispose",
          "disposing", "load", "swap", "run"}

TypeOK ==
  /\ spinLock \in Threads \cup {Nil}
  /\ inlineDisposables \in [Slots -> Disposables \cup {Nil}]
  /\ disposables \subseteq Disposables
  /\ disposed \in BOOLEAN
  /\ disposeBlock \subseteq Disposables
  /\ ran \in [Disposables -> Nat]
  /\ step \in [Threads -> Steps]
  /\ target \in [Threads -> Disposables \cup {Nil}]
  /\ blockPtr \in [Threads -> BOOLEAN]
  /\ remaining \in [Threads -> SUBSET Disposables]
  /\ calls \in Nat

Init ==
  /\ spinLock = Nil
  /\ inlineDisposables = [i \in Slots |-> Nil]
  /\ disposables = {}
  /\ disposed = FALSE
  /\ disposeBlock = Disposables
  /\ ran = [d \in Disposables |-> 0]
  /\ step = [t \in Threads |-> "idle"]
  /\ target = [t \in Threads |-> Nil]
  /\ blockPtr = [t \in Threads |-> FALSE]
  /\ remaining = [t \in Threads |-> {}]
  /\ calls = 0

InlineContents == {inlineDisposables[i] : i \in Slots} \ {Nil}

-----------------------------------------------------------------------------
(* Where a thread goes on *)

GoTo(t, s, d) ==
  /\ step' = [step EXCEPT ![t] = s]
  /\ target' = [target EXCEPT ![t] = d]

\* A call returns: the thread goes on with one of the disposables it has left.
Continue(t, left) ==
  IF left = {}
  THEN GoTo(t, "idle", Nil) /\ remaining' = [remaining EXCEPT ![t] = {}]
  ELSE \E d \in left :
         /\ GoTo(t, "load", d)
         /\ remaining' = [remaining EXCEPT ![t] = left \ {d}]

\* A thread makes a call: of the compound disposable, or of the -dispose of one
\* of the others.
call(t) ==
  /\ step[t] = "idle" /\ calls < MaxCalls
  /\ \/ GoTo(t, "dispose", Nil)
     \/ \E d \in Disposables, s \in {"check", "remove", "load"} : GoTo(t, s, d)
  /\ calls' = calls + 1
  /\ UNCHANGED <<spinLock, compound, blocks, blockPtr, remaining>>

-----------------------------------------------------------------------------
(* The compound disposable *)

\* addDisposable: one that has been disposed of is not added.
check(t) ==
  /\ step[t] = "check"
  /\ IF target[t] \in disposeBlock
     THEN GoTo(t, "add", target[t]) /\ UNCHANGED remaining
     ELSE Continue(t, remaining[t])
  /\ UNCHANGED <<spinLock, compound, blocks, blockPtr, calls>>

\* OSSpinLockLock
lock(t) ==
  /\ step[t] \in {"add", "remove", "dispose"}
  /\ spinLock = Nil
  /\ spinLock' = t
  /\ GoTo(t, CASE step[t] = "add" -> "adding"
               [] step[t] = "remove" -> "removing"
               [] step[t] = "dispose" -> "disposing", target[t])
  /\ UNCHANGED <<compound, blocks, blockPtr, remaining, calls>>

\* The first free slot takes it, or the array when there is none.
store(d) ==
  LET free == {i \in Slots : inlineDisposables[i] = Nil}
  IN  /\ IF free # {}
         THEN /\ inlineDisposables' =
                   [inlineDisposables EXCEPT
                      ![CHOOSE i \in free : \A j \in free : i <= j] = d]
              /\ UNCHANGED disposables
         ELSE /\ disposables' = disposables \cup {d}
              /\ UNCHANGED inlineDisposables
      /\ UNCHANGED disposed

\* After the end it is disposed of, once the lock is released.
add(t) ==
  /\ step[t] = "adding"
  /\ IF disposed
     THEN GoTo(t, "load", target[t]) /\ UNCHANGED <<compound, remaining>>
     ELSE store(target[t]) /\ Continue(t, remaining[t])
  /\ spinLock' = Nil
  /\ UNCHANGED <<blocks, blockPtr, calls>>

\* Every occurrence goes; after the end there is none.
remove(t) ==
  LET d == target[t] IN
  /\ step[t] = "removing"
  /\ IF disposed THEN UNCHANGED compound
     ELSE /\ inlineDisposables' =
               [i \in Slots |-> IF inlineDisposables[i] = d THEN Nil
                                ELSE inlineDisposables[i]]
          /\ disposables' = disposables \ {d}
          /\ UNCHANGED disposed
  /\ spinLock' = Nil
  /\ Continue(t, remaining[t])
  /\ UNCHANGED <<blocks, blockPtr, calls>>

\* mutant: the array is released without disposing of what is in it
disposeInline(t) ==
  /\ step[t] = "disposing"
  /\ disposed' = TRUE
  /\ inlineDisposables' = [i \in Slots |-> Nil]
  /\ disposables' = {}
  /\ spinLock' = Nil
  /\ Continue(t, remaining[t] \cup InlineContents)
  /\ UNCHANGED <<blocks, blockPtr, calls>>

\* dispose: the contents are taken out under the lock and disposed of after it.
dispose(t) ==
  /\ step[t] = "disposing"
  /\ disposed' = TRUE
  /\ inlineDisposables' = [i \in Slots |-> Nil]
  /\ disposables' = {}
  /\ spinLock' = Nil
  /\ Continue(t, remaining[t] \cup InlineContents \cup disposables)
  /\ UNCHANGED <<blocks, blockPtr, calls>>

-----------------------------------------------------------------------------
(* One disposable *)

\* void *blockPtr = _disposeBlock
load(t) ==
  /\ step[t] = "load"
  /\ blockPtr' = [blockPtr EXCEPT ![t] = target[t] \in disposeBlock]
  /\ GoTo(t, "swap", target[t])
  /\ UNCHANGED <<spinLock, compound, blocks, remaining, calls>>

\* mutant: a store instead of a compare and swap
swapUnconditional(t) ==
  LET d == target[t] IN
  /\ step[t] = "swap"
  /\ disposeBlock' = disposeBlock \ {d}
  /\ IF blockPtr[t] THEN GoTo(t, "run", d) /\ UNCHANGED remaining
     ELSE Continue(t, remaining[t])
  /\ UNCHANGED <<spinLock, compound, ran, blockPtr, calls>>

\* OSAtomicCompareAndSwapPtrBarrier: the block is ours, or it was NULL, or another
\* thread was faster and the loop goes round.
swap(t) ==
  LET d == target[t] IN
  /\ step[t] = "swap"
  /\ IF blockPtr[t] = (d \in disposeBlock)
     THEN /\ disposeBlock' = disposeBlock \ {d}
          /\ IF blockPtr[t] THEN GoTo(t, "run", d) /\ UNCHANGED remaining
             ELSE Continue(t, remaining[t])
     ELSE GoTo(t, "load", d) /\ UNCHANGED <<disposeBlock, remaining>>
  /\ UNCHANGED <<spinLock, compound, ran, blockPtr, calls>>

\* disposeBlock(): it may remove its disposable from the compound disposable, dispose
\* of that or add a disposable to it, and what the thread has left waits.
run(t) ==
  LET d == target[t] IN
  /\ step[t] = "run"
  /\ ran' = [ran EXCEPT ![d] = @ + 1]
  /\ \/ Continue(t, remaining[t])
     \/ GoTo(t, "remove", d) /\ UNCHANGED remaining
     \/ GoTo(t, "dispose", Nil) /\ UNCHANGED remaining
     \/ \E e \in Disposables : GoTo(t, "check", e) /\ UNCHANGED remaining
  /\ UNCHANGED <<spinLock, compound, disposeBlock, blockPtr, calls>>

ThreadStep(t) ==
  \/ check(t) \/ lock(t) \/ add(t) \/ remove(t) \/ dispose(t)
  \/ load(t) \/ swap(t) \/ run(t)

Next == \E t \in Threads : call(t) \/ ThreadStep(t)

Safety == Init /\ [][Next]_vars

\* A thread in a call runs.  Calls are few and the lock is held for a moment, so a
\* thread that spins on it needs no more than that.
Spec == Safety /\ \A t \in Threads : WF_vars(ThreadStep(t))

-----------------------------------------------------------------------------
(* Properties *)

\* The block of a disposable runs once at most, however many threads dispose of it
\* at the same time and however often it was added.
BlockRunsOnce == \A d \in Disposables : ran[d] <= 1

\* What a thread has taken upon itself to dispose of.
Taken(t) ==
  remaining[t] \cup (IF step[t] \in {"load", "swap"} THEN {target[t]} ELSE {})

\* The calls have the effect of single steps on a set, and what is owed its disposal
\* when the compound disposable ends, or after it, gets it, though the blocks call
\* back and the lock is not recursive.
Set == INSTANCE DisposableSet WITH
  contents <- InlineContents \cup disposables,
  owed <- disposeBlock \cap UNION {Taken(t) : t \in Threads},
  done <- Disposables \ disposeBlock

ImplementsDisposableSet == Set!Spec
=============================================================================
