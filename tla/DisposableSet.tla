----------------------------- MODULE DisposableSet -----------------------------
(***************************************************************************)
(* What RACCompoundDisposable.h promises.  Each call takes effect at once, *)
(* whichever thread makes it: a disposable is added to the set, or removed *)
(* from it, or the set is disposed of.  What was in the set at that moment *)
(* and what is added later is owed its disposal, and gets it.              *)
(***************************************************************************)
CONSTANT Disposables

VARIABLES
  contents,   \* what has been added and not removed
  disposed,   \* the set has been disposed of
  owed,       \* what is to be disposed of
  done        \* what has been disposed of

vars == <<contents, disposed, owed, done>>

Init == contents = {} /\ disposed = FALSE /\ owed = {} /\ done = {}

addDisposable(d) ==
  /\ IF disposed
     THEN owed' = owed \cup ({d} \ done) /\ UNCHANGED contents
     ELSE contents' = contents \cup {d} /\ UNCHANGED owed
  /\ UNCHANGED <<disposed, done>>

\* After the end there is nothing to remove.
removeDisposable(d) ==
  /\ ~disposed
  /\ contents' = contents \ {d}
  /\ UNCHANGED <<disposed, owed, done>>

dispose ==
  /\ disposed' = TRUE
  /\ owed' = owed \cup (contents \ done)
  /\ contents' = {}
  /\ UNCHANGED done

\* Somebody disposes of one disposable, in the set or not.
disposeOf(d) ==
  /\ owed' = owed \cup ({d} \ done)
  /\ UNCHANGED <<contents, disposed, done>>

finish(d) ==
  /\ d \in owed
  /\ owed' = owed \ {d} /\ done' = done \cup {d}
  /\ UNCHANGED <<contents, disposed>>

Next ==
  \/ dispose
  \/ \E d \in Disposables :
       addDisposable(d) \/ removeDisposable(d) \/ disposeOf(d) \/ finish(d)

Safety == Init /\ [][Next]_vars

Spec == Safety /\ \A d \in Disposables : WF_vars(finish(d))
=============================================================================
