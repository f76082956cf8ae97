------------------------------- MODULE RACTuple -------------------------------
(***************************************************************************)
(* Tuples of ReactiveCocoa (RACTuple.h, RACTuple.m).  A tuple keeps an     *)
(* array, in which RACTupleNil stands for nil.  Objects are told apart by  *)
(* a number.                                                               *)
(***************************************************************************)
EXTENDS Metamacros

nil == [is |-> "nil", id |-> 0, of |-> <<>>]
tupleNil == [is |-> "RACTupleNil", id |-> 0, of |-> <<>>]
NSNull == [is |-> "NSNull", id |-> 0, of |-> <<>>]
Object(n) == [is |-> "object", id |-> n, of |-> <<>>]

\* tupleWithObjectsFromArray: of the objects of an array, nulls included
tupleWithObjectsFromArray(array) == [is |-> "tuple", id |-> 0, of |-> array]

\* convertNullsToNils: YES
tupleWithNullsConverted(array) ==
  tupleWithObjectsFromArray(
    [i \in 1 .. Len(array) |-> IF array[i] = NSNull THEN tupleNil ELSE array[i]])

object_or_ractuplenil(index, arg) == IF arg = nil THEN tupleNil ELSE arg
RACTuplePack(args) ==
  LET given == metamacro_foreach("object_or_ractuplenil", args)
  IN  tupleWithObjectsFromArray(
        [i \in DOMAIN given |-> object_or_ractuplenil(given[i][1], given[i][2])])

Count(tuple) == Len(tuple.of)

\* NSUInteger; the code has 2^64
IndexModulus == 65536

objectAtIndex(tuple, index) ==
  IF index >= Count(tuple) \/ tuple.of[index + 1] = tupleNil THEN nil ELSE tuple.of[index + 1]

\* The index of the last object of an empty tuple wraps round, past every object.
First(tuple) == objectAtIndex(tuple, 0)
LastOf(tuple) == objectAtIndex(tuple, (Count(tuple) - 1) % IndexModulus)

allObjects(tuple) ==
  [i \in 1 .. Count(tuple) |-> IF tuple.of[i] = tupleNil THEN NSNull ELSE tuple.of[i]]

tupleByAddingObject(tuple, object) ==
  tupleWithObjectsFromArray(Append(tuple.of, IF object = nil THEN tupleNil ELSE object))

-----------------------------------------------------------------------------
(* What RACTuple.h says of an index past the end, of an empty tuple, and of *)
(* nil and NSNull, over arrays of up to three objects.                      *)

Arrays == UNION {[1 .. n -> {Object(1), tupleNil, NSNull}] : n \in 0 .. 3}

ASSUME TupleAssumption ==
  \A array \in Arrays :
    LET tuple == tupleWithObjectsFromArray(array) IN
    /\ \A i \in 0 .. 5 :
         objectAtIndex(tuple, i) = nil <=> i >= Len(array) \/ array[i + 1] = tupleNil
    /\ LastOf(tuple) = (IF array = <<>> THEN nil ELSE objectAtIndex(tuple, Len(array) - 1))
    /\ LastOf(tupleByAddingObject(tuple, nil)) = nil
    /\ (\A i \in 1 .. Len(array) : array[i] # NSNull)
         => tupleWithNullsConverted(allObjects(tuple)) = tuple
=============================================================================
