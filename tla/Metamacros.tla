------------------------------ MODULE Metamacros ------------------------------
(***************************************************************************)
(* The preprocessor macros of extobjc (RACmetamacros.h) that tuples, key   *)
(* paths and the weak-self macros of ReactiveCocoa are built from.  A list *)
(* of macro arguments is a sequence.  Each macro stands on a table of 21   *)
(* rows, for 0 to 20, of which most refer to the row before; row[n] is the *)
(* row for n.  A macro that expands another one for each argument is the   *)
(* sequence of what it passes to it; what comes between the expansions is  *)
(* left out.                                                               *)
(***************************************************************************)
EXTENDS Integers, Sequences

\* The tables end at twenty.
Limit == 20

metamacro_head(args) == Head(Append(args, 0))
metamacro_tail(args) == Tail(args)

\* Row n takes n arguments off and is the head of the rest.
metamacro_at(n, args) == args[n + 1]

\* The arguments push a list that counts down to the right, so the one they push
\* into place 20 is their number.
CountDown == [i \in 1 .. Limit |-> Limit + 1 - i]
metamacro_argcount(args) == metamacro_at(Limit, args \o CountDown)

metamacro_foreach_cxt(context, args) ==
  LET row[n \in 0 .. Limit] ==
        IF n = 0 THEN <<>> ELSE Append(row[n - 1], <<n - 1, context, args[n]>>)
  IN  row[metamacro_argcount(args)]

\* The same table again, for use inside an expansion of the first.
metamacro_foreach_cxt_recursive(context, args) == metamacro_foreach_cxt(context, args)

\* The macro is the context of metamacro_foreach_iter, which drops it.
metamacro_foreach(MACRO, args) ==
  LET iter == metamacro_foreach_cxt(MACRO, args)
  IN  [i \in DOMAIN iter |-> <<iter[i][1], iter[i][3]>>]

metamacro_for_cxt(count, context) ==
  LET row[n \in 0 .. Limit] ==
        IF n = 0 THEN <<>> ELSE Append(row[n - 1], <<n - 1, context>>)
  IN  row[count]

metamacro_dec(val) == metamacro_at(val, [i \in 1 .. Limit + 1 |-> i - 2])
metamacro_inc(val) == metamacro_at(val, [i \in 1 .. Limit + 1 |-> i])
metamacro_is_even(n) == metamacro_at(n, [i \in 1 .. Limit + 1 |-> i % 2])
metamacro_not(b) == metamacro_at(b, <<1, 0>>)

\* Which of the two argument lists that follow is expanded.  Both numbers count
\* down together; the tables have no row for a number below zero.
metamacro_if_eq(a, b) ==
  LET row[n \in 0 .. Limit, val \in -1 .. Limit] ==
        IF val = -1 THEN "no macro"
        ELSE IF n > 0 THEN row[n - 1, metamacro_dec(val)]
        ELSE IF val = 0 THEN "first" ELSE "second"
  IN  row[a, b]
metamacro_if_eq_recursive(a, b) == metamacro_if_eq(a, b)

metamacro_drop(n, args) ==
  LET row[i \in 0 .. Limit] == IF i = 0 THEN args ELSE metamacro_tail(row[i - 1])
  IN  row[n]
metamacro_take(n, args) ==
  LET row[i \in 0 .. Limit] ==
        IF i = 0 THEN <<>>
        ELSE Append(row[i - 1], metamacro_head(metamacro_drop(i - 1, args)))
  IN  row[n]

-----------------------------------------------------------------------------
(* Every macro over the whole range its comment allows, against what the    *)
(* comment says it returns.                                                 *)

Arguments(n) == [i \in 1 .. n |-> 100 + i]

ASSUME MetamacrosAssumption ==
  /\ \A n \in 1 .. Limit :
       /\ metamacro_argcount(Arguments(n)) = n
       /\ metamacro_foreach_cxt("context", Arguments(n))
            = [i \in 1 .. n |-> <<i - 1, "context", 100 + i>>]
       /\ metamacro_foreach("macro", Arguments(n)) = [i \in 1 .. n |-> <<i - 1, 100 + i>>]
       /\ \A i \in 0 .. n - 1 : metamacro_at(i, Arguments(n)) = 101 + i
       /\ \A i \in 0 .. n : Arguments(n) = metamacro_take(i, Arguments(n))
                                             \o metamacro_drop(i, Arguments(n))
  /\ \A n \in 0 .. Limit :
       /\ metamacro_for_cxt(n, "context") = [i \in 1 .. n |-> <<i - 1, "context">>]
       /\ metamacro_inc(n) = n + 1 /\ metamacro_dec(n) = n - 1
       /\ metamacro_is_even(n) = (n + 1) % 2
       /\ \A a \in 0 .. n : metamacro_if_eq(a, n) = IF a = n THEN "first" ELSE "second"
  /\ \A b \in {0, 1} : metamacro_not(b) = 1 - b
=============================================================================
