---------------------------- MODULE Arrangement ----------------------------
(***************************************************************************)
(* Sorting and filtering, as the program does them with sorted(), ORDER BY *)
(* and list comprehensions.  An order is a set of pairs <<a, b>>, "a comes *)
(* before b": an element's place is one more than the number of those that *)
(* come before it, and the laws of an arrangement follow from those of     *)
(* finite sets, without an induction.                                      *)
(***************************************************************************)
EXTENDS Integers, Sequences, FiniteSets

Before(D, ahead, d) == {c \in D : <<c, d>> \in ahead}

(* The elements of D, first to last.                                       *)
InOrder(D, ahead) ==
    [n \in 1..Cardinality(D) |-> CHOOSE d \in D : Cardinality(Before(D, ahead, d)) = n - 1]

(* The numbers of I, least to greatest.                                    *)
Ascending(I) == InOrder(I, {o \in I \X I : o[1] < o[2]})

(* The elements of s at the places in I, in the order they have there.     *)
Chosen(s, I) == LET at == Ascending(I) IN [n \in DOMAIN at |-> s[at[n]]]

(* The elements of s in an order of their places.                          *)
Arranged(s, ahead) == LET at == InOrder(DOMAIN s, ahead) IN [n \in DOMAIN at |-> s[at[n]]]

=============================================================================
