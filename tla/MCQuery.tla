------------------------------ MODULE MCQuery ------------------------------
(***************************************************************************)
(* One query while one upload replaces a supplier's list, or adds another   *)
(* supplier's beside it: the new list keeps one code of the old one, drops *)
(* another and adds two.  The codes score below, at and above the          *)
(* threshold.                                                              *)
(***************************************************************************)
EXTENDS CatalogQuery, TLC

CONSTANTS j1, q1, p1, p2, general, oldList, newList, undeclared, w, x, y, z, noCode,
          nothing, sample

Line(code) == [orig |-> code, name |-> code, priced |-> TRUE, soldOut |-> FALSE]

OldAndNew == (oldList :> << <<Line(x), Line(y)>> >>) @@ (newList :> << <<Line(x), Line(z)>>, <<Line(w)>> >>)

Indexed == {[pdf |-> oldList, prov |-> p1, doc |-> general]}

Form(p, incremental) == [pdf |-> newList, prov |-> p, doc |-> general, incremental |-> incremental]
ReplacementOrOther == {Form(p1, FALSE), Form(p2, TRUE)}

Scores == (w :> 4) @@ (x :> 3) @@ (y :> 5) @@ (z :> 2) @@ (sample :> 3)

=============================================================================
