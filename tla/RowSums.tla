------------------------------ MODULE RowSums ------------------------------
(***************************************************************************)
(* SUM(cantidad) over a set of table rows, the aggregate every stock query *)
(* of the program uses (func.sum(StockReservation.cantidad) and the loops  *)
(* that add up order lines).                                               *)
(*                                                                         *)
(* A row of quantity n stands for n units, and the sum is the number of    *)
(* units.  Written as a cardinality rather than as a fold, its laws follow *)
(* from those of finite sets, without an induction (RowSums_proofs).       *)
(***************************************************************************)
EXTENDS Integers, FiniteSets

Units(rows) == UNION { {r} \X (1 .. r.cantidad) : r \in rows }

Quantity(rows) == Cardinality(Units(rows))

OfOrder(rows, o) == { r \in rows : r.order = o }

OfSku(rows, s) == { r \in rows : r.sku = s }

=============================================================================
