-------------------------- MODULE MCTransactions --------------------------
(***************************************************************************)
(* Instances of the races between the chat process and the buttons of the  *)
(* back office.                                                            *)
(***************************************************************************)
EXTENDS Transactions

CONSTANTS o1, o2, s1, s2, c1, chat, operator

OneCustomer == [o \in {o1, o2} |-> c1]

(* Two orders that name the same two SKUs in opposite orders.              *)
CrossedLines == [o \in Orders |-> IF o = o1 THEN <<s1, s2>> ELSE <<s2, s1>>]

TwoSkus == [s \in Skus |-> IF s = s1 THEN 1 ELSE 2]

LastUnits == [s \in Skus |-> 1]

(* The chat's turns against one operator who uses every button.            *)
OneOperator ==
  [w \in Workers |->
     IF w = chat THEN {"quote", "confirm", "cancel"}
                 ELSE {"create", "confirm", "cancel", "receive"}]

=============================================================================
