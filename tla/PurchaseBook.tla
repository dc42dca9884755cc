---------------------------- MODULE PurchaseBook ----------------------------
(***************************************************************************)
(* The purchasing book: the sourcing needs of the customer orders and the  *)
(* purchase orders they accumulate into (src/src/purchasing,               *)
(* src/src/sourcing/persistence.py).                                       *)
(*                                                                         *)
(* A book is a record                                                      *)
(*   needs[o][s]  the SourcingNeed row of order o for SKU s: the missing   *)
(*                quantity, the selected supplier, and the purchase-order  *)
(*                item it is linked to (po_item_id), named by the position *)
(*                of its purchase order among those of that supplier, 0    *)
(*                for NULL.  missing = 0 stands for the absence of a row.  *)
(*   pos[p]       the purchase orders of supplier p, oldest first, each    *)
(*                with one item per SKU: quantity[s] = 0 stands for the    *)
(*                absence of an item.                                      *)
(*                                                                         *)
(* Each operator gives the book a function of the program leaves behind;   *)
(* the conditions under which that function raises instead (and the        *)
(* transaction rolls back) are operators of their own.                     *)
(***************************************************************************)
EXTENDS Integers, Sequences, FiniteSets

CONSTANTS Orders, Skus, Suppliers, NoSupplier

POState == {"OPEN", "SENT", "PARTIALLY_RECEIVED", "FULLY_RECEIVED", "CANCELLED"}

PurchaseOrder ==
  [estado : POState, quantity : [Skus -> Nat], received : [Skus -> Nat]]

Need == [missing : Nat, supplier : Suppliers \cup {NoSupplier}, link : Nat]

NoNeed == [missing |-> 0, supplier |-> NoSupplier, link |-> 0]

NewPO == [estado |-> "OPEN", quantity |-> [s \in Skus |-> 0],
          received |-> [s \in Skus |-> 0]]

EmptyBook == [needs |-> [o \in Orders |-> [s \in Skus |-> NoNeed]],
              pos   |-> [p \in Suppliers |-> << >>]]

-----------------------------------------------------------------------------
(* Queries.                                                                *)

HasNeed(b, o, s) == b.needs[o][s].missing > 0

(* The needs whose po_item_id is the item for SKU s of purchase order n of *)
(* supplier p.                                                             *)
LinkedOrders(b, p, n, s) ==
  { o \in Orders : b.needs[o][s].supplier = p /\ b.needs[o][s].link = n }

Linked(b, o, s) == b.needs[o][s].link # 0

LinkedPO(b, o, s) == b.pos[b.needs[o][s].supplier][b.needs[o][s].link]

LinkedOpen(b, o, s) == Linked(b, o, s) /\ LinkedPO(b, o, s).estado = "OPEN"

(* Mutant: a purchase order already sent still accumulates.                *)
OpenOrSentPOs(b, p) ==
  { n \in DOMAIN b.pos[p] : b.pos[p][n].estado \in {"OPEN", "SENT"} }

OpenPOs(b, p) == { n \in DOMAIN b.pos[p] : b.pos[p][n].estado = "OPEN" }

-----------------------------------------------------------------------------
(* sourcing/persistence.py: an existing need keeps its supplier and link,  *)
(* its missing quantity is overwritten.                                    *)
UpsertNeed(b, o, s, quantity) ==
  [b EXCEPT !.needs[o][s].missing = quantity]

(* Mutant: always a new purchase order.                                    *)
CreatePO(b, p) == [b EXCEPT !.pos[p] = Append(@, NewPO)]

OpenOrCreatePO(b, p) ==
  IF OpenPOs(b, p) = {} THEN [b EXCEPT !.pos[p] = Append(@, NewPO)] ELSE b

(* The quantity an item keeps once the need's current missing quantity is  *)
(* taken off it; an item left at zero or below is deleted.                 *)
Remaining(b, o, s) ==
  LET left == LinkedPO(b, o, s).quantity[s] - b.needs[o][s].missing
  IN  IF left > 0 THEN left ELSE 0

DetachFromPreviousPO(b, o, s) ==
  IF LinkedOpen(b, o, s)
  THEN [b EXCEPT !.pos[b.needs[o][s].supplier][b.needs[o][s].link].quantity[s]
                    = Remaining(b, o, s),
                 !.needs[o][s].link = 0]
  ELSE b

(* Deleting an item that another need still references violates the        *)
(* foreign key sourcing_needs.po_item_id.                                  *)
DetachViolatesFK(b, o, s) ==
  /\ LinkedOpen(b, o, s)
  /\ Remaining(b, o, s) = 0
  /\ LinkedOrders(b, b.needs[o][s].supplier, b.needs[o][s].link, s) # {o}

(* The need already holds a selection, for another supplier.               *)
Reselected(b, o, s, p) == b.needs[o][s].supplier \notin {NoSupplier, p}

SelectionExecuted(b, o, s, p) ==
  /\ Reselected(b, o, s, p)
  /\ Linked(b, o, s)
  /\ LinkedPO(b, o, s).estado # "OPEN"

AccumulateRaises(b, o, s, p) ==
  \/ SelectionExecuted(b, o, s, p)
  \/ Reselected(b, o, s, p) /\ DetachViolatesFK(b, o, s)

AccumulateNeed(b, o, s, p) ==
  IF b.needs[o][s].supplier = p /\ Linked(b, o, s)
  THEN b
  ELSE LET d == IF Reselected(b, o, s, p) THEN DetachFromPreviousPO(b, o, s) ELSE b
           c == OpenOrCreatePO(d, p)
           n == CHOOSE n \in OpenPOs(c, p) : TRUE
       IN  [c EXCEPT !.pos[p][n].quantity[s] = @ + b.needs[o][s].missing,
                     !.needs[o][s].supplier = p,
                     !.needs[o][s].link = n]

(* Mutant: the whole item goes, the quantities of other orders included.   *)
LeftOfItems(b, o, p, n) ==
  [s \in Skus |-> IF o \in LinkedOrders(b, p, n, s) THEN 0 ELSE b.pos[p][n].quantity[s]]

(* What purchase order n of p keeps of each SKU without order o's needs.   *)
LeftOf(b, o, p, n) ==
  [s \in Skus |-> IF o \in LinkedOrders(b, p, n, s) THEN Remaining(b, o, s)
                  ELSE b.pos[p][n].quantity[s]]

(* Mutant: one emptied item cancels the shared purchase order.             *)
SomethingGone(b, o, p, n) == \E s \in Skus : o \in LinkedOrders(b, p, n, s)

NothingLeft(b, o, p, n) == \A s \in Skus : LeftOf(b, o, p, n)[s] = 0

(* Every need of the order is detached from its OPEN purchase order, and a *)
(* purchase order this leaves without items is cancelled.                  *)
ReleaseOrderNeeds(b, o) ==
  LET touched(p, n) == b.pos[p][n].estado = "OPEN" /\ \E s \in Skus : o \in LinkedOrders(b, p, n, s)
      released(p, n) ==
        [b.pos[p][n] EXCEPT
           !.quantity = LeftOf(b, o, p, n),
           !.estado = IF NothingLeft(b, o, p, n) THEN "CANCELLED" ELSE @]
  IN  [needs |-> [b.needs EXCEPT ![o] =
                    [s \in Skus |-> IF LinkedOpen(b, o, s)
                                    THEN [b.needs[o][s] EXCEPT !.link = 0]
                                    ELSE b.needs[o][s]]],
       pos |-> [p \in Suppliers |-> [n \in DOMAIN b.pos[p] |->
                  IF touched(p, n) THEN released(p, n) ELSE b.pos[p][n]]]]

ReleaseRaises(b, o) == \E s \in Skus : DetachViolatesFK(b, o, s)

-----------------------------------------------------------------------------
(* purchasing/state.py: the purchase order's own state machine.            *)

CanSend(b, p, n) == b.pos[p][n].estado = "OPEN"

SendPO(b, p, n) == [b EXCEPT !.pos[p][n].estado = "SENT"]

CanCancel(b, p, n) == b.pos[p][n].estado \in {"OPEN", "SENT"}

(* Mutant: the state's name is spelled as for the orders.                  *)
CancelPOMisspelt(b, p, n) == [b EXCEPT !.pos[p][n].estado = "CANCELED"]

CancelPO(b, p, n) == [b EXCEPT !.pos[p][n].estado = "CANCELLED"]

(* Mutant: one receipt more than ordered.                                  *)
CanReceiveOneMore(b, p, n, s, quantity) ==
  /\ b.pos[p][n].estado \in {"SENT", "PARTIALLY_RECEIVED"}
  /\ b.pos[p][n].received[s] <= b.pos[p][n].quantity[s]

CanReceive(b, p, n, s, quantity) ==
  /\ b.pos[p][n].estado \in {"SENT", "PARTIALLY_RECEIVED"}
  /\ b.pos[p][n].received[s] + quantity <= b.pos[p][n].quantity[s]

ReceivePO(b, p, n, s, quantity) ==
  LET received == [b.pos[p][n].received EXCEPT ![s] = @ + quantity]
      complete == \A t \in Skus : received[t] >= b.pos[p][n].quantity[t]
  IN  [b EXCEPT !.pos[p][n].received = received,
                !.pos[p][n].estado =
                   IF complete THEN "FULLY_RECEIVED" ELSE "PARTIALLY_RECEIVED"]

=============================================================================
