----------------------------- MODULE StockLedger -----------------------------
(***************************************************************************)
(* What the stock side of the program promises, whatever the orders do.    *)
(*                                                                         *)
(* The state is the part of the database that stock is computed from:      *)
(*   onHand     Inventory.quantity_on_hand                                 *)
(*   active     the StockReservation rows in estado ACTIVE (soft-locks)    *)
(*   converted  the rows in estado CONVERTED (deducted stock)              *)
(*   lapsed     the orders whose quote is past its TTL.  The reservations  *)
(*              of a quote are inserted by one transaction, so they carry  *)
(*              one timestamp and one ttl_minutes and lapse together       *)
(* and two history variables, which no handler reads:                      *)
(*   supplied   what entered the shelf, less what was written off it       *)
(*   shrunk     what the owner wrote off by hand                           *)
(* A RELEASED or EXPIRED row is read by no handler: it leaves the state.   *)
(*                                                                         *)
(* The promise: every operation on an order settles that order's rows      *)
(* against onHand to the unit, touches no other order's rows, and locks no *)
(* more than is available.  OrderLifecycle is the detailed specification   *)
(* that implements it.                                                     *)
(***************************************************************************)
EXTENDS RowSums

CONSTANTS Orders, Skus

VARIABLES onHand, active, converted, lapsed, supplied, shrunk

ledgerVars == << onHand, active, converted, lapsed, supplied, shrunk >>

(* A reservation row; line tells apart the rows of two lines of one SKU.   *)
Reservation == [order : Orders, sku : Skus, line : Nat, cantidad : Nat]

LedgerTypeOK ==
  /\ onHand \in [Skus -> Int]
  /\ active \subseteq Reservation /\ IsFiniteSet(active)
  /\ converted \subseteq Reservation /\ IsFiniteSet(converted)
  /\ lapsed \subseteq Orders
  /\ supplied \in [Skus -> Int]
  /\ shrunk \in [Skus -> Nat]

-----------------------------------------------------------------------------

(* The soft-locks that count against a SKU: ACTIVE and within their TTL.   *)
LiveLocks(s) == { r \in active : r.sku = s /\ r.order \notin lapsed }

Available(s) == onHand[s] - Quantity(LiveLocks(s))

Deducted(o, s) == Quantity(OfSku(OfOrder(converted, o), s))

-----------------------------------------------------------------------------

LedgerInit ==
  /\ onHand \in [Skus -> Nat]
  /\ active = {} /\ converted = {}
  /\ lapsed = {}
  /\ supplied = onHand
  /\ shrunk = [s \in Skus |-> 0]

(* An operation on order o: its own rows change, the stock moves by what   *)
(* was newly deducted or given back, and no SKU is locked beyond what is   *)
(* available.                                                              *)
Settle(o) ==
  /\ active' \subseteq Reservation /\ IsFiniteSet(active')
  /\ converted' \subseteq Reservation /\ IsFiniteSet(converted')
  /\ \A r \in active \cup active' : r.order # o => (r \in active <=> r \in active')
  /\ \A r \in converted \cup converted' :
       r.order # o => (r \in converted <=> r \in converted')
  /\ onHand' = [s \in Skus |-> onHand[s] + Deducted(o, s) - Deducted(o, s)']
  /\ \A s \in Skus : Available(s)' >= 0 \/ Available(s)' >= Available(s)
  /\ UNCHANGED << lapsed, supplied, shrunk >>

(* The clock: the TTL of order o's quote runs out.                         *)
Lapse(o) ==
  /\ o \notin lapsed
  /\ OfOrder(active, o) # {}
  /\ lapsed' = lapsed \cup {o}
  /\ UNCHANGED << onHand, active, converted, supplied, shrunk >>

(* Lapsed soft-locks are made EXPIRED.                                     *)
Expire ==
  /\ active' = { r \in active : r.order \notin lapsed }
  /\ UNCHANGED << onHand, converted, lapsed, supplied, shrunk >>

(* Goods arrive, or a count corrects the stock upwards.                    *)
Restock(s) ==
  LET n == onHand'[s] - onHand[s]
  IN  /\ n \in Nat \ {0}
      /\ onHand' = [onHand EXCEPT ![s] = @ + n]
      /\ supplied' = [supplied EXCEPT ![s] = @ + n]
      /\ UNCHANGED << active, converted, lapsed, shrunk >>

(* The owner writes stock off: nothing protects the soft-locks from that.  *)
WriteOff(s) ==
  LET n == onHand[s] - onHand'[s]
  IN  /\ n \in Nat \ {0}
      /\ onHand' = [onHand EXCEPT ![s] = @ - n]
      /\ supplied' = [supplied EXCEPT ![s] = @ - n]
      /\ shrunk' = [shrunk EXCEPT ![s] = @ + n]
      /\ UNCHANGED << active, converted, lapsed >>

LedgerNext ==
  \/ \E o \in Orders : Settle(o) \/ Lapse(o)
  \/ Expire
  \/ \E s \in Skus : Restock(s) \/ WriteOff(s)

LedgerSpec == LedgerInit /\ [][LedgerNext]_ledgerVars

-----------------------------------------------------------------------------

(* Every unit that entered is on the shelf or deducted for an order: no    *)
(* confirm, modify, cancel or receipt loses a unit or counts one twice     *)
(* (_deduct_stock, _restore_converted_stock, receive_po).                  *)
StockConserved ==
  \A s \in Skus : onHand[s] + Quantity(OfSku(converted, s)) = supplied[s]

(* Soft-locks exceed the shelf by no more than the owner wrote off by hand *)
(* (update_stock and adjust_stock_by_barcode ignore reservations): the     *)
(* orders never lock or deduct the same unit twice (reserve_stock, the     *)
(* re-reservation of _reconcile_reservations, _deduct_stock).              *)
OversoldOnlyByWriteOff ==
  \A s \in Skus : Available(s) + shrunk[s] >= 0

=============================================================================
