---------------------------- MODULE Transactions ----------------------------
(***************************************************************************)
(* What OrderLifecycle takes as one step is a PostgreSQL transaction of    *)
(* several statements at READ COMMITTED: a statement sees what is          *)
(* committed and the writes of its own transaction, an UPDATE locks its    *)
(* row until the transaction ends, and the ORM writes the absolute value   *)
(* it computed from an earlier read.  This module interleaves the          *)
(* statements of the operations that touch stock.                          *)
(*                                                                         *)
(* A worker serves one request at a time: the chat process, whose handlers *)
(* block its event loop (pipeline.py), or one button of the back office,   *)
(* whose page runs a button's callback once at a time.  An order's lines   *)
(* are LOCAL and ask for one unit each; locks do not lapse, and of buying   *)
(* what is missing only the needs are here.  OrderLifecycle has the rest.  *)
(***************************************************************************)
EXTENDS Integers, FiniteSets, Sequences, Functions

CONSTANTS
  Orders,
  Skus,
  CustomerOf,     \* [Orders -> customers]
  Lines,          \* the SKUs an order asks for, in the order of its items
  KeyOrder,       \* the SKUs' places in primary-key order, in which a flush updates
  OpeningStock,   \* [Skus -> Nat]
  Workers,
  Duties,         \* what each worker serves
  NoOrder, NoSku,
  MaxReceived,    \* bound: units received
  MaxSheetRows,   \* bound: rows after which an order is not confirmed again
  MaxCrashes      \* bound: requests that die half way

ASSUME TransactionAssumption ==
  /\ Lines \in [Orders -> Seq(Skus)]
  /\ \A o \in Orders : IsInjective(Lines[o])
  /\ IsFiniteSet(Orders)
  /\ KeyOrder \in [Skus -> Nat] /\ IsInjective(KeyOrder)
  /\ OpeningStock \in [Skus -> Nat]
  /\ NoOrder \notin Orders /\ NoSku \notin Skus
  /\ \A w \in Workers :
       Duties[w] \subseteq {"quote", "create", "confirm", "cancel", "receive"}

VARIABLES
  estado,      \* orders.estado as committed, "NONE" before the insert
  reservations,\* an order's rows, in the order of their ids
  onHand,      \* inventory.quantity_on_hand as committed
  received,    \* units that came in
  needs,       \* an order's sourcing needs as committed: the SKUs it waits for
  sheetRows,   \* rows appended to the spreadsheet for the order
  txn,         \* what each worker's transaction has read, written and locked
  crashes

vars == <<estado, reservations, onHand, received, needs, sheetRows, txn, crashes>>

OrderEstado == {"NONE", "DRAFT", "CONFIRMED", "CANCELED"}
ReservationEstado == {"ACTIVE", "CONVERTED", "RELEASED"}

Row == [table : {"drafts"}, key : {CustomerOf[o] : o \in Orders}]
         \cup [table : {"orders", "reservations"}, key : Orders]
         \cup [table : {"inventory"}, key : Skus]
RowOf(table, key) == [table |-> table, key |-> key]

(***************************************************************************)
(* A transaction: the statement it is at; the lines it has still to        *)
(* reserve; the rows its flush has still to lock; the rows it holds; the   *)
(* ids of the reservations it read as ACTIVE; the SKUs it has reserved     *)
(* itself; the stock it read; the SKUs it found missing and for sale; and  *)
(* the estado it will leave the order in.                                  *)
(***************************************************************************)
Transaction ==
  [duty : {"none", "quote", "create", "confirm", "cancel", "receive"},
   pc : {"idle", "insert", "reserve", "transition", "classify", "reconcile", "deduct",
         "release", "flush"},
   order : Orders \cup {NoOrder}, sku : Skus \cup {NoSku},
   todo : SUBSET Nat, want : SUBSET Row, held : SUBSET Row, rows : SUBSET Nat,
   mine : Seq(Skus), stock : [Skus -> Int], short : SUBSET Skus, becomes : OrderEstado]

Idle == [duty |-> "none", pc |-> "idle", order |-> NoOrder, sku |-> NoSku,
         todo |-> {}, want |-> {}, held |-> {}, rows |-> {}, mine |-> <<>>,
         stock |-> OpeningStock, short |-> {}, becomes |-> "NONE"]

Init ==
  /\ estado = [o \in Orders |-> "NONE"]
  /\ reservations = [o \in Orders |-> <<>>]
  /\ onHand = OpeningStock
  /\ received = [s \in Skus |-> 0]
  /\ needs = [o \in Orders |-> {}]
  /\ sheetRows = [o \in Orders |-> 0]
  /\ txn = [w \in Workers |-> Idle]
  /\ crashes = 0

Rollback(w) == txn' = [txn EXCEPT ![w] = Idle]
Held(w, row) == txn[w].held \cup {row}
Free(w, row) == \A v \in Workers \ {w} : row \notin txn[v].held

Drafts(c) == {o \in Orders : CustomerOf[o] = c /\ estado[o] = "DRAFT"}
IsActive(o, i) == reservations[o][i].estado = "ACTIVE"
ActiveRows(o) == {i \in DOMAIN reservations[o] : IsActive(o, i)}
ActiveRowsOf(s) ==
  UNION {{<<o, i>> : i \in {j \in ActiveRows(o) : reservations[o][j].sku = s}} : o \in Orders}
ActiveSkus(o) == {reservations[o][i].sku : i \in ActiveRows(o)}

(* What a SELECT of this transaction finds available: its own uncommitted  *)
(* locks count, those of other transactions do not.                        *)
AvailableStock(w, s) ==
  onHand[s] - Cardinality(ActiveRowsOf(s))
    - Cardinality({i \in DOMAIN txn[w].mine : txn[w].mine[i] = s})

(***************************************************************************)
(* Drafts.  The application looks for a draft of the customer first; the   *)
(* partial unique index makes the INSERT wait for a concurrent one and     *)
(* fail once that has committed.                                           *)
(***************************************************************************)
StartDraft(w, duty, o) ==
  /\ txn[w] = Idle /\ duty \in Duties[w] \cap {"quote", "create"}
  /\ estado[o] = "NONE" /\ \A v \in Workers : txn[v].order # o
  /\ Drafts(CustomerOf[o]) = {}
  /\ txn' = [txn EXCEPT ![w].duty = duty, ![w].pc = "insert", ![w].order = o,
                        ![w].becomes = "DRAFT"]

Quoted(w) == IF txn[w].duty = "quote" THEN DOMAIN Lines[txn[w].order] ELSE {}

(* Mutant: no unique index behind the application's guard.                 *)
InsertOrderUnindexed(w) ==
  /\ txn[w].pc = "insert"
  /\ txn' = [txn EXCEPT ![w].pc = "reserve", ![w].todo = Quoted(w)]

InsertOrder(w) ==
  LET o == txn[w].order  c == CustomerOf[o]
      key == RowOf("drafts", c)
  IN /\ txn[w].pc = "insert"
     /\ Free(w, key) /\ \A d \in Drafts(c) : Free(w, RowOf("orders", d))
     /\ IF Drafts(c) # {}
          THEN Rollback(w)
          ELSE txn' = [txn EXCEPT ![w].held = Held(w, key), ![w].pc = "reserve",
                                  ![w].todo = Quoted(w)]

(***************************************************************************)
(* reserve_stock: SELECT ... FOR UPDATE on the inventory row, then the     *)
(* availability, then the INSERT.  A quote skips the line it cannot lock;  *)
(* a confirmation fails.                                                   *)
(***************************************************************************)
(* Mutant: a plain SELECT, and the availability read before it.            *)
ReserveStockUnlocked(w) ==
  \E i \in txn[w].todo :
    /\ txn[w].pc = "reserve" /\ \A j \in txn[w].todo : i <= j
    /\ AvailableStock(w, Lines[txn[w].order][i]) >= 1
    /\ txn' = [txn EXCEPT ![w].todo = @ \ {i},
                          ![w].mine = Append(@, Lines[txn[w].order][i])]

ReserveStock(w) ==
  \E i \in txn[w].todo :
    LET s == Lines[txn[w].order][i]  row == RowOf("inventory", s)
    IN /\ txn[w].pc = "reserve" /\ \A j \in txn[w].todo : i <= j
       /\ Free(w, row)
       /\ \/ /\ AvailableStock(w, s) >= 1
             /\ txn' = [txn EXCEPT ![w].todo = @ \ {i}, ![w].held = Held(w, row),
                                   ![w].mine = Append(@, s)]
          \/ /\ AvailableStock(w, s) < 1 /\ txn[w].duty = "quote"
             /\ txn' = [txn EXCEPT ![w].todo = @ \ {i}, ![w].held = Held(w, row)]
          \/ AvailableStock(w, s) < 1 /\ txn[w].duty = "confirm" /\ Rollback(w)

Reserved(w) == txn[w].pc = "reserve" /\ txn[w].todo = {}

(***************************************************************************)
(* The confirm ceremony.                                                   *)
(***************************************************************************)
StartConfirm(w, o) ==
  /\ txn[w] = Idle /\ "confirm" \in Duties[w]
  /\ estado[o] = "DRAFT" /\ sheetRows[o] < MaxSheetRows
  /\ txn' = [txn EXCEPT ![w].duty = "confirm", ![w].pc = "transition", ![w].order = o,
                        ![w].becomes = "CONFIRMED"]

ConfirmOrder(w) ==
  LET row == RowOf("orders", txn[w].order)
  IN /\ txn[w].pc = "transition"
     /\ Free(w, row)
     /\ txn' = [txn EXCEPT ![w].held = Held(w, row), ![w].pc = "classify"]

(* A SKU the order has no lock on and cannot lock is missing.  With full   *)
(* stock (Case A) the locks are reconciled; where suppliers sell all that  *)
(* is missing (Case B) the order is committed with its needs, and the      *)
(* locks it has stay as they are; else it is cancelled (Case C).           *)
Missing(w) ==
  LET o == txn[w].order
      own(s) == Cardinality({i \in ActiveRows(o) : reservations[o][i].sku = s})
  IN {s \in Range(Lines[o]) : AvailableStock(w, s) + own(s) < 1}

Classify(w) ==
  /\ txn[w].pc = "classify"
  /\ \/ Missing(w) = {} /\ txn' = [txn EXCEPT ![w].pc = "reconcile"]
     \/ Missing(w) # {} /\ txn' = [txn EXCEPT ![w].pc = "flush", ![w].short = Missing(w)]
     \/ Missing(w) # {} /\ txn' = [txn EXCEPT ![w].pc = "release"]

ReconcileReservations(w) ==
  LET o == txn[w].order
      unlocked == {i \in DOMAIN Lines[o] : Lines[o][i] \notin ActiveSkus(o)}
  IN /\ txn[w].pc = "reconcile"
     /\ txn' = [txn EXCEPT ![w].pc = "reserve", ![w].todo = unlocked]

(* Mutant: only the locks this confirmation took itself are converted.     *)
RegisterOwnLocks(w) ==
  /\ Reserved(w) /\ txn[w].duty = "confirm"
  /\ sheetRows' = [sheetRows EXCEPT ![txn[w].order] = @ + 1]
  /\ txn' = [txn EXCEPT ![w].pc = "deduct"]

(* The ACTIVE rows are read and converted, and the spreadsheet row is      *)
(* appended by a call to the service, before anything is committed.        *)
Register(w) ==
  LET o == txn[w].order
  IN /\ Reserved(w) /\ txn[w].duty = "confirm"
     /\ sheetRows' = [sheetRows EXCEPT ![o] = @ + 1]
     /\ txn' = [txn EXCEPT ![w].pc = "deduct", ![w].rows = ActiveRows(o)]

SkusTaken(w) ==
  {reservations[txn[w].order][i].sku : i \in txn[w].rows} \cup Range(txn[w].mine)
RowsLock(w, rows) == IF rows = {} THEN {} ELSE {RowOf("reservations", txn[w].order)}

(* _deduct_stock reads the inventory rows that the flush will write.       *)
DeductStock(w) ==
  /\ txn[w].pc = "deduct"
  /\ txn' = [txn EXCEPT ![w].pc = "flush", ![w].stock = onHand,
                        ![w].want = RowsLock(w, txn[w].rows)
                                      \cup {RowOf("inventory", s) : s \in SkusTaken(w)}]

(***************************************************************************)
(* cancel_order, on its own or as a confirmation's Case C.                 *)
(***************************************************************************)
StartCancel(w, o) ==
  /\ txn[w] = Idle /\ "cancel" \in Duties[w]
  /\ estado[o] \in {"DRAFT", "CONFIRMED"}
  /\ txn' = [txn EXCEPT ![w].duty = "cancel", ![w].pc = "release", ![w].order = o]

ReleaseActiveReservations(w) ==
  LET rows == ActiveRows(txn[w].order)
  IN /\ txn[w].pc = "release"
     /\ txn' = [txn EXCEPT ![w].pc = "flush", ![w].becomes = "CANCELED", ![w].rows = rows,
                           ![w].want = RowsLock(w, rows)
                                         \cup {RowOf("orders", txn[w].order)}]

(* A receipt, a count or a barcode adjustment: read, add, write.           *)
StartReceive(w, s) ==
  /\ txn[w] = Idle /\ "receive" \in Duties[w]
  /\ FoldFunction(+, 0, received) < MaxReceived
  /\ txn' = [txn EXCEPT ![w].duty = "receive", ![w].pc = "flush", ![w].sku = s,
                        ![w].stock = onHand, ![w].want = {RowOf("inventory", s)}]

(***************************************************************************)
(* The flush takes its row locks one by one, a table at a time and by      *)
(* primary key; the commit publishes what the transaction wrote, by row id *)
(* and by value, whatever the rows hold now.                               *)
(***************************************************************************)
Before(row, other) ==
  \/ row = other
  \/ row.table = "reservations"
  \/ row.table = "inventory" /\ other.table = "inventory"
       /\ KeyOrder[row.key] < KeyOrder[other.key]

Flush(w) ==
  \E row \in txn[w].want :
    /\ txn[w].pc = "flush" /\ \A other \in txn[w].want : Before(row, other)
    /\ Free(w, row)
    /\ txn' = [txn EXCEPT ![w].held = Held(w, row), ![w].want = @ \ {row}]

(* Mutant: a cancellation marks the locks as the sweeper does.             *)
LeavesRowsExpired == [DRAFT |-> "ACTIVE", CONFIRMED |-> "CONVERTED", CANCELED |-> "EXPIRED"]
LeavesRows == [DRAFT |-> "ACTIVE", CONFIRMED |-> "CONVERTED", CANCELED |-> "RELEASED"]

RowsWritten(w) ==
  LET t == txn[w]  left == LeavesRows[t.becomes]  old == reservations[t.order]
  IN [i \in DOMAIN old |-> IF i \in t.rows THEN [old[i] EXCEPT !.estado = left] ELSE old[i]]
       \o [i \in DOMAIN t.mine |-> [sku |-> t.mine[i], estado |-> left]]

UnitsTaken(w, s) ==
  Cardinality({i \in txn[w].rows : reservations[txn[w].order][i].sku = s})
    + Cardinality({i \in DOMAIN txn[w].mine : txn[w].mine[i] = s})

StockWritten(w) ==
  [s \in Skus |-> IF s \in SkusTaken(w) THEN txn[w].stock[s] - UnitsTaken(w, s) ELSE onHand[s]]

ReadyToCommit(w) ==
  \/ txn[w].pc = "flush" /\ txn[w].want = {}
  \/ Reserved(w) /\ txn[w].duty # "confirm"

CommitOrder(w) ==
  LET t == txn[w]
  IN /\ ReadyToCommit(w) /\ t.duty # "receive"
     /\ estado' = [estado EXCEPT ![t.order] = t.becomes]
     /\ reservations' = [reservations EXCEPT ![t.order] = RowsWritten(w)]
     /\ onHand' = IF t.becomes = "CONFIRMED" THEN StockWritten(w) ELSE onHand
     /\ needs' = [needs EXCEPT ![t.order] = @ \cup t.short]
     /\ Rollback(w)
     /\ UNCHANGED received

CommitReceipt(w) ==
  LET s == txn[w].sku
  IN /\ ReadyToCommit(w) /\ txn[w].duty = "receive"
     /\ onHand' = [onHand EXCEPT ![s] = txn[w].stock[s] + 1]
     /\ received' = [received EXCEPT ![s] = @ + 1]
     /\ Rollback(w)
     /\ UNCHANGED <<estado, reservations, needs>>

(***************************************************************************)
(* Waiting.  PostgreSQL aborts a transaction of every cycle of waits; a    *)
(* process or a connection that dies leaves its transaction rolled back.   *)
(***************************************************************************)
NextRows(w) ==
  LET t == txn[w]
  IN CASE t.pc = "insert" ->
            {RowOf("drafts", CustomerOf[t.order])}
              \cup {RowOf("orders", d) : d \in Drafts(CustomerOf[t.order])}
       [] t.pc = "transition" -> {RowOf("orders", t.order)}
       [] t.pc = "reserve" ->
            {RowOf("inventory", Lines[t.order][i]) :
               i \in {j \in t.todo : \A k \in t.todo : j <= k}}
       [] t.pc = "flush" -> {row \in t.want : \A other \in t.want : Before(row, other)}
       [] OTHER -> {}

WaitsFor(w, v) == w # v /\ NextRows(w) \cap txn[v].held # {}
Deadlocked(group) == group # {} /\ \A w \in group : \E v \in group : WaitsFor(w, v)

(* Mutant: deadlocks go unnoticed.                                         *)
DeadlockUnnoticed(w) == FALSE /\ Rollback(w)

DeadlockVictim(w) ==
  /\ \E group \in SUBSET Workers : w \in group /\ Deadlocked(group)
  /\ Rollback(w)

Crash(w) ==
  /\ txn[w] # Idle /\ crashes < MaxCrashes
  /\ crashes' = crashes + 1
  /\ Rollback(w)
  /\ UNCHANGED <<estado, reservations, onHand, received, needs, sheetRows>>

(***************************************************************************)
(* The next-state relation.                                                *)
(***************************************************************************)
Request(w) ==
  /\ \/ \E o \in Orders, duty \in {"quote", "create"} : StartDraft(w, duty, o)
     \/ \E o \in Orders : StartConfirm(w, o) \/ StartCancel(w, o)
     \/ \E s \in Skus : StartReceive(w, s)
  /\ UNCHANGED <<estado, reservations, onHand, received, needs, sheetRows, crashes>>

Statement(w) ==
  /\ \/ InsertOrder(w) \/ ReserveStock(w)
     \/ ConfirmOrder(w) \/ Classify(w) \/ ReconcileReservations(w) \/ DeductStock(w)
     \/ ReleaseActiveReservations(w) \/ Flush(w) \/ DeadlockVictim(w)
  /\ UNCHANGED <<estado, reservations, onHand, received, needs, sheetRows, crashes>>

Proceed(w) ==
  \/ Statement(w)
  \/ Register(w) /\ UNCHANGED <<estado, reservations, onHand, received, needs, crashes>>
  \/ (CommitOrder(w) \/ CommitReceipt(w)) /\ UNCHANGED <<sheetRows, crashes>>

Next == \E w \in Workers : Request(w) \/ Proceed(w) \/ Crash(w)

Spec == Init /\ [][Next]_vars

(* A request that has started is run to its end: the statements of a       *)
(* handler follow each other, and the database grants a row to those that  *)
(* wait for it in turn, so that one that becomes free over and over is     *)
(* granted in the end (strong fairness).  Nobody is obliged to press a     *)
(* button, and nothing is obliged to crash.                                *)
FairSpec == Spec /\ \A w \in Workers : SF_vars(Proceed(w))

(***************************************************************************)
(* Properties.                                                             *)
(***************************************************************************)

TypeOK ==
  /\ estado \in [Orders -> OrderEstado]
  /\ reservations \in [Orders -> Seq([sku : Skus, estado : ReservationEstado])]
  /\ onHand \in [Skus -> Int]
  /\ received \in [Skus -> Nat]
  /\ needs \in [Orders -> SUBSET Skus]
  /\ sheetRows \in [Orders -> Nat]
  /\ crashes \in Nat
  /\ txn \in [Workers -> Transaction]

(* No unit is locked twice: whenever a transaction adds locks on a SKU,    *)
(* all the locks of all orders on it are at most what is on hand then.     *)
(* The row lock of reserve_stock serializes quotes that race for the last  *)
(* unit (inventory.py, the TOCTOU the comment names).                      *)
NoDoubleBooking ==
  [][\A s \in Skus :
       Cardinality(ActiveRowsOf(s)') > Cardinality(ActiveRowsOf(s))
         => Cardinality(ActiveRowsOf(s)') <= onHand'[s]]_vars

(* Two sessions that both saw no draft of a customer never both commit     *)
(* one: the partial unique index backs the application's guard.            *)
OneCommittedDraft ==
  \A o, p \in Orders :
    CustomerOf[o] = CustomerOf[p] /\ estado[o] = "DRAFT" /\ estado[p] = "DRAFT" => o = p

(* Stock is held for a draft, or for a confirmed order that waits for a    *)
(* supplier of the rest (Case B), and then none of it was taken from the   *)
(* shelf.  Whichever of two overlapping decisions on one order commits     *)
(* last, each on rows it read before the other's commit, a confirmation    *)
(* with full stock and a cancellation leave no lock behind.                *)
HeldStockIsAwaited ==
  \A o \in Orders : ActiveRows(o) # {} =>
    /\ estado[o] = "DRAFT" \/ (estado[o] = "CONFIRMED" /\ needs[o] # {})
    /\ \A i \in DOMAIN reservations[o] : reservations[o][i].estado # "CONVERTED"

(* Whoever waits for a row gets it or is chosen as a deadlock's victim: a  *)
(* request once started comes to an end.                                   *)
RequestsEnd == \A w \in Workers : txn[w] # Idle ~> txn[w] = Idle

=============================================================================
