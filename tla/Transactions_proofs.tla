------------------------- MODULE Transactions_proofs -------------------------
(***************************************************************************)
(* The transactions of Transactions, for any number of workers, orders and *)
(* SKUs: no unit is locked twice, a customer has one committed draft, and  *)
(* what holds stock is a draft or an order that waits for a supplier.      *)
(*                                                                         *)
(* The invariant says, for every transaction, what it may rely on in the   *)
(* middle of its statements although others commit between them: because   *)
(* it holds a row, because nobody else knows its order, or because a lock  *)
(* that is no longer ACTIVE never is again.                                *)
(***************************************************************************)
EXTENDS Transactions, FiniteSetTheorems, SequenceTheorems, TLAPS

(* No two transactions hold one row.                                       *)
LocksExclusive ==
  \A v, w \in Workers : v # w => txn[v].held \cap txn[w].held = {}

Drafting(t) == t.duty \in {"quote", "create"}
Deciding(t) == t.duty \in {"confirm", "cancel"}

(* Nobody but w has heard of this order.                                   *)
OwnOrder(w, o) == \A v \in Workers \ {w} : txn[v].order # o

(* What a transaction that creates a draft knows of its order: it is not   *)
(* there yet, and once the customer's key of the unique index is held      *)
(* there is no other draft of the customer.                                *)
DraftingOK(w, t) ==
  Drafting(t) =>
    /\ t.order \in Orders /\ estado[t.order] = "NONE" /\ t.becomes = "DRAFT"
    /\ OwnOrder(w, t.order)
    /\ t.pc \in {"insert", "reserve"} /\ t.rows = {}
    /\ t.todo \subseteq DOMAIN Lines[t.order]
    /\ t.duty = "create" => t.todo = {}
    /\ t.pc = "reserve" =>
         /\ RowOf("drafts", CustomerOf[t.order]) \in t.held
         /\ Drafts(CustomerOf[t.order]) = {}

(* What one that confirms or cancels an order knows: the order exists, and *)
(* the rows it read cover the locks the order still has, unless the order  *)
(* is to wait for a supplier.                                              *)
DecidingOK(t) ==
  Deciding(t) =>
    /\ t.order \in Orders /\ estado[t.order] # "NONE"
    /\ t.pc \in (IF t.duty = "confirm"
                   THEN {"transition", "classify", "reconcile", "reserve", "deduct"}
                   ELSE {}) \cup {"release", "flush"}
    /\ t.todo \subseteq DOMAIN Lines[t.order]
    /\ t.rows \subseteq DOMAIN reservations[t.order]
    /\ t.duty = "confirm" => t.becomes \in {"CONFIRMED", "CANCELED"}
    /\ t.duty = "cancel" /\ t.pc = "flush" => t.becomes = "CANCELED"
    /\ t.pc \in {"deduct", "flush"} => ActiveRows(t.order) \subseteq t.rows \/ t.short # {}

(* The units of a SKU that a transaction has reserved itself.              *)
MineOf(t, s) == {i \in DOMAIN t.mine : t.mine[i] = s}

(* A quote holds the inventory row of every SKU it has reserved, and its   *)
(* units fit on the shelf beside the locks of all orders.                  *)
BookedOK(t) ==
  t.duty = "quote" =>
    \A s \in Skus : MineOf(t, s) # {} =>
      /\ RowOf("inventory", s) \in t.held
      /\ Cardinality(ActiveRowsOf(s)) + Cardinality(MineOf(t, s)) <= onHand[s]

(* Only a quote and a confirmation reserve.                                *)
MineOK(t) == t.duty \notin {"quote", "confirm"} => t.mine = <<>>

(* A confirmation that leaves the order waiting for a supplier has read no *)
(* row to convert and has reserved nothing: it read what was missing       *)
(* before it came to that.                                                 *)
ShortOK(t) ==
  /\ t.short # {} => t.duty = "confirm" /\ t.pc = "flush"
  /\ t.duty = "confirm" /\ (t.pc \in {"transition", "classify"} \/ t.short # {}) =>
       t.becomes = "CONFIRMED" /\ t.rows = {} /\ t.mine = <<>>

(* A transaction that writes stock locks the rows it writes first.         *)
WillHold(t, s) == RowOf("inventory", s) \in t.held \cup t.want
TakenBy(t) == {reservations[t.order][i].sku : i \in t.rows} \cup Range(t.mine)
FlushOK(t) ==
  /\ t.duty = "confirm" /\ t.pc = "flush" /\ t.becomes = "CONFIRMED"
       => \A s \in TakenBy(t) : WillHold(t, s)
  /\ t.duty = "receive" => t.sku \in Skus /\ t.pc = "flush" /\ WillHold(t, t.sku)

(* Where there is no duty there is no transaction.                         *)
DutyOK(t) == t.duty = "none" => t = Idle

TransactionOK(w, t) ==
  /\ DutyOK(t) /\ DraftingOK(w, t) /\ DecidingOK(t)
  /\ MineOK(t) /\ ShortOK(t) /\ BookedOK(t) /\ FlushOK(t)

(* An order that was never inserted has no rows.                           *)
NoRowsBefore == \A o \in Orders : estado[o] = "NONE" => reservations[o] = <<>>

TxInv ==
  /\ TypeOK
  /\ LocksExclusive
  /\ NoRowsBefore
  /\ HeldStockIsAwaited
  /\ OneCommittedDraft
  /\ \A w \in Workers : TransactionOK(w, txn[w])

-----------------------------------------------------------------------------
(* Facts about the constants and the records.                              *)
LEMMA IdleOK == Idle \in Transaction /\ \A w \in Workers : TransactionOK(w, Idle)
<1>1. Idle \in Transaction
  <2>1. OpeningStock \in [Skus -> Int]
    BY TransactionAssumption
  <2> QED BY <2>1 DEF Idle, Transaction, OrderEstado
<1>2. /\ DutyOK(Idle) /\ MineOK(Idle) /\ ShortOK(Idle)
      /\ BookedOK(Idle) /\ FlushOK(Idle) /\ DecidingOK(Idle)
  BY DEF Idle, DutyOK, MineOK, ShortOK, BookedOK, FlushOK, DecidingOK, Deciding
<1>3. \A w \in Workers : DraftingOK(w, Idle)
  BY DEF Idle, DraftingOK, Drafting
<1> QED BY <1>1, <1>2, <1>3 DEF TransactionOK

THEOREM Initially == Init => TxInv
<1> SUFFICES ASSUME Init PROVE TxInv
  OBVIOUS
<1> USE DEF Init
<1>1. TypeOK
  <2>1. <<>> \in Seq([sku : Skus, estado : ReservationEstado])
    OBVIOUS
  <2>2. onHand \in [Skus -> Int]
    BY TransactionAssumption
  <2> QED BY <2>1, <2>2, IdleOK DEF TypeOK, OrderEstado
<1>2. LocksExclusive
  BY DEF LocksExclusive, Idle
<1>3. NoRowsBefore /\ OneCommittedDraft
  BY DEF NoRowsBefore, OneCommittedDraft
<1>4. HeldStockIsAwaited
  BY DEF HeldStockIsAwaited, ActiveRows
<1>5. \A w \in Workers : TransactionOK(w, txn[w])
  BY IdleOK
<1> QED BY <1>1, <1>2, <1>3, <1>4, <1>5 DEF TxInv

-----------------------------------------------------------------------------
(* A step that publishes nothing: only the transaction of w changes, and   *)
(* the others know what they knew.                                         *)
Unpublished == UNCHANGED <<estado, reservations, onHand, received, needs>>
               /\ sheetRows' \in [Orders -> Nat] /\ crashes' \in Nat

Becomes(w, t) == txn' = [txn EXCEPT ![w] = t]

LEMMA LocalStep ==
  ASSUME TxInv, Unpublished, NEW w \in Workers, NEW t \in Transaction, Becomes(w, t),
         TransactionOK(w, t),
         \A v \in Workers \ {w} : t.held \cap txn[v].held = {},
         \A v \in Workers \ {w} : Drafting(txn[v]) => txn[v].order # t.order
  PROVE  TxInv'
<1> USE DEF Becomes
<1>1. txn \in [Workers -> Transaction] /\ txn' \in [Workers -> Transaction]
  BY DEF TxInv, TypeOK
<1>2. txn'[w] = t /\ \A v \in Workers \ {w} : txn'[v] = txn[v]
  BY <1>1
<1>3. TypeOK'
  BY <1>1 DEF TxInv, TypeOK, Unpublished
<1>4. LocksExclusive'
  BY <1>1, <1>2 DEF TxInv, LocksExclusive
<1>5. NoRowsBefore' /\ OneCommittedDraft'
  BY DEF TxInv, Unpublished, NoRowsBefore, OneCommittedDraft
<1>6. HeldStockIsAwaited'
  BY DEF TxInv, Unpublished, HeldStockIsAwaited, ActiveRows, IsActive
<1>7. ASSUME NEW v \in Workers PROVE TransactionOK(v, txn[v])'
  <2> DEFINE u == txn'[v]
  <2>1. /\ DutyOK(u) /\ MineOK(u) /\ ShortOK(u) /\ DecidingOK(u) /\ BookedOK(u)
        /\ FlushOK(u) /\ DraftingOK(v, u)
    BY <1>2 DEF TxInv, TransactionOK
  <2>2. (DutyOK(txn[v]))' /\ (MineOK(txn[v]) /\ ShortOK(txn[v]))'
    BY <2>1 DEF DutyOK, MineOK
  <2>3. (DecidingOK(txn[v]))'
    BY <2>1 DEF DecidingOK, Deciding, Unpublished, ActiveRows, IsActive
  <2>4. (BookedOK(txn[v]))'
    BY <2>1 DEF BookedOK, Unpublished, MineOf, ActiveRowsOf, ActiveRows, IsActive
  <2>5. (FlushOK(txn[v]))'
    BY <2>1 DEF FlushOK, Unpublished, TakenBy, WillHold
  <2>6. (DraftingOK(v, txn[v]))'
    <3>1. CASE v = w
      BY <2>1, <1>2, <3>1 DEF DraftingOK, Unpublished, Drafts, OwnOrder, Drafting
    <3>2. CASE v # w
      BY <2>1, <1>2, <3>2 DEF DraftingOK, Unpublished, Drafts, OwnOrder, Drafting
    <3> QED BY <3>1, <3>2
  <2> QED BY <2>2, <2>3, <2>4, <2>5, <2>6 DEF TransactionOK
<1> QED BY <1>3, <1>4, <1>5, <1>6, <1>7 DEF TxInv

-----------------------------------------------------------------------------
(* The actions that publish nothing, one by one.  What an invariant says   *)
(* of the transaction that takes the step:                                 *)
LEMMA TransactionFacts ==
  ASSUME TxInv, NEW w \in Workers
  PROVE  /\ txn[w] \in Transaction /\ TransactionOK(w, txn[w])
         /\ \A v \in Workers \ {w} :
              txn[v] \in Transaction /\ txn[v].held \cap txn[w].held = {}
         /\ \A v \in Workers \ {w} : Drafting(txn[v]) =>
              txn[v].order \in Orders /\ estado[txn[v].order] = "NONE"
              /\ txn[v].order # txn[w].order
<1>1. /\ txn[w] \in Transaction /\ TransactionOK(w, txn[w])
      /\ \A v \in Workers \ {w} : txn[v] \in Transaction /\ txn[v].held \cap txn[w].held = {}
  BY DEF TxInv, TypeOK, LocksExclusive
<1>2. ASSUME NEW v \in Workers \ {w}, Drafting(txn[v])
      PROVE  txn[v].order \in Orders /\ estado[txn[v].order] = "NONE"
             /\ txn[v].order # txn[w].order
  <2>1. DraftingOK(v, txn[v])
    BY DEF TxInv, TransactionOK
  <2> QED BY <1>2, <2>1 DEF DraftingOK, OwnOrder
<1> QED BY <1>1, <1>2

LEMMA RollbackStep ==
  ASSUME TxInv, Unpublished, NEW w \in Workers, Rollback(w)
  PROVE  TxInv'
<1>1. Becomes(w, Idle)
  BY DEF Rollback, Becomes
<1>2. Idle.held = {} /\ Idle.order \notin Orders
  BY TransactionAssumption DEF Idle
<1> QED BY <1>1, <1>2, IdleOK, TransactionFacts, LocalStep

LEMMA StartDraftStep ==
  ASSUME TxInv, Unpublished, NEW w \in Workers, NEW o \in Orders, NEW duty, StartDraft(w, duty, o)
  PROVE  TxInv'
<1> DEFINE t == [Idle EXCEPT !.duty = duty, !.pc = "insert", !.order = o, !.becomes = "DRAFT"]
<1>1. txn[w] = Idle /\ duty \in {"quote", "create"} /\ Becomes(w, t)
  BY TransactionAssumption DEF StartDraft, Becomes, TxInv, TypeOK
<1>2. t \in Transaction
  <2>1. duty \in {"none", "quote", "create", "confirm", "cancel", "receive"}
    BY <1>1
  <2> QED BY IdleOK, <2>1 DEF Transaction, OrderEstado
<1>3. TransactionOK(w, t)
  <2>1. /\ t.held = {} /\ t.rows = {} /\ t.mine = <<>> /\ t.todo = {} /\ t.short = {}
        /\ t.duty = duty /\ t.order = o /\ t.becomes = "DRAFT" /\ t.pc = "insert"
    BY DEF Idle
  <2>2. DutyOK(t) /\ DecidingOK(t) /\ MineOK(t) /\ ShortOK(t) /\ FlushOK(t) /\ BookedOK(t)
    BY <1>1, <2>1 DEF DutyOK, DecidingOK, Deciding, MineOK, ShortOK, FlushOK, BookedOK, MineOf
  <2>3. DraftingOK(w, t)
    BY <2>1 DEF DraftingOK, StartDraft, OwnOrder
  <2> QED BY <2>2, <2>3 DEF TransactionOK
<1>4. t.held = {} /\ t.order = o
  BY DEF Idle
<1> QED BY <1>1, <1>2, <1>3, <1>4, LocalStep DEF StartDraft

LEMMA StartConfirmStep ==
  ASSUME TxInv, Unpublished, NEW w \in Workers, NEW o \in Orders, StartConfirm(w, o)
  PROVE  TxInv'
<1> DEFINE t == [Idle EXCEPT !.duty = "confirm", !.pc = "transition", !.order = o,
                             !.becomes = "CONFIRMED"]
<1>1. txn[w] = Idle /\ estado[o] = "DRAFT" /\ Becomes(w, t)
  BY DEF StartConfirm, Becomes, TxInv, TypeOK
<1>2. t \in Transaction
  BY IdleOK DEF Transaction, OrderEstado
<1>3. TransactionOK(w, t)
  BY <1>1 DEF TransactionOK, Idle, DutyOK, DecidingOK, Deciding, MineOK, ShortOK, FlushOK, BookedOK,
              DraftingOK, Drafting
<1>4. t.held = {} /\ t.order = o
  BY DEF Idle
<1>5. \A v \in Workers \ {w} : Drafting(txn[v]) => txn[v].order # o
  BY <1>1, TransactionFacts
<1> HIDE DEF t
<1> QED BY <1>1, <1>2, <1>3, <1>4, <1>5, LocalStep

LEMMA StartCancelStep ==
  ASSUME TxInv, Unpublished, NEW w \in Workers, NEW o \in Orders, StartCancel(w, o)
  PROVE  TxInv'
<1> DEFINE t == [Idle EXCEPT !.duty = "cancel", !.pc = "release", !.order = o]
<1>1. txn[w] = Idle /\ estado[o] # "NONE" /\ Becomes(w, t)
  BY DEF StartCancel, Becomes, TxInv, TypeOK
<1>2. t \in Transaction
  BY IdleOK DEF Transaction, OrderEstado
<1>3. TransactionOK(w, t)
  BY <1>1 DEF TransactionOK, Idle, DutyOK, DecidingOK, Deciding, MineOK, ShortOK, FlushOK, BookedOK,
              DraftingOK, Drafting
<1>4. t.held = {} /\ t.order = o
  BY DEF Idle
<1>5. \A v \in Workers \ {w} : Drafting(txn[v]) => txn[v].order # o
  BY <1>1, TransactionFacts
<1> HIDE DEF t
<1> QED BY <1>1, <1>2, <1>3, <1>4, <1>5, LocalStep

LEMMA StartReceiveStep ==
  ASSUME TxInv, Unpublished, NEW w \in Workers, NEW s \in Skus, StartReceive(w, s)
  PROVE  TxInv'
<1> DEFINE t == [Idle EXCEPT !.duty = "receive", !.pc = "flush", !.sku = s, !.stock = onHand,
                             !.want = {RowOf("inventory", s)}]
<1>1. txn[w] = Idle /\ Becomes(w, t)
  BY DEF StartReceive, Becomes, TxInv, TypeOK
<1>2. t \in Transaction
  <2>1. RowOf("inventory", s) \in Row /\ onHand \in [Skus -> Int]
    BY DEF TxInv, TypeOK, RowOf, Row
  <2> QED BY IdleOK, <2>1 DEF Transaction, OrderEstado
<1>3. TransactionOK(w, t)
  BY DEF TransactionOK, Idle, DutyOK, DecidingOK, Deciding, MineOK, ShortOK, FlushOK, BookedOK,
              DraftingOK, Drafting, WillHold
<1>4. t.held = {} /\ t.order = NoOrder
  BY DEF Idle
<1>5. \A v \in Workers \ {w} : Drafting(txn[v]) => txn[v].order # NoOrder
  BY TransactionFacts, TransactionAssumption
<1> HIDE DEF t
<1> QED BY <1>1, <1>2, <1>3, <1>4, <1>5, LocalStep

(* The statement a transaction is at tells whose it is.                    *)
LEMMA DutyOfStatement ==
  ASSUME TxInv, NEW w \in Workers
  PROVE  LET t == txn[w]
         IN /\ t.pc = "insert" => Drafting(t)
            /\ t.pc \in {"transition", "classify", "reconcile", "deduct"} => t.duty = "confirm"
            /\ t.pc = "reserve" => Drafting(t) \/ t.duty = "confirm"
            /\ t.pc = "release" => Deciding(t)
            /\ t.pc = "flush" => Deciding(t) \/ t.duty = "receive"
<1> DEFINE t == txn[w]
<1>1. t \in Transaction /\ DutyOK(t) /\ DraftingOK(w, t) /\ DecidingOK(t) /\ FlushOK(t)
  BY TransactionFacts DEF TransactionOK
<1>2. t.duty \in {"none", "quote", "create", "confirm", "cancel", "receive"}
  BY <1>1 DEF Transaction
<1>3. CASE t.duty = "none"
  BY <1>1, <1>3 DEF DutyOK, Idle
<1>4. CASE Drafting(t)
  BY <1>1, <1>4 DEF DraftingOK
<1>5. CASE Deciding(t)
  BY <1>1, <1>5 DEF DecidingOK, Deciding
<1>6. CASE t.duty = "receive"
  BY <1>1, <1>6 DEF FlushOK
<1> QED BY <1>2, <1>3, <1>4, <1>5, <1>6 DEF Drafting, Deciding

LEMMA ConfirmOrderStep ==
  ASSUME TxInv, Unpublished, NEW w \in Workers, ConfirmOrder(w)
  PROVE  TxInv'
<1> DEFINE u == txn[w]
           row == RowOf("orders", u.order)
           t == [u EXCEPT !.held = Held(w, row), !.pc = "classify"]
<1>1. u \in Transaction /\ TransactionOK(w, u) /\ u.pc = "transition" /\ u.duty = "confirm"
  BY TransactionFacts, DutyOfStatement DEF ConfirmOrder
<1>2. Becomes(w, t)
  BY DEF ConfirmOrder, Becomes, TxInv, TypeOK
<1>3. t \in Transaction
  <2>1. row \in Row
    BY <1>1 DEF TransactionOK, DecidingOK, Deciding, RowOf, Row
  <2> QED BY <1>1, <2>1 DEF Transaction, Held
<1>4. TransactionOK(w, t)
  BY <1>1, <1>3 DEF TransactionOK, DutyOK, DecidingOK, Deciding, MineOK, ShortOK, FlushOK, BookedOK,
              DraftingOK, Drafting, Transaction
<1>5. \A v \in Workers \ {w} : t.held \cap txn[v].held = {}
  BY <1>1, TransactionFacts DEF Transaction, Held, ConfirmOrder, Free
<1>6. \A v \in Workers \ {w} : Drafting(txn[v]) => txn[v].order # t.order
  BY <1>1, TransactionFacts DEF Transaction
<1> HIDE DEF t
<1> QED BY <1>2, <1>3, <1>4, <1>5, <1>6, LocalStep

LEMMA ClassifyStep ==
  ASSUME TxInv, Unpublished, NEW w \in Workers, Classify(w)
  PROVE  TxInv'
<1> DEFINE u == txn[w]
<1>1. u \in Transaction /\ TransactionOK(w, u) /\ u.pc = "classify" /\ u.duty = "confirm"
  BY TransactionFacts, DutyOfStatement DEF Classify
<1>2. u.short = {} /\ u.becomes = "CONFIRMED" /\ u.rows = {} /\ u.mine = <<>> /\ u.order \in Orders
  BY <1>1 DEF TransactionOK, ShortOK, DecidingOK, Deciding
<1>3. Missing(w) \subseteq Skus
  <2>1. Lines[u.order] \in Seq(Skus)
    BY <1>2, TransactionAssumption
  <2>2. \A i \in DOMAIN Lines[u.order] : Lines[u.order][i] \in Skus
    BY <2>1, LenProperties, ElementOfSeq
  <2> QED BY <2>2 DEF Missing, Range
<1>4. \E pc \in {"release", "reconcile", "flush"}, short \in SUBSET Skus :
        /\ Becomes(w, [u EXCEPT !.pc = pc, !.short = short])
        /\ short # {} <=> pc = "flush"
  <2>1. CASE txn' = [txn EXCEPT ![w].pc = "flush", ![w].short = Missing(w)] /\ Missing(w) # {}
    <3>1. Becomes(w, [u EXCEPT !.pc = "flush", !.short = Missing(w)])
      BY <2>1 DEF Becomes, TxInv, TypeOK
    <3> QED BY <1>3, <2>1, <3>1
  <2>2. ASSUME NEW pc \in {"release", "reconcile"}, txn' = [txn EXCEPT ![w].pc = pc]
        PROVE  Becomes(w, [u EXCEPT !.pc = pc, !.short = {}])
    <3>1. [u EXCEPT !.pc = pc, !.short = {}] = [u EXCEPT !.pc = pc]
      BY <1>1, <1>2 DEF Transaction
    <3> QED BY <2>2, <3>1 DEF Becomes, TxInv, TypeOK
  <2> QED BY <2>1, <2>2 DEF Classify
<1>5. PICK pc \in {"release", "reconcile", "flush"}, short \in SUBSET Skus :
        /\ Becomes(w, [u EXCEPT !.pc = pc, !.short = short])
        /\ short # {} <=> pc = "flush"
  BY <1>4
<1> DEFINE t == [u EXCEPT !.pc = pc, !.short = short]
<1>6. /\ t \in Transaction /\ t.pc = pc /\ t.short = short /\ t.held = u.held /\ t.order = u.order
      /\ t.duty = "confirm" /\ t.becomes = "CONFIRMED" /\ t.rows = {} /\ t.mine = <<>>
      /\ t.todo = u.todo
  BY <1>1, <1>2, <1>5 DEF Transaction
<1>7. Becomes(w, t)
  BY <1>5
<1> HIDE DEF t
<1>8. TransactionOK(w, t)
  <2>1. DutyOK(t) /\ MineOK(t) /\ ShortOK(t) /\ BookedOK(t) /\ DraftingOK(w, t)
    BY <1>5, <1>6 DEF DutyOK, MineOK, ShortOK, BookedOK, DraftingOK, Drafting
  <2>2. DecidingOK(t)
    BY <1>1, <1>5, <1>6 DEF TransactionOK, DecidingOK, Deciding
  <2>3. FlushOK(t)
    <3>1. TakenBy(t) = {}
      BY <1>6 DEF TakenBy, Range
    <3> QED BY <1>6, <3>1 DEF FlushOK
  <2> QED BY <2>1, <2>2, <2>3 DEF TransactionOK
<1> QED BY <1>6, <1>7, <1>8, TransactionFacts, LocalStep

LEMMA ReconcileReservationsStep ==
  ASSUME TxInv, Unpublished, NEW w \in Workers, ReconcileReservations(w)
  PROVE  TxInv'
<1> DEFINE u == txn[w]
           unlocked == {i \in DOMAIN Lines[u.order] : Lines[u.order][i] \notin ActiveSkus(u.order)}
           t == [u EXCEPT !.pc = "reserve", !.todo = unlocked]
<1>1. u \in Transaction /\ TransactionOK(w, u) /\ u.pc = "reconcile" /\ u.duty = "confirm"
  BY TransactionFacts, DutyOfStatement DEF ReconcileReservations
<1>2. Becomes(w, t)
  BY DEF ReconcileReservations, Becomes, TxInv, TypeOK
<1>3. u.order \in Orders /\ Lines[u.order] \in Seq(Skus)
  BY <1>1, TransactionAssumption DEF TransactionOK, DecidingOK, Deciding
<1>4. unlocked \subseteq DOMAIN Lines[u.order] /\ unlocked \subseteq Nat
  BY <1>3
<1> HIDE DEF unlocked
<1>5. t \in Transaction
  BY <1>1, <1>4 DEF Transaction
<1>6. TransactionOK(w, t)
  BY <1>1, <1>4 DEF TransactionOK, DutyOK, DecidingOK, Deciding, MineOK, ShortOK, FlushOK, BookedOK,
              DraftingOK, Drafting, Transaction
<1>7. t.held = u.held /\ t.order = u.order
  BY <1>1 DEF Transaction
<1> HIDE DEF t
<1> QED BY <1>2, <1>5, <1>6, <1>7, TransactionFacts, LocalStep

LEMMA RegisterStep ==
  ASSUME TxInv, Unpublished, NEW w \in Workers, Register(w)
  PROVE  TxInv'
<1> DEFINE u == txn[w]
           t == [u EXCEPT !.pc = "deduct", !.rows = ActiveRows(u.order)]
<1>1. u \in Transaction /\ TransactionOK(w, u) /\ u.pc = "reserve" /\ u.duty = "confirm"
  BY TransactionFacts DEF Register, Reserved
<1>2. Becomes(w, t)
  BY DEF Register, Becomes, TxInv, TypeOK
<1>3. ActiveRows(u.order) \subseteq DOMAIN reservations[u.order] /\ ActiveRows(u.order) \subseteq Nat
  <2>1. u.order \in Orders
    BY <1>1 DEF TransactionOK, DecidingOK, Deciding
  <2> QED BY <2>1 DEF TxInv, TypeOK, ActiveRows
<1>4. t \in Transaction
  BY <1>1, <1>3 DEF Transaction
<1>5. TransactionOK(w, t)
  BY <1>1, <1>3 DEF TransactionOK, DutyOK, DecidingOK, Deciding, MineOK, ShortOK, FlushOK, BookedOK,
              DraftingOK, Drafting, Transaction
<1>6. t.held = u.held /\ t.order = u.order
  BY <1>1 DEF Transaction
<1> HIDE DEF t
<1> QED BY <1>2, <1>4, <1>5, <1>6, TransactionFacts, LocalStep

(* The SKUs a transaction takes units of are SKUs.                         *)
LEMMA TakenAreSkus ==
  ASSUME TxInv, NEW t \in Transaction, t.order \in Orders, t.rows \subseteq DOMAIN reservations[t.order]
  PROVE  TakenBy(t) \subseteq Skus
<1>1. reservations[t.order] \in Seq([sku : Skus, estado : ReservationEstado])
  BY DEF TxInv, TypeOK
<1>2. \A i \in t.rows : reservations[t.order][i].sku \in Skus
  <2> DEFINE old == reservations[t.order]
  <2>1. \A i \in DOMAIN old : old[i] \in [sku : Skus, estado : ReservationEstado]
    BY <1>1, LenProperties, ElementOfSeq
  <2> QED BY <2>1
<1>3. Range(t.mine) \subseteq Skus
  BY DEF Transaction, Range
<1> QED BY <1>2, <1>3 DEF TakenBy

LEMMA DeductStockStep ==
  ASSUME TxInv, Unpublished, NEW w \in Workers, DeductStock(w)
  PROVE  TxInv'
<1> DEFINE u == txn[w]
           want == RowsLock(w, u.rows) \cup {RowOf("inventory", s) : s \in SkusTaken(w)}
           t == [u EXCEPT !.pc = "flush", !.stock = onHand, !.want = want]
<1>1. u \in Transaction /\ TransactionOK(w, u) /\ u.pc = "deduct" /\ u.duty = "confirm"
  BY TransactionFacts, DutyOfStatement DEF DeductStock
<1>2. Becomes(w, t)
  BY DEF DeductStock, Becomes, TxInv, TypeOK
<1>3. u.order \in Orders /\ u.rows \subseteq DOMAIN reservations[u.order]
  BY <1>1 DEF TransactionOK, DecidingOK, Deciding
<1>4. SkusTaken(w) = TakenBy(u) /\ TakenBy(u) \subseteq Skus
  BY <1>1, <1>3, TakenAreSkus DEF SkusTaken, TakenBy
<1>5. want \subseteq Row
  BY <1>3, <1>4 DEF RowsLock, RowOf, Row
<1>6. \A s \in TakenBy(u) : RowOf("inventory", s) \in want
  BY <1>4
<1> HIDE DEF want
<1>7. t \in Transaction /\ t.held = u.held /\ t.order = u.order /\ t.rows = u.rows /\ t.mine = u.mine
      /\ t.want = want
  BY <1>1, <1>5 DEF Transaction, TxInv, TypeOK
<1>8. TransactionOK(w, t)
  <2>1. DutyOK(t) /\ DecidingOK(t) /\ MineOK(t) /\ ShortOK(t) /\ BookedOK(t) /\ DraftingOK(w, t)
    BY <1>1 DEF TransactionOK, DutyOK, DecidingOK, Deciding, MineOK, ShortOK, BookedOK,
              DraftingOK, Drafting, Transaction
  <2>2. TakenBy(t) = TakenBy(u)
    BY <1>7 DEF TakenBy
  <2>3. FlushOK(t)
    BY <1>1, <1>6, <1>7, <2>2 DEF FlushOK, WillHold, Transaction
  <2> QED BY <2>1, <2>3 DEF TransactionOK
<1> HIDE DEF t
<1> QED BY <1>2, <1>7, <1>8, TransactionFacts, LocalStep

LEMMA ReleaseActiveReservationsStep ==
  ASSUME TxInv, Unpublished, NEW w \in Workers, ReleaseActiveReservations(w)
  PROVE  TxInv'
<1> DEFINE u == txn[w]
           active == ActiveRows(u.order)
           want == RowsLock(w, active) \cup {RowOf("orders", u.order)}
           t == [u EXCEPT !.pc = "flush", !.becomes = "CANCELED", !.rows = active, !.want = want]
<1>1. u \in Transaction /\ TransactionOK(w, u) /\ u.pc = "release" /\ Deciding(u)
  BY TransactionFacts, DutyOfStatement DEF ReleaseActiveReservations
<1>2. Becomes(w, t)
  BY DEF ReleaseActiveReservations, Becomes, TxInv, TypeOK
<1>3. u.order \in Orders
  BY <1>1 DEF TransactionOK, DecidingOK
<1>4. active \subseteq DOMAIN reservations[u.order] /\ active \subseteq Nat
  BY <1>3 DEF TxInv, TypeOK, ActiveRows
<1>5. want \subseteq Row
  BY <1>3 DEF RowsLock, RowOf, Row
<1> HIDE DEF want
<1>6. t \in Transaction
  BY <1>1, <1>4, <1>5 DEF Transaction, OrderEstado
<1>7. TransactionOK(w, t)
  BY <1>1, <1>4 DEF TransactionOK, DutyOK, DecidingOK, Deciding, MineOK, ShortOK, FlushOK, BookedOK,
              DraftingOK, Drafting, Transaction
<1>8. t.held = u.held /\ t.order = u.order
  BY <1>1 DEF Transaction
<1> HIDE DEF t
<1> QED BY <1>2, <1>6, <1>7, <1>8, TransactionFacts, LocalStep

LEMMA FlushStep ==
  ASSUME TxInv, Unpublished, NEW w \in Workers, Flush(w)
  PROVE  TxInv'
<1> DEFINE u == txn[w]
<1>1. u \in Transaction /\ TransactionOK(w, u) /\ u.pc = "flush" /\ ~Drafting(u)
  BY TransactionFacts, DutyOfStatement DEF Flush, Drafting, Deciding
<1>2. PICK row \in u.want :
        Free(w, row) /\ Becomes(w, [u EXCEPT !.held = Held(w, row), !.want = @ \ {row}])
  BY DEF Flush, Becomes, TxInv, TypeOK
<1> DEFINE t == [u EXCEPT !.held = Held(w, row), !.want = @ \ {row}]
<1>3. /\ t \in Transaction /\ t.held = u.held \cup {row} /\ t.want = u.want \ {row}
      /\ t.duty = u.duty /\ t.pc = u.pc /\ t.order = u.order /\ t.rows = u.rows /\ t.mine = u.mine
      /\ t.becomes = u.becomes /\ t.sku = u.sku /\ t.todo = u.todo /\ t.short = u.short
  BY <1>1, <1>2 DEF Transaction, Held
<1>4. Becomes(w, t)
  BY <1>2
<1> HIDE DEF t
<1>5. TransactionOK(w, t)
  <2>1. DutyOK(t) /\ DecidingOK(t) /\ MineOK(t) /\ ShortOK(t) /\ BookedOK(t) /\ DraftingOK(w, t)
    BY <1>1, <1>3 DEF TransactionOK, DutyOK, DecidingOK, Deciding, MineOK, ShortOK, BookedOK,
              DraftingOK, Drafting, Idle
  <2>2. TakenBy(t) = TakenBy(u) /\ \A s : WillHold(u, s) => WillHold(t, s)
    BY <1>3 DEF TakenBy, WillHold
  <2>3. FlushOK(t)
    BY <1>1, <1>3, <2>2 DEF FlushOK, TransactionOK
  <2> QED BY <2>1, <2>3 DEF TransactionOK
<1>6. \A v \in Workers \ {w} : t.held \cap txn[v].held = {}
  BY <1>2, <1>3, TransactionFacts DEF Free
<1> QED BY <1>3, <1>4, <1>5, <1>6, TransactionFacts, LocalStep

LEMMA InsertOrderStep ==
  ASSUME TxInv, Unpublished, NEW w \in Workers, InsertOrder(w)
  PROVE  TxInv'
<1> DEFINE u == txn[w]
           c == CustomerOf[u.order]
           key == RowOf("drafts", c)
           t == [u EXCEPT !.held = Held(w, key), !.pc = "reserve", !.todo = Quoted(w)]
<1>1. u \in Transaction /\ TransactionOK(w, u) /\ u.pc = "insert" /\ Drafting(u)
  BY TransactionFacts, DutyOfStatement DEF InsertOrder
<1>2. CASE Drafts(c) # {}
  BY <1>2, RollbackStep DEF InsertOrder
<1>3. CASE Drafts(c) = {}
  <2>1. u.order \in Orders /\ Lines[u.order] \in Seq(Skus)
    BY <1>1, TransactionAssumption DEF TransactionOK, DraftingOK
  <2>2. Becomes(w, t) /\ Free(w, key)
    BY <1>3 DEF InsertOrder, Becomes, TxInv, TypeOK
  <2>3. key \in Row /\ Quoted(w) \subseteq Nat /\ Quoted(w) \subseteq DOMAIN Lines[u.order]
        /\ (u.duty = "create" => Quoted(w) = {})
    BY <2>1 DEF Row, RowOf, Quoted
  <2>4. /\ t \in Transaction /\ t.held = u.held \cup {key} /\ t.want = u.want
        /\ t.duty = u.duty /\ t.pc = "reserve" /\ t.order = u.order /\ t.rows = u.rows
        /\ t.mine = u.mine /\ t.becomes = u.becomes /\ t.todo = Quoted(w) /\ t.short = u.short
    BY <1>1, <2>3 DEF Transaction, Held
  <2> HIDE DEF t
  <2>5. DraftingOK(w, t)
    BY <1>1, <1>3, <2>3, <2>4 DEF TransactionOK, DraftingOK, Drafting
  <2>6. DutyOK(t) /\ DecidingOK(t) /\ MineOK(t) /\ ShortOK(t) /\ FlushOK(t)
    BY <1>1, <2>4 DEF TransactionOK, DutyOK, DecidingOK, Deciding, MineOK, ShortOK, FlushOK, Drafting
  <2>7. BookedOK(t)
    <3>1. \A s : MineOf(t, s) = MineOf(u, s)
      BY <2>4 DEF MineOf
    <3> QED BY <1>1, <2>4, <3>1 DEF TransactionOK, BookedOK
  <2>8. \A v \in Workers \ {w} : t.held \cap txn[v].held = {}
    BY <2>2, <2>4, TransactionFacts DEF Free
  <2> QED BY <2>2, <2>4, <2>5, <2>6, <2>7, <2>8, TransactionFacts, LocalStep DEF TransactionOK
<1> QED BY <1>2, <1>3

-----------------------------------------------------------------------------
(* Counting locks.                                                         *)
LEMMA SeqDomain ==
  ASSUME NEW S, NEW q \in Seq(S)
  PROVE  DOMAIN q \subseteq Nat /\ IsFiniteSet(DOMAIN q)
<1>1. Len(q) \in Nat /\ DOMAIN q = 1 .. Len(q)
  BY LenProperties
<1> QED BY <1>1, FS_Interval

LEMMA ActiveFinite ==
  ASSUME TypeOK, NEW s
  PROVE  IsFiniteSet(ActiveRowsOf(s)) /\ Cardinality(ActiveRowsOf(s)) \in Nat
<1> DEFINE own(o) == {j \in ActiveRows(o) : reservations[o][j].sku = s}
           rows == [o \in Orders |-> {<<o, i>> : i \in own(o)}]
<1>1. ActiveRowsOf(s) = UNION {rows[o] : o \in Orders}
  BY DEF ActiveRowsOf
<1>2. ASSUME NEW o \in Orders PROVE IsFiniteSet(rows[o])
  <2>1. IsFiniteSet(own(o))
    <3>1. own(o) \subseteq DOMAIN reservations[o]
      BY DEF ActiveRows
    <3>2. IsFiniteSet(DOMAIN reservations[o])
      BY SeqDomain DEF TypeOK
    <3> HIDE DEF own
    <3> QED BY <3>1, <3>2, FS_Subset
  <2> HIDE DEF own
  <2> DEFINE pair == [i \in own(o) |-> <<o, i>>]
  <2>2. pair \in Surjection(own(o), rows[o])
    BY DEF Surjection
  <2> QED BY <2>1, <2>2, FS_Surjection
<1>3. IsFiniteSet({rows[o] : o \in Orders})
  <2>1. rows \in Surjection(Orders, {rows[o] : o \in Orders})
    BY DEF Surjection
  <2> QED BY <2>1, TransactionAssumption, FS_Surjection
<1> HIDE DEF rows
<1>4. IsFiniteSet(UNION {rows[o] : o \in Orders})
  BY <1>2, <1>3, FS_UNION
<1> QED BY <1>1, <1>4, FS_CardinalityType

LEMMA MineFinite ==
  ASSUME NEW t \in Transaction, NEW s
  PROVE  IsFiniteSet(MineOf(t, s)) /\ Cardinality(MineOf(t, s)) \in Nat
<1>1. MineOf(t, s) \subseteq DOMAIN t.mine /\ IsFiniteSet(DOMAIN t.mine)
  BY SeqDomain DEF Transaction, MineOf
<1> QED BY <1>1, FS_Subset, FS_CardinalityType

(* One more unit reserved is one more place in what the transaction has    *)
(* reserved.                                                               *)
LEMMA MineGrows ==
  ASSUME NEW u \in Transaction, NEW t \in Transaction, NEW s \in Skus, t.mine = Append(u.mine, s)
  PROVE  /\ Cardinality(MineOf(t, s)) = Cardinality(MineOf(u, s)) + 1
         /\ \A r : r # s => MineOf(t, r) = MineOf(u, r)
<1>1. u.mine \in Seq(Skus)
  BY DEF Transaction
<1> DEFINE n == Len(u.mine)
<1>2. /\ n \in Nat /\ DOMAIN u.mine = 1 .. n /\ DOMAIN t.mine = 1 .. n + 1
      /\ t.mine[n + 1] = s /\ \A i \in 1 .. n : t.mine[i] = u.mine[i]
  BY <1>1
<1>3. MineOf(t, s) = MineOf(u, s) \cup {n + 1} /\ n + 1 \notin MineOf(u, s)
  BY <1>2 DEF MineOf
<1>4. \A r : r # s => MineOf(t, r) = MineOf(u, r)
  BY <1>2 DEF MineOf
<1> QED BY <1>3, <1>4, MineFinite, FS_AddElement

LEMMA ReserveStockStep ==
  ASSUME TxInv, Unpublished, NEW w \in Workers, ReserveStock(w)
  PROVE  TxInv'
<1> DEFINE u == txn[w]
<1>1. u \in Transaction /\ TransactionOK(w, u) /\ u.pc = "reserve"
      /\ u.order \in Orders /\ u.todo \subseteq DOMAIN Lines[u.order]
  BY TransactionFacts, DutyOfStatement
     DEF ReserveStock, TransactionOK, DraftingOK, DecidingOK, Deciding
<1>2. Drafting(u) \/ u.duty = "confirm"
  BY <1>1, DutyOfStatement
<1>3. u.todo # {} => u.duty \in {"quote", "confirm"}
  BY <1>1, <1>2 DEF TransactionOK, DraftingOK, Drafting
<1>4. PICK i \in u.todo :
        LET s == Lines[u.order][i]  row == RowOf("inventory", s)
        IN /\ Free(w, row)
           /\ \/ /\ AvailableStock(w, s) >= 1
                 /\ Becomes(w, [u EXCEPT !.todo = @ \ {i}, !.held = Held(w, row),
                                         !.mine = Append(@, s)])
              \/ Becomes(w, [u EXCEPT !.todo = @ \ {i}, !.held = Held(w, row)])
              \/ Rollback(w)
  BY DEF ReserveStock, Becomes, TxInv, TypeOK
<1> DEFINE s == Lines[u.order][i]
           row == RowOf("inventory", s)
<1>5. s \in Skus /\ row \in Row
  <2>1. Lines[u.order] \in Seq(Skus) /\ i \in DOMAIN Lines[u.order]
    BY <1>1, <1>4, TransactionAssumption
  <2>2. s \in Skus
    BY <2>1, LenProperties, ElementOfSeq
  <2> QED BY <2>2 DEF Row, RowOf
<1>6. CASE Rollback(w)
  BY <1>6, RollbackStep
(* The two others leave everything but todo, held and mine as it was.      *)
<1>7. ASSUME NEW t \in Transaction, Becomes(w, t), t.held = u.held \cup {row},
             t.todo \subseteq u.todo, t.duty = u.duty, t.pc = u.pc, t.order = u.order,
             t.rows = u.rows, t.becomes = u.becomes, t.short = u.short, BookedOK(t)
      PROVE  TxInv'
  <2>1. DraftingOK(w, t)
    BY <1>1, <1>7 DEF TransactionOK, DraftingOK, Drafting
  <2>2. DutyOK(t) /\ DecidingOK(t) /\ MineOK(t) /\ ShortOK(t) /\ FlushOK(t)
    BY <1>1, <1>3, <1>4, <1>7 DEF TransactionOK, DutyOK, DecidingOK, Deciding, MineOK, ShortOK, FlushOK
  <2>3. \A v \in Workers \ {w} : t.held \cap txn[v].held = {}
    BY <1>4, <1>7, TransactionFacts DEF Free
  <2> QED BY <1>7, <2>1, <2>2, <2>3, TransactionFacts, LocalStep DEF TransactionOK
<1>8. ASSUME AvailableStock(w, s) >= 1,
             Becomes(w, [u EXCEPT !.todo = @ \ {i}, !.held = Held(w, row), !.mine = Append(@, s)])
      PROVE  TxInv'
  <2> DEFINE more == Append(u.mine, s)
             t == [u EXCEPT !.todo = @ \ {i}, !.held = Held(w, row), !.mine = more]
  <2>a. more \in Seq(Skus) /\ Becomes(w, t)
    BY <1>1, <1>5, <1>8, AppendProperties DEF Transaction
  <2> HIDE DEF more
  <2>1. /\ t \in Transaction /\ t.held = u.held \cup {row} /\ t.mine = more
        /\ t.todo \subseteq u.todo /\ t.duty = u.duty /\ t.pc = u.pc /\ t.order = u.order
        /\ t.rows = u.rows /\ t.becomes = u.becomes /\ t.short = u.short
    BY <1>1, <1>5, <2>a DEF Transaction, Held
  <2> HIDE DEF t
  <2>2. t.mine = Append(u.mine, s)
    BY <2>1 DEF more
  <2>3. BookedOK(t)
    <3> SUFFICES ASSUME t.duty = "quote", NEW r \in Skus, MineOf(t, r) # {}
                 PROVE  /\ RowOf("inventory", r) \in t.held
                        /\ Cardinality(ActiveRowsOf(r)) + Cardinality(MineOf(t, r)) <= onHand[r]
      BY DEF BookedOK
    <3>1. CASE r = s
      <4>1. Cardinality(MineOf(u, s)) \in Nat /\ Cardinality(ActiveRowsOf(s)) \in Nat
            /\ onHand[s] \in Int
        BY <1>1, <1>5, MineFinite, ActiveFinite DEF TxInv, TypeOK
      <4>2. AvailableStock(w, s)
              = onHand[s] - Cardinality(ActiveRowsOf(s)) - Cardinality(MineOf(u, s))
        BY DEF AvailableStock, MineOf
      <4>3. Cardinality(MineOf(t, s)) = Cardinality(MineOf(u, s)) + 1
        BY <1>1, <1>5, <2>1, <2>2, MineGrows
      <4> QED BY <1>8, <2>1, <3>1, <4>1, <4>2, <4>3
    <3>2. CASE r # s
      <4>1. MineOf(t, r) = MineOf(u, r)
        BY <1>1, <1>5, <2>1, <2>2, <3>2, MineGrows
      <4> QED BY <1>1, <2>1, <4>1 DEF TransactionOK, BookedOK
    <3> QED BY <3>1, <3>2
  <2> QED BY <1>7, <2>a, <2>1, <2>3
<1>9. ASSUME Becomes(w, [u EXCEPT !.todo = @ \ {i}, !.held = Held(w, row)])
      PROVE  TxInv'
  <2> DEFINE t == [u EXCEPT !.todo = @ \ {i}, !.held = Held(w, row)]
  <2>1. /\ t \in Transaction /\ t.held = u.held \cup {row} /\ t.mine = u.mine
        /\ t.todo \subseteq u.todo /\ t.duty = u.duty /\ t.pc = u.pc /\ t.order = u.order
        /\ t.rows = u.rows /\ t.becomes = u.becomes /\ t.short = u.short
    BY <1>1, <1>5 DEF Transaction, Held
  <2>2. Becomes(w, t)
    BY <1>9
  <2> HIDE DEF t
  <2>3. \A r : MineOf(t, r) = MineOf(u, r)
    BY <2>1 DEF MineOf
  <2>4. BookedOK(t)
    BY <1>1, <2>1, <2>3 DEF TransactionOK, BookedOK
  <2> QED BY <1>7, <2>1, <2>2, <2>4
<1> QED BY <1>4, <1>6, <1>8, <1>9

-----------------------------------------------------------------------------
(* Commits.  What a commit of w must leave true for the others to keep     *)
(* what they know: orders other than its own are as they were, a lock      *)
(* keeps its place and its SKU and is not revived, and a customer gets a   *)
(* draft, or a SKU other stock or more locks, only under the row lock that *)
(* w holds.                                                                *)
LeavesOthers(w) ==
  /\ \A o \in Orders \ {txn[w].order} :
       estado'[o] = estado[o] /\ reservations'[o] = reservations[o]
  /\ \A o \in Orders :
       /\ DOMAIN reservations[o] \subseteq DOMAIN reservations'[o]
       /\ \A i \in DOMAIN reservations[o] : reservations'[o][i].sku = reservations[o][i].sku
       /\ estado[o] # "NONE" => estado'[o] # "NONE" /\ ActiveRows(o)' \subseteq ActiveRows(o)
  /\ \A o \in Orders :
       LET c == CustomerOf[o]
       IN Drafts(c)' \subseteq Drafts(c) \/ RowOf("drafts", c) \in txn[w].held
  /\ \A s \in Skus :
       \/ RowOf("inventory", s) \in txn[w].held
       \/ onHand'[s] = onHand[s] /\ ActiveRowsOf(s)' \subseteq ActiveRowsOf(s)

LEMMA OthersStep ==
  ASSUME TxInv, TypeOK', NEW w \in Workers, Rollback(w), LeavesOthers(w)
  PROVE  LocksExclusive' /\ \A v \in Workers : TransactionOK(v, txn[v])'
<1>1. txn' \in [Workers -> Transaction] /\ txn'[w] = Idle /\ Idle.held = {} /\ Idle.order = NoOrder
      /\ \A v \in Workers \ {w} : txn'[v] = txn[v]
  BY IdleOK DEF Rollback, TxInv, TypeOK, Idle
<1>2. LocksExclusive'
  BY <1>1 DEF TxInv, LocksExclusive
<1>3. TransactionOK(w, txn[w])'
  BY <1>1 DEF TransactionOK, Idle, DutyOK, DecidingOK, Deciding, MineOK, ShortOK, FlushOK, BookedOK,
              DraftingOK, Drafting
<1>4. ASSUME NEW v \in Workers \ {w} PROVE TransactionOK(v, txn[v])'
  <2> DEFINE u == txn[v]
  <2>1. txn'[v] = u /\ u \in Transaction /\ TransactionOK(v, u) /\ u.held \cap txn[w].held = {}
    BY <1>1, TransactionFacts
  <2>2. (DutyOK(txn[v]))' /\ (MineOK(txn[v]) /\ ShortOK(txn[v]))'
    BY <2>1 DEF TransactionOK, DutyOK, MineOK
  <2>3. (DecidingOK(txn[v]))'
    <3> SUFFICES ASSUME Deciding(u) PROVE (DecidingOK(txn[v]))'
      BY <2>1 DEF DecidingOK, Deciding
    <3>1. u.order \in Orders /\ estado[u.order] # "NONE" /\ DecidingOK(u)
      BY <2>1 DEF TransactionOK, DecidingOK
    <3>2. PICK o \in Orders : o = u.order
      BY <3>1
    <3>3. /\ estado'[o] # "NONE" /\ ActiveRows(o)' \subseteq ActiveRows(o)
          /\ DOMAIN reservations[o] \subseteq DOMAIN reservations'[o]
      BY <3>1, <3>2 DEF LeavesOthers
    <3>4. ActiveRows(txn[v].order)' \subseteq ActiveRows(u.order)
      BY <2>1, <3>2, <3>3 DEF ActiveRows, IsActive
    <3> QED BY <2>1, <3>1, <3>2, <3>3, <3>4 DEF DecidingOK, Deciding
  <2>4. (BookedOK(txn[v]))'
    <3> SUFFICES ASSUME u.duty = "quote", NEW s \in Skus, MineOf(u, s) # {}
                 PROVE  /\ RowOf("inventory", s) \in u.held
                        /\ Cardinality(ActiveRowsOf(s))' + Cardinality(MineOf(u, s)) <= onHand'[s]
      BY <2>1 DEF BookedOK, MineOf
    <3>1. RowOf("inventory", s) \in u.held
          /\ Cardinality(ActiveRowsOf(s)) + Cardinality(MineOf(u, s)) <= onHand[s]
      BY <2>1 DEF TransactionOK, BookedOK
    <3>2. onHand'[s] = onHand[s] /\ ActiveRowsOf(s)' \subseteq ActiveRowsOf(s)
      BY <2>1, <3>1 DEF LeavesOthers
    <3>3. IsFiniteSet(ActiveRowsOf(s)) /\ Cardinality(ActiveRowsOf(s)) \in Nat
      BY ActiveFinite DEF TxInv
    <3>4. Cardinality(ActiveRowsOf(s))' <= Cardinality(ActiveRowsOf(s))
          /\ Cardinality(ActiveRowsOf(s))' \in Nat
      BY <3>2, <3>3, FS_Subset, FS_CardinalityType
    <3>5. onHand[s] \in Int /\ Cardinality(MineOf(u, s)) \in Nat
      BY <2>1, MineFinite DEF TxInv, TypeOK
    <3> QED BY <3>1, <3>2, <3>3, <3>4, <3>5
  <2>5. (FlushOK(txn[v]))'
    <3>1. CASE u.duty = "receive"
      BY <2>1, <3>1 DEF TransactionOK, FlushOK, WillHold
    <3>2. CASE u.duty = "confirm"
      <4>1. u.order \in Orders /\ u.rows \subseteq DOMAIN reservations[u.order]
        BY <2>1, <3>2 DEF TransactionOK, DecidingOK, Deciding
      <4>2. \A i \in u.rows : reservations'[u.order][i].sku = reservations[u.order][i].sku
        BY <4>1 DEF LeavesOthers
      <4>3. (TakenBy(txn[v]))' = TakenBy(u)
        BY <2>1, <4>2 DEF TakenBy
      <4> QED BY <2>1, <3>2, <4>3 DEF TransactionOK, FlushOK, WillHold
    <3>3. CASE u.duty \notin {"receive", "confirm"}
      BY <2>1, <3>3 DEF FlushOK
    <3> QED BY <3>1, <3>2, <3>3
  <2>6. (DraftingOK(v, txn[v]))'
    <3> SUFFICES ASSUME Drafting(u) PROVE (DraftingOK(v, txn[v]))'
      BY <2>1 DEF DraftingOK, Drafting
    <3>1. DraftingOK(v, u) /\ u.order \in Orders /\ u.order # txn[w].order /\ OwnOrder(v, u.order)
      BY <2>1, TransactionFacts DEF TransactionOK, DraftingOK
    <3>2. estado'[u.order] = estado[u.order]
      BY <3>1 DEF LeavesOthers
    <3>3. OwnOrder(v, txn[v].order)'
      BY <1>1, <2>1, <3>1, TransactionAssumption DEF OwnOrder
    <3>4. ASSUME u.pc = "reserve" PROVE Drafts(CustomerOf[txn[v].order])' = {}
      <4> DEFINE c == CustomerOf[u.order]
      <4>1. RowOf("drafts", c) \in u.held /\ Drafts(c) = {}
        BY <3>1, <3>4 DEF DraftingOK
      <4>2. Drafts(c)' \subseteq Drafts(c)
        BY <2>1, <3>1, <4>1 DEF LeavesOthers
      <4> QED BY <2>1, <4>1, <4>2 DEF Drafts
    <3> QED BY <2>1, <3>1, <3>2, <3>3, <3>4 DEF DraftingOK, Drafting
  <2> QED BY <2>2, <2>3, <2>4, <2>5, <2>6 DEF TransactionOK
<1> QED BY <1>2, <1>3, <1>4

(* A receipt writes the stock of the row it holds, and nothing else.       *)
LEMMA CommitReceiptStep ==
  ASSUME TxInv, NEW w \in Workers, CommitReceipt(w), sheetRows' = sheetRows, crashes' = crashes
  PROVE  TxInv'
<1> DEFINE u == txn[w]
           s == u.sku
<1>1. u \in Transaction /\ TransactionOK(w, u) /\ u.duty = "receive" /\ Rollback(w)
      /\ UNCHANGED <<estado, reservations, needs>>
  BY TransactionFacts DEF CommitReceipt
<1>2. s \in Skus /\ u.stock[s] \in Int
  BY <1>1 DEF TransactionOK, FlushOK, Transaction
<1>3. RowOf("inventory", s) \in u.held
  BY <1>1 DEF TransactionOK, FlushOK, WillHold, CommitReceipt, ReadyToCommit, Reserved
<1>4. TypeOK'
  <2>1. txn' \in [Workers -> Transaction]
    BY <1>1, IdleOK DEF Rollback, TxInv, TypeOK
  <2>2. onHand' \in [Skus -> Int] /\ received' \in [Skus -> Nat]
    BY <1>2 DEF CommitReceipt, TxInv, TypeOK
  <2> QED BY <1>1, <2>1, <2>2 DEF TxInv, TypeOK
<1>5. \A r \in Skus \ {s} : onHand'[r] = onHand[r]
  BY <1>2 DEF CommitReceipt, TxInv, TypeOK
<1>6. \A o : ActiveRows(o)' = ActiveRows(o) /\ Drafts(o)' = Drafts(o) /\ ActiveRowsOf(o)' = ActiveRowsOf(o)
  BY <1>1 DEF ActiveRows, IsActive, ActiveRowsOf, Drafts
<1>7. LeavesOthers(w)
  BY <1>1, <1>3, <1>5, <1>6 DEF LeavesOthers
<1>8. NoRowsBefore' /\ OneCommittedDraft' /\ HeldStockIsAwaited'
  BY <1>1, <1>6 DEF TxInv, NoRowsBefore, OneCommittedDraft, HeldStockIsAwaited
<1> QED BY <1>1, <1>4, <1>7, <1>8, OthersStep DEF TxInv

LEMMA Concatenation ==
  ASSUME NEW S, NEW p \in Seq(S), NEW q \in Seq(S)
  PROVE  /\ p \o q \in Seq(S) /\ DOMAIN p \subseteq DOMAIN (p \o q)
         /\ \A i \in DOMAIN p : (p \o q)[i] = p[i]
         /\ \A i \in DOMAIN (p \o q) \ DOMAIN p :
              i - Len(p) \in DOMAIN q /\ (p \o q)[i] = q[i - Len(p)]
<1>1. /\ p \o q \in Seq(S) /\ Len(p \o q) = Len(p) + Len(q)
      /\ \A i \in 1 .. Len(p) + Len(q) :
           (p \o q)[i] = IF i <= Len(p) THEN p[i] ELSE q[i - Len(p)]
  BY ConcatProperties
<1>2. /\ DOMAIN p = 1 .. Len(p) /\ DOMAIN q = 1 .. Len(q) /\ DOMAIN (p \o q) = 1 .. Len(p) + Len(q)
      /\ Len(p) \in Nat /\ Len(q) \in Nat
  BY <1>1, LenProperties
<1> QED BY <1>1, <1>2

(* What the commit of an order leaves in its rows: each keeps its place    *)
(* and SKU and gets the new estado if the transaction has read it; the     *)
(* ones it reserved itself follow.                                         *)
LEMMA RowsWrittenAre ==
  ASSUME TxInv, NEW w \in Workers, txn[w].order \in Orders, txn[w].becomes # "NONE"
  PROVE  LET u == txn[w]
             old == reservations[u.order]
             new == RowsWritten(w)
             left == LeavesRows[u.becomes]
         IN /\ new \in Seq([sku : Skus, estado : ReservationEstado])
            /\ DOMAIN old \subseteq DOMAIN new
            /\ \A i \in DOMAIN old :
                 /\ new[i].sku = old[i].sku
                 /\ new[i].estado = IF i \in u.rows THEN left ELSE old[i].estado
            /\ \A i \in DOMAIN new \ DOMAIN old :
                 /\ i - Len(old) \in DOMAIN u.mine
                 /\ new[i].sku = u.mine[i - Len(old)] /\ new[i].estado = left
<1> DEFINE u == txn[w]
           old == reservations[u.order]
           left == LeavesRows[u.becomes]
           R == [sku : Skus, estado : ReservationEstado]
           kept == [i \in DOMAIN old |-> IF i \in u.rows THEN [old[i] EXCEPT !.estado = left]
                                                         ELSE old[i]]
           added == [i \in DOMAIN u.mine |-> [sku |-> u.mine[i], estado |-> left]]
<1>1. u \in Transaction /\ old \in Seq(R)
  BY TransactionFacts DEF TxInv, TypeOK
<1>2. left \in ReservationEstado
  BY <1>1 DEF Transaction, OrderEstado, LeavesRows, ReservationEstado
<1>3. u.mine \in Seq(Skus) /\ DOMAIN u.mine = 1 .. Len(u.mine) /\ Len(u.mine) \in Nat
      /\ DOMAIN old = 1 .. Len(old) /\ Len(old) \in Nat
  BY <1>1, LenProperties DEF Transaction
<1>4. \A i \in DOMAIN old : old[i] \in R
  BY <1>1, <1>3, ElementOfSeq
<1>5. \A i \in DOMAIN u.mine : u.mine[i] \in Skus
  BY <1>3, ElementOfSeq
<1>6. kept \in Seq(R) /\ Len(kept) = Len(old)
  BY <1>2, <1>3, <1>4
<1>7. added \in Seq(R) /\ Len(added) = Len(u.mine)
  BY <1>2, <1>3, <1>5
<1>8. /\ \A i \in DOMAIN old : kept[i].sku = old[i].sku
                                /\ kept[i].estado = IF i \in u.rows THEN left ELSE old[i].estado
      /\ \A i \in DOMAIN u.mine : added[i].sku = u.mine[i] /\ added[i].estado = left
  BY <1>4
<1>9. RowsWritten(w) = kept \o added
  BY DEF RowsWritten
<1> HIDE DEF kept, added, old, left, R
<1>10. /\ kept \o added \in Seq(R) /\ DOMAIN kept = DOMAIN old /\ DOMAIN added = DOMAIN u.mine
       /\ DOMAIN kept \subseteq DOMAIN (kept \o added)
       /\ \A i \in DOMAIN kept : (kept \o added)[i] = kept[i]
       /\ \A i \in DOMAIN (kept \o added) \ DOMAIN kept :
            i - Len(kept) \in DOMAIN added /\ (kept \o added)[i] = added[i - Len(kept)]
  BY <1>3, <1>6, <1>7, Concatenation, LenProperties
<1> DEFINE new == kept \o added
<1> HIDE DEF new
<1>11. /\ new \in Seq(R) /\ DOMAIN old \subseteq DOMAIN new
       /\ \A i \in DOMAIN old :
            new[i].sku = old[i].sku /\ new[i].estado = IF i \in u.rows THEN left ELSE old[i].estado
       /\ \A i \in DOMAIN new \ DOMAIN old :
            /\ i - Len(old) \in DOMAIN u.mine
            /\ new[i].sku = u.mine[i - Len(old)] /\ new[i].estado = left
  BY <1>6, <1>8, <1>10 DEF new
<1>12. RowsWritten(w) = new
  BY <1>9 DEF new
<1> QED BY <1>11, <1>12 DEF old, left, R

(* Who commits an order, and what is written whoever it is.                *)
LEMMA CommitOrderFacts ==
  ASSUME TxInv, NEW w \in Workers, CommitOrder(w)
  PROVE  /\ txn[w] \in Transaction /\ TransactionOK(w, txn[w]) /\ Rollback(w)
         /\ txn[w].order \in Orders /\ txn[w].becomes # "NONE"
         /\ \/ Drafting(txn[w]) /\ txn[w].pc = "reserve" /\ txn[w].becomes = "DRAFT"
            \/ Deciding(txn[w]) /\ txn[w].pc = "flush" /\ txn[w].want = {}
               /\ txn[w].becomes \in {"CONFIRMED", "CANCELED"}
         /\ \A o \in Orders \ {txn[w].order} :
              estado'[o] = estado[o] /\ reservations'[o] = reservations[o]
         /\ \A o \in Orders \ {txn[w].order} : needs'[o] = needs[o]
         /\ needs'[txn[w].order] = needs[txn[w].order] \cup txn[w].short
         /\ estado'[txn[w].order] = txn[w].becomes
         /\ reservations'[txn[w].order] = RowsWritten(w)
<1> DEFINE u == txn[w]
<1>1. u \in Transaction /\ TransactionOK(w, u) /\ Rollback(w) /\ u.duty # "receive"
  BY TransactionFacts DEF CommitOrder
<1>2. \/ Drafting(u) /\ u.pc = "reserve"
      \/ Deciding(u) /\ u.pc = "flush" /\ u.want = {}
  BY <1>1, DutyOfStatement DEF CommitOrder, ReadyToCommit, Reserved, TransactionOK, DraftingOK,
                               Drafting, Deciding
<1>3. u.order \in Orders
  BY <1>1, <1>2 DEF TransactionOK, DraftingOK, DecidingOK
<1>4. /\ Drafting(u) => u.becomes = "DRAFT"
      /\ Deciding(u) /\ u.pc = "flush" => u.becomes \in {"CONFIRMED", "CANCELED"}
  BY <1>1 DEF TransactionOK, DraftingOK, DecidingOK, Deciding
<1>5. /\ \A o \in Orders \ {u.order} : estado'[o] = estado[o] /\ reservations'[o] = reservations[o]
      /\ \A o \in Orders \ {u.order} : needs'[o] = needs[o]
      /\ needs'[u.order] = needs[u.order] \cup u.short
      /\ estado'[u.order] = u.becomes /\ reservations'[u.order] = RowsWritten(w)
  BY <1>3 DEF CommitOrder, TxInv, TypeOK
<1> QED BY <1>1, <1>2, <1>3, <1>4, <1>5

LEMMA CommitOrderType ==
  ASSUME TxInv, NEW w \in Workers, CommitOrder(w), sheetRows' = sheetRows, crashes' = crashes
  PROVE  TypeOK'
<1> DEFINE u == txn[w]
           old == reservations[u.order]
<1>1. u \in Transaction /\ u.order \in Orders /\ u.becomes # "NONE" /\ Rollback(w)
  BY CommitOrderFacts
<1>2. txn' \in [Workers -> Transaction]
  BY <1>1, IdleOK DEF Rollback, TxInv, TypeOK
<1>3. estado' \in [Orders -> OrderEstado]
  BY <1>1 DEF CommitOrder, TxInv, TypeOK, Transaction
<1>4. reservations' \in [Orders -> Seq([sku : Skus, estado : ReservationEstado])]
  <2>1. RowsWritten(w) \in Seq([sku : Skus, estado : ReservationEstado])
    BY <1>1, RowsWrittenAre
  <2> QED BY <2>1 DEF CommitOrder, TxInv, TypeOK
<1>5. onHand' \in [Skus -> Int]
  <2>1. CASE u.becomes # "CONFIRMED"
    BY <2>1 DEF CommitOrder, TxInv, TypeOK
  <2>2. CASE u.becomes = "CONFIRMED"
    <3>1. u.rows \subseteq DOMAIN old /\ IsFiniteSet(DOMAIN old)
      <4>1. Deciding(u) /\ DecidingOK(u)
        BY <2>2, CommitOrderFacts DEF TransactionOK
      <4> QED BY <1>1, <4>1, SeqDomain DEF DecidingOK, TxInv, TypeOK
    <3>2. \A s \in Skus : UnitsTaken(w, s) \in Int
      <4> TAKE s \in Skus
      <4>1. {i \in u.rows : old[i].sku = s} \subseteq DOMAIN old
        BY <3>1
      <4>2. Cardinality({i \in u.rows : old[i].sku = s}) \in Nat
        BY <3>1, <4>1, FS_Subset, FS_CardinalityType
      <4>3. Cardinality({i \in DOMAIN u.mine : u.mine[i] = s}) \in Nat
        BY <1>1, MineFinite DEF MineOf
      <4> QED BY <4>2, <4>3 DEF UnitsTaken
    <3>3. onHand' = StockWritten(w)
      BY <2>2 DEF CommitOrder
    <3>4. u.stock \in [Skus -> Int] /\ onHand \in [Skus -> Int]
      BY <1>1 DEF Transaction, TxInv, TypeOK
    <3> QED BY <3>2, <3>3, <3>4 DEF StockWritten
  <2> QED BY <2>1, <2>2
<1>6. needs' \in [Orders -> SUBSET Skus]
  BY <1>1 DEF CommitOrder, TxInv, TypeOK, Transaction
<1> QED BY <1>2, <1>3, <1>4, <1>5, <1>6 DEF CommitOrder, TxInv, TypeOK

(* A new draft adds the locks its transaction reserved, and no other.      *)
LEMMA DraftAdds ==
  ASSUME TxInv, NEW w \in Workers, CommitOrder(w), Drafting(txn[w])
  PROVE  /\ onHand' = onHand /\ estado[txn[w].order] = "NONE" /\ reservations[txn[w].order] = <<>>
         /\ \A s : ActiveRowsOf(s)' \subseteq
                     ActiveRowsOf(s) \cup {<<txn[w].order, i>> : i \in MineOf(txn[w], s)}
<1> DEFINE u == txn[w]
<1>1. /\ u \in Transaction /\ TransactionOK(w, u) /\ u.order \in Orders /\ u.becomes = "DRAFT"
      /\ \A o \in Orders \ {u.order} : reservations'[o] = reservations[o]
      /\ reservations'[u.order] = RowsWritten(w)
  BY CommitOrderFacts DEF Drafting, Deciding
<1>2. onHand' = onHand /\ estado[u.order] = "NONE" /\ reservations[u.order] = <<>>
  BY <1>1 DEF CommitOrder, TransactionOK, DraftingOK, TxInv, NoRowsBefore
<1>3. \A i \in DOMAIN RowsWritten(w) : i \in DOMAIN u.mine /\ RowsWritten(w)[i].sku = u.mine[i]
  <2>1. /\ DOMAIN reservations[u.order] = {} /\ Len(reservations[u.order]) = 0
        /\ DOMAIN u.mine \subseteq Nat
    BY <1>1, <1>2, SeqDomain DEF Transaction
  <2>2. \A i \in DOMAIN RowsWritten(w) : i - 0 \in DOMAIN u.mine /\ RowsWritten(w)[i].sku = u.mine[i - 0]
    BY <1>1, <2>1, RowsWrittenAre
  <2>3. DOMAIN RowsWritten(w) \subseteq Nat
    BY <1>1, RowsWrittenAre, SeqDomain
  <2> QED BY <2>2, <2>3
<1>4. ASSUME NEW s, NEW o \in Orders, NEW i, <<o, i>> \in ActiveRowsOf(s)', o = u.order
      PROVE  i \in MineOf(u, s)
  <2>1. i \in DOMAIN reservations'[o] /\ reservations'[o][i].sku = s
    BY <1>4 DEF ActiveRowsOf, ActiveRows
  <2> QED BY <1>1, <1>3, <1>4, <2>1 DEF MineOf
<1>5. ASSUME NEW s, NEW o \in Orders, NEW i, <<o, i>> \in ActiveRowsOf(s)', o # u.order
      PROVE  <<o, i>> \in ActiveRowsOf(s)
  BY <1>1, <1>5 DEF ActiveRowsOf, ActiveRows, IsActive
<1>6. \A s : \A x \in ActiveRowsOf(s)' : \E o \in Orders : \E i : x = <<o, i>>
  BY DEF ActiveRowsOf
<1> QED BY <1>2, <1>4, <1>5, <1>6

LEMMA CommitDraftStep ==
  ASSUME TxInv, NEW w \in Workers, CommitOrder(w), sheetRows' = sheetRows, crashes' = crashes,
         Drafting(txn[w])
  PROVE  TxInv'
<1> DEFINE u == txn[w]
<1>1. /\ u \in Transaction /\ TransactionOK(w, u) /\ Rollback(w) /\ u.order \in Orders
      /\ u.becomes = "DRAFT" /\ u.pc = "reserve"
      /\ \A o \in Orders \ {u.order} : estado'[o] = estado[o] /\ reservations'[o] = reservations[o]
      /\ estado'[u.order] = "DRAFT"
  BY CommitOrderFacts DEF Drafting, Deciding
<1>2. onHand' = onHand /\ estado[u.order] = "NONE" /\ reservations[u.order] = <<>>
  BY DraftAdds
<1>3. RowOf("drafts", CustomerOf[u.order]) \in u.held /\ Drafts(CustomerOf[u.order]) = {}
  BY <1>1 DEF TransactionOK, DraftingOK
<1>4. LeavesOthers(w)
  <2>1. ASSUME NEW o \in Orders
        PROVE  /\ DOMAIN reservations[o] \subseteq DOMAIN reservations'[o]
               /\ \A i \in DOMAIN reservations[o] : reservations'[o][i].sku = reservations[o][i].sku
               /\ estado[o] # "NONE" => estado'[o] # "NONE" /\ ActiveRows(o)' \subseteq ActiveRows(o)
    BY <1>1, <1>2 DEF ActiveRows, IsActive
  <2>2. ASSUME NEW o \in Orders
        PROVE  LET c == CustomerOf[o]
               IN Drafts(c)' \subseteq Drafts(c) \/ RowOf("drafts", c) \in u.held
    BY <1>1, <1>3 DEF Drafts
  <2>3. ASSUME NEW s \in Skus
        PROVE  \/ RowOf("inventory", s) \in u.held
               \/ onHand'[s] = onHand[s] /\ ActiveRowsOf(s)' \subseteq ActiveRowsOf(s)
    <3>1. CASE MineOf(u, s) = {}
      BY <1>2, <3>1, DraftAdds
    <3>2. CASE MineOf(u, s) # {}
      <4>1. u.mine # <<>>
        BY <3>2 DEF MineOf
      <4>2. u.duty = "quote"
        BY <1>1, <4>1 DEF TransactionOK, MineOK, ShortOK, Drafting
      <4> QED BY <1>1, <3>2, <4>2 DEF TransactionOK, BookedOK
    <3> QED BY <3>1, <3>2
  <2> QED BY <1>1, <2>1, <2>2, <2>3 DEF LeavesOthers
<1>5. NoRowsBefore'
  BY <1>1 DEF TxInv, NoRowsBefore
<1>6. OneCommittedDraft'
  BY <1>1, <1>3 DEF TxInv, OneCommittedDraft, Drafts
<1>7. HeldStockIsAwaited'
  <2>1. \A i \in DOMAIN reservations'[u.order] : reservations'[u.order][i].estado # "CONVERTED"
    <3>1. /\ reservations'[u.order] = RowsWritten(w) /\ DOMAIN reservations[u.order] = {}
          /\ LeavesRows[u.becomes] # "CONVERTED"
      BY <1>1, <1>2, CommitOrderFacts DEF LeavesRows
    <3> QED BY <1>1, <3>1, RowsWrittenAre
  <2> QED BY <1>1, <2>1, CommitOrderFacts DEF TxInv, HeldStockIsAwaited, ActiveRows, IsActive
<1> QED BY <1>1, <1>4, <1>5, <1>6, <1>7, CommitOrderType, OthersStep DEF TxInv

LEMMA CommitDecisionStep ==
  ASSUME TxInv, NEW w \in Workers, CommitOrder(w), sheetRows' = sheetRows, crashes' = crashes,
         ~Drafting(txn[w])
  PROVE  TxInv' /\ \A s \in Skus : ActiveRowsOf(s)' \subseteq ActiveRowsOf(s)
<1> DEFINE u == txn[w]
           old == reservations[u.order]
           new == RowsWritten(w)
<1>1. /\ u \in Transaction /\ TransactionOK(w, u) /\ Rollback(w) /\ u.order \in Orders
      /\ u.becomes \in {"CONFIRMED", "CANCELED"} /\ u.pc = "flush" /\ Deciding(u) /\ u.want = {}
      /\ \A o \in Orders \ {u.order} : estado'[o] = estado[o] /\ reservations'[o] = reservations[o]
      /\ estado'[u.order] = u.becomes /\ reservations'[u.order] = new
  BY CommitOrderFacts
<1>2. /\ ActiveRows(u.order) \subseteq u.rows \/ u.short # {}
      /\ u.rows \subseteq DOMAIN old /\ estado[u.order] # "NONE"
  BY <1>1 DEF TransactionOK, DecidingOK
<1>3. /\ DOMAIN old \subseteq DOMAIN new
      /\ \A i \in DOMAIN old : new[i].sku = old[i].sku
      /\ \/ \A i \in DOMAIN new : new[i].estado # "ACTIVE"
         \/ /\ u.short # {} /\ u.becomes = "CONFIRMED"
            /\ \A i \in DOMAIN new : i \in DOMAIN old /\ new[i].estado = old[i].estado
  <2>0. /\ DOMAIN old \subseteq DOMAIN new
        /\ \A i \in DOMAIN old : new[i].sku = old[i].sku
    BY <1>1, RowsWrittenAre
  <2>1. CASE u.short = {}
    <3>1. LeavesRows[u.becomes] # "ACTIVE"
      BY <1>1 DEF LeavesRows
    <3>2. \A i \in DOMAIN old : i \notin u.rows => old[i].estado # "ACTIVE"
      BY <1>2, <2>1 DEF ActiveRows, IsActive
    <3>3. \A i \in DOMAIN new : new[i].estado # "ACTIVE"
      BY <1>1, <3>1, <3>2, RowsWrittenAre
    <3> QED BY <2>0, <3>3
  <2>2. CASE u.short # {}
    <3>1. u.becomes = "CONFIRMED" /\ u.rows = {} /\ DOMAIN u.mine = {}
      BY <1>1, <2>2 DEF TransactionOK, ShortOK
    <3>2. \A i \in DOMAIN new : i \in DOMAIN old /\ new[i].estado = old[i].estado
      BY <1>1, <3>1, RowsWrittenAre
    <3> QED BY <2>0, <2>2, <3>1, <3>2
  <2> QED BY <2>1, <2>2
<1> HIDE DEF new
<1>4. ASSUME NEW o \in Orders
      PROVE  /\ DOMAIN reservations[o] \subseteq DOMAIN reservations'[o]
             /\ \A i \in DOMAIN reservations[o] : reservations'[o][i].sku = reservations[o][i].sku
             /\ ActiveRows(o)' \subseteq ActiveRows(o)
  <2>1. CASE o # u.order
    BY <1>1, <2>1 DEF ActiveRows, IsActive
  <2>2. CASE o = u.order
    BY <1>1, <1>3, <2>2 DEF ActiveRows, IsActive
  <2> QED BY <2>1, <2>2
<1>5. ASSUME NEW s \in Skus PROVE ActiveRowsOf(s)' \subseteq ActiveRowsOf(s)
  <2>1. \A o \in Orders : ActiveRows(o) \subseteq DOMAIN reservations[o]
    BY DEF ActiveRows
  <2> QED BY <1>4, <2>1 DEF ActiveRowsOf
<1>6. ASSUME NEW s \in Skus, RowOf("inventory", s) \notin u.held PROVE onHand'[s] = onHand[s]
  <2>1. CASE u.becomes = "CANCELED"
    BY <2>1 DEF CommitOrder
  <2>2. CASE u.becomes = "CONFIRMED"
    <3>1. u.duty = "confirm"
      BY <1>1, <2>2 DEF TransactionOK, DecidingOK, Deciding
    <3>2. s \notin TakenBy(u)
      BY <1>1, <1>6, <2>2, <3>1 DEF TransactionOK, FlushOK, WillHold
    <3> QED BY <2>2, <3>2 DEF CommitOrder, StockWritten, SkusTaken, TakenBy
  <2> QED BY <1>1, <2>1, <2>2
<1>7. LeavesOthers(w)
  <2>1. \A o \in Orders : estado[o] # "NONE" => estado'[o] # "NONE"
    BY <1>1
  <2>2. \A c : Drafts(c)' \subseteq Drafts(c)
    BY <1>1 DEF Drafts
  <2> QED BY <1>1, <1>4, <1>5, <1>6, <2>1, <2>2 DEF LeavesOthers
<1>8. NoRowsBefore'
  BY <1>1 DEF TxInv, NoRowsBefore
<1>9. OneCommittedDraft'
  BY <1>1 DEF TxInv, OneCommittedDraft
<1>10. HeldStockIsAwaited'
  <2> SUFFICES ASSUME NEW o \in Orders, ActiveRows(o)' # {}
               PROVE  /\ estado'[o] = "DRAFT" \/ (estado'[o] = "CONFIRMED" /\ needs'[o] # {})
                      /\ \A i \in DOMAIN reservations'[o] : reservations'[o][i].estado # "CONVERTED"
    BY DEF HeldStockIsAwaited
  <2>1. ActiveRows(o) # {}
    BY <1>4
  <2>2. \A i \in DOMAIN reservations[o] : reservations[o][i].estado # "CONVERTED"
    BY <2>1 DEF TxInv, HeldStockIsAwaited
  <2>3. CASE o # u.order
    BY <1>1, <2>1, <2>3, CommitOrderFacts DEF TxInv, HeldStockIsAwaited
  <2>4. CASE o = u.order
    <3>1. ~ \A i \in DOMAIN new : new[i].estado # "ACTIVE"
      BY <1>1, <2>4 DEF ActiveRows, IsActive
    <3>2. /\ u.short # {} /\ u.becomes = "CONFIRMED"
          /\ \A i \in DOMAIN new : i \in DOMAIN old /\ new[i].estado = old[i].estado
      BY <1>3, <3>1
    <3>3. needs'[o] # {}
      BY <2>4, <3>2, CommitOrderFacts
    <3> QED BY <1>1, <2>2, <2>4, <3>2, <3>3
  <2> QED BY <2>3, <2>4
<1> QED BY <1>1, <1>5, <1>7, <1>8, <1>9, <1>10, CommitOrderType, OthersStep DEF TxInv

-----------------------------------------------------------------------------
(* The invariant is inductive.                                             *)
LEMMA RequestStep ==
  ASSUME TxInv, NEW w \in Workers, Request(w)
  PROVE  TxInv'
<1>1. Unpublished
  BY DEF Request, Unpublished, TxInv, TypeOK
<1> QED BY <1>1, StartDraftStep, StartConfirmStep, StartCancelStep, StartReceiveStep DEF Request

LEMMA StatementStep ==
  ASSUME TxInv, NEW w \in Workers, Statement(w)
  PROVE  TxInv'
<1>1. Unpublished
  BY DEF Statement, Unpublished, TxInv, TypeOK
<1>2. DeadlockVictim(w) => TxInv'
  BY <1>1, RollbackStep DEF DeadlockVictim
<1> QED BY <1>1, <1>2, InsertOrderStep, ReserveStockStep, ConfirmOrderStep, ClassifyStep,
           ReconcileReservationsStep, DeductStockStep, ReleaseActiveReservationsStep, FlushStep
        DEF Statement

LEMMA CrashStep ==
  ASSUME TxInv, NEW w \in Workers, Crash(w)
  PROVE  TxInv'
<1>1. Unpublished /\ Rollback(w)
  BY DEF Crash, Unpublished, TxInv, TypeOK
<1> QED BY <1>1, RollbackStep

LEMMA ProceedStep ==
  ASSUME TxInv, NEW w \in Workers, Proceed(w)
  PROVE  TxInv'
<1>1. CASE Statement(w)
  BY <1>1, StatementStep
<1>2. CASE Register(w) /\ UNCHANGED <<estado, reservations, onHand, received, needs, crashes>>
  <2>1. sheetRows \in [Orders -> Nat] /\ crashes' \in Nat
    BY <1>2 DEF TxInv, TypeOK
  <2>2. sheetRows' = [sheetRows EXCEPT ![txn[w].order] = @ + 1]
    BY <1>2 DEF Register
  <2>3. txn[w].order \in Orders
    BY <1>2, TransactionFacts DEF Register, TransactionOK, DecidingOK, Deciding
  <2>4. sheetRows' \in [Orders -> Nat]
    BY <2>1, <2>2, <2>3
  <2> QED BY <1>2, <2>1, <2>4, RegisterStep DEF Unpublished
<1>3. CASE CommitOrder(w) /\ UNCHANGED <<sheetRows, crashes>>
  BY <1>3, CommitDraftStep, CommitDecisionStep
<1>4. CASE CommitReceipt(w) /\ UNCHANGED <<sheetRows, crashes>>
  BY <1>4, CommitReceiptStep
<1> QED BY <1>1, <1>2, <1>3, <1>4 DEF Proceed

LEMMA StutteringStep == TxInv /\ UNCHANGED vars => TxInv'
<1> SUFFICES ASSUME TxInv, UNCHANGED vars PROVE TxInv'
  OBVIOUS
<1> USE DEF vars
<1>1. TypeOK' /\ LocksExclusive' /\ NoRowsBefore' /\ OneCommittedDraft'
  BY DEF TxInv, TypeOK, LocksExclusive, NoRowsBefore, OneCommittedDraft
<1>2. HeldStockIsAwaited'
  BY DEF TxInv, HeldStockIsAwaited, ActiveRows, IsActive
<1>3. ASSUME NEW w \in Workers PROVE TransactionOK(w, txn[w])'
  <2>1. TransactionOK(w, txn[w])
    BY DEF TxInv
  <2> QED BY <2>1 DEF TransactionOK, DutyOK, DraftingOK, DecidingOK, MineOK, ShortOK, BookedOK, FlushOK,
        Drafting, Deciding, OwnOrder, Drafts, ActiveRows, IsActive, MineOf, ActiveRowsOf, WillHold,
        TakenBy
<1> QED BY <1>1, <1>2, <1>3 DEF TxInv

LEMMA InvariantStep == TxInv /\ [Next]_vars => TxInv'
<1>1. ASSUME TxInv, NEW w \in Workers, Request(w) \/ Proceed(w) \/ Crash(w) PROVE TxInv'
  BY <1>1, RequestStep, ProceedStep, CrashStep
<1> QED BY <1>1, StutteringStep DEF Next

(* Whatever the number of workers and whatever they serve, the invariant   *)
(* always holds of the transactions of order_lifecycle and orchestrator.   *)
THEOREM TransactionsInvariant == Spec => []TxInv
<1> QED BY Initially, InvariantStep, PTL DEF Spec

(* Every variable keeps its type: in particular a transaction never works  *)
(* on an order, a line or a reservation row that does not exist.           *)
THEOREM TypesKept == Spec => []TypeOK
<1>1. TxInv => TypeOK
  BY DEF TxInv
<1> QED BY <1>1, TransactionsInvariant, PTL

(* Stock is held for a draft, or for a confirmed order that waits for a    *)
(* supplier and of which nothing was taken from the shelf, however         *)
(* confirmations and cancellations of one order overlap                    *)
(* (release_active_reservations, register_order, confirm_and_register).    *)
THEOREM HeldStockIsWaitedFor == Spec => []HeldStockIsAwaited
<1>1. TxInv => HeldStockIsAwaited
  BY DEF TxInv
<1> QED BY <1>1, TransactionsInvariant, PTL

(* A customer has at most one committed draft, whoever creates drafts      *)
(* (create_draft_order and the partial unique index behind it).            *)
THEOREM DraftsAreUnique == Spec => []OneCommittedDraft
<1>1. TxInv => OneCommittedDraft
  BY DEF TxInv
<1> QED BY <1>1, TransactionsInvariant, PTL

(* Locks on a SKU are only ever added up to what is on hand, whatever      *)
(* receipts and confirmations commit meanwhile (reserve_stock).            *)
THEOREM LocksFitTheShelf == Spec => NoDoubleBooking
<1>1. ASSUME TxInv, [Next]_vars
      PROVE  [\A s \in Skus :
                Cardinality(ActiveRowsOf(s)') > Cardinality(ActiveRowsOf(s))
                  => Cardinality(ActiveRowsOf(s)') <= onHand'[s]]_vars
  <2> SUFFICES ASSUME NEW s \in Skus, Next,
                      Cardinality(ActiveRowsOf(s)') > Cardinality(ActiveRowsOf(s))
               PROVE  Cardinality(ActiveRowsOf(s)') <= onHand'[s]
    BY <1>1
  <2>1. IsFiniteSet(ActiveRowsOf(s)) /\ Cardinality(ActiveRowsOf(s)) \in Nat
    BY <1>1, ActiveFinite DEF TxInv
  <2>2. ASSUME ActiveRowsOf(s)' \subseteq ActiveRowsOf(s) PROVE FALSE
    <3>1. Cardinality(ActiveRowsOf(s)') <= Cardinality(ActiveRowsOf(s))
          /\ Cardinality(ActiveRowsOf(s)') \in Nat
      BY <2>1, <2>2, FS_Subset, FS_CardinalityType
    <3> QED BY <2>1, <3>1
  <2>3. PICK w \in Workers : Request(w) \/ Proceed(w) \/ Crash(w)
    BY DEF Next
  <2>4. reservations' # reservations
    BY <2>2 DEF ActiveRowsOf, ActiveRows, IsActive
  <2>5. CommitOrder(w) /\ UNCHANGED <<sheetRows, crashes>>
    BY <2>3, <2>4 DEF Request, Proceed, Statement, Crash, CommitReceipt
  <2>6. Drafting(txn[w])
    BY <1>1, <2>2, <2>5, CommitDecisionStep
  <2> DEFINE u == txn[w]
             added == {<<u.order, i>> : i \in MineOf(u, s)}
  <2>7. onHand' = onHand /\ ActiveRowsOf(s)' \subseteq ActiveRowsOf(s) \cup added
    BY <1>1, <2>5, <2>6, DraftAdds
  <2>8. u \in Transaction /\ TransactionOK(w, u) /\ onHand[s] \in Int
    BY <1>1, TransactionFacts DEF TxInv, TypeOK
  <2>9. IsFiniteSet(added) /\ Cardinality(added) \in Nat
        /\ Cardinality(added) <= Cardinality(MineOf(u, s)) /\ Cardinality(MineOf(u, s)) \in Nat
    <3> DEFINE place == [i \in MineOf(u, s) |-> <<u.order, i>>]
    <3>1. place \in Surjection(MineOf(u, s), added)
      BY DEF Surjection
    <3>2. IsFiniteSet(MineOf(u, s)) /\ Cardinality(MineOf(u, s)) \in Nat
      BY <2>8, MineFinite
    <3> HIDE DEF added, place
    <3> QED BY <3>1, <3>2, FS_Surjection, FS_CardinalityType
  <2>10. MineOf(u, s) # {} /\ u.duty = "quote"
    <3>1. MineOf(u, s) # {}
      BY <2>2, <2>7
    <3>2. u.mine # <<>>
      BY <3>1 DEF MineOf
    <3> QED BY <2>6, <2>8, <3>1, <3>2 DEF TransactionOK, MineOK, ShortOK, Drafting
  <2>11. Cardinality(ActiveRowsOf(s)) + Cardinality(MineOf(u, s)) <= onHand[s]
    BY <2>8, <2>10 DEF TransactionOK, BookedOK
  <2> HIDE DEF added
  <2>12. Cardinality(ActiveRowsOf(s)') <= Cardinality(ActiveRowsOf(s)) + Cardinality(added)
         /\ Cardinality(ActiveRowsOf(s)') \in Nat
    <3> DEFINE both == ActiveRowsOf(s) \cup added
    <3>1. IsFiniteSet(both) /\ Cardinality(both)
            = Cardinality(ActiveRowsOf(s)) + Cardinality(added) - Cardinality(ActiveRowsOf(s) \cap added)
      BY <2>1, <2>9, FS_Union
    <3>2. IsFiniteSet(ActiveRowsOf(s) \cap added) /\ Cardinality(ActiveRowsOf(s) \cap added) \in Nat
      BY <2>1, FS_Intersection, FS_CardinalityType
    <3>3. IsFiniteSet(ActiveRowsOf(s)') /\ Cardinality(ActiveRowsOf(s)') <= Cardinality(both)
          /\ Cardinality(ActiveRowsOf(s)') \in Nat
      BY <2>7, <3>1, FS_Subset, FS_CardinalityType
    <3> HIDE DEF both
    <3> QED BY <2>1, <2>9, <3>1, <3>2, <3>3, FS_CardinalityType
  <2> QED BY <2>1, <2>7, <2>8, <2>9, <2>11, <2>12
<1> QED BY <1>1, TransactionsInvariant, PTL DEF Spec, NoDoubleBooking

=============================================================================
