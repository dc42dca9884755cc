--------------------------- MODULE OrderLifecycle ---------------------------
(***************************************************************************)
(* The order machine of the program, from the quote to the delivery, with  *)
(* the stock and the supplier purchase orders its transitions move:        *)
(* src/src/order_lifecycle, src/src/orchestrator/approval.py,              *)
(* src/src/agents/{customer,dispatch,inventory}.py, src/src/sourcing,      *)
(* src/src/purchasing, src/src/scheduler/sweeper.py and the back-office    *)
(* actions that call them.                                                 *)
(*                                                                         *)
(* One action is one committed database transaction.  A handler that       *)
(* raises rolls its transaction back, so a condition under which it raises *)
(* is a guard: the attempt changes nothing.                                *)
(***************************************************************************)
EXTENDS StockLedger, Sequences

Folding == INSTANCE FiniteSetsExt

CONSTANTS
  Suppliers, NoSupplier,
  CustomerOf,      \* the customer of each order
  OpeningStock,    \* the on-hand stock of each SKU at the start
  Kinds,           \* the lines an order may hold: a SKU from the local
                   \* catalog, or from the RAG catalog with its supplier
  SuppliersOf,     \* the suppliers the catalog search may find for each SKU
  PendingChoices,  \* may a quote lack an exchange rate (conversion_pending)?
  Uncalled,        \* TRUE: also the operations of the lifecycle's interface
                   \* that no handler calls yet (modify_order,
                   \* add_draft_item, expire_reservations)
  MaxLines,        \* bound: lines of one chat draft
  MaxQuantity,     \* bound: units of one line
  MaxRegistered,   \* bound: Sheets rows of one order (confirm after modify)
  MaxPOs,          \* bound: purchase orders of one supplier
  MaxSupplied,     \* bound: units of one SKU ever entered, net
  MaxShrunk        \* bound: units of one SKU written off by hand

ASSUME NoSupplierAssumption == NoSupplier \notin Suppliers

ASSUME KindsAssumption ==
  /\ IsFiniteSet(Kinds)
  /\ \A k \in Kinds :
       /\ k.sku \in Skus
       /\ k.source \in {"LOCAL", "RAG"}
       /\ k.supplier \in Suppliers \cup {NoSupplier}
  /\ \A k, l \in Kinds : k.sku = l.sku /\ k.source = l.source => k = l

ASSUME OpeningStockAssumption == OpeningStock \in [Skus -> Nat]

ASSUME SuppliersOfAssumption == SuppliersOf \in [Skus -> SUBSET Suppliers]

ASSUME BoundsAssumption ==
  /\ PendingChoices \subseteq BOOLEAN /\ Uncalled \in BOOLEAN
  /\ MaxLines \in Nat /\ MaxQuantity \in Nat /\ MaxRegistered \in Nat
  /\ MaxPOs \in Nat /\ MaxSupplied \in Nat /\ MaxShrunk \in Nat

VARIABLES
  estado, needsRequote, conversionPending, sourcing, items,
  registered,      \* the rows appended to Google Sheets for each order
  offered,         \* the SKUs whose supplier the chat asked the owner for
  book,            \* sourcing needs and purchase orders (PurchaseBook)
  inactivo         \* the suppliers soft-deleted in the back office

orderVars == << estado, needsRequote, conversionPending, sourcing, items,
                registered, offered >>
vars == << ledgerVars, orderVars, book, inactivo >>

Book == INSTANCE PurchaseBook

OrderEstado == {"NONE", "DRAFT", "CONFIRMED", "PICKING", "READY_FOR_DELIVERY",
                "CANCELED", "CLOSED"}

SourcingState == {"PENDING_ASSEMBLY", "IN_PREPARATION", "CANCELLED"}

Item == [order : Orders, line : Nat, sku : Skus, source : {"LOCAL", "RAG"},
         supplier : Suppliers \cup {NoSupplier}, cantidad : Nat]

TypeOK ==
  /\ LedgerTypeOK
  /\ estado \in [Orders -> OrderEstado]
  /\ needsRequote \subseteq Orders
  /\ conversionPending \subseteq Orders
  /\ sourcing \in [Orders -> SourcingState]
  /\ items \subseteq Item /\ IsFiniteSet(items)
  /\ registered \in [Orders -> Nat]
  /\ offered \in [Orders -> SUBSET Skus]
  /\ book.needs \in [Orders -> [Skus -> Book!Need]]
  /\ \A p \in Suppliers : book.pos[p] \in Seq(Book!PurchaseOrder)
  /\ inactivo \subseteq Suppliers

Init ==
  /\ onHand = OpeningStock /\ supplied = OpeningStock
  /\ active = {} /\ converted = {} /\ lapsed = {}
  /\ shrunk = [s \in Skus |-> 0]
  /\ estado = [o \in Orders |-> "NONE"]
  /\ needsRequote = {} /\ conversionPending = {}
  /\ sourcing = [o \in Orders |-> "PENDING_ASSEMBLY"]
  /\ items = {}
  /\ registered = [o \in Orders |-> 0]
  /\ offered = [o \in Orders |-> {}]
  /\ book = Book!EmptyBook
  /\ inactivo = {}

-----------------------------------------------------------------------------
(* Order lines.                                                            *)

LocalItems(o) == { i \in OfOrder(items, o) : i.source = "LOCAL" }

RagItems(o) == OfOrder(items, o) \ LocalItems(o)

(* The LOCAL quantity of SKU s, over all the lines that name it.           *)
Wanted(o, s) == Quantity(OfSku(LocalItems(o), s))

SameLine(i, k) == i.sku = k.sku /\ i.source = k.source

NewItem(o, n, k, quantity) ==
  [order |-> o, line |-> n, sku |-> k.sku, source |-> k.source,
   supplier |-> k.supplier, cantidad |-> quantity]

(* Mutant: neither the guard nor the index.                                *)
AnyNumberOfDrafts(o) == TRUE

(* The uq_orders_one_draft_per_customer index and the guards before it.    *)
NoOtherDraft(o) ==
  \A q \in Orders \ {o} : CustomerOf[q] = CustomerOf[o] => estado[q] # "DRAFT"

-----------------------------------------------------------------------------
(* Drafts.                                                                 *)

(* A chat draft: a list of lines as the owner added them; the same product *)
(* added twice is two lines.                                               *)
ChatLines(o) ==
  UNION { { { NewItem(o, n, f[n][1], f[n][2]) : n \in 1 .. len } :
              f \in [1 .. len -> Kinds \X (1 .. MaxQuantity)] } :
          len \in 1 .. MaxLines }

LockOf(i) == [order |-> i.order, sku |-> i.sku, line |-> i.line, cantidad |-> i.cantidad]

(* Mutant: a line does not see the locks of the lines before it.           *)
QuoteLocksUnflushed(lines, locks) ==
  /\ locks \subseteq { LockOf(i) : i \in { j \in lines : j.source = "LOCAL" } }
  /\ \A i \in { j \in lines : j.source = "LOCAL" } :
       LockOf(i) \in locks <=> Available(i.sku) >= i.cantidad

(* The lines are reserved one after the other, each one only if what the   *)
(* earlier ones left available covers all of it.                           *)
QuoteLocks(lines, locks) ==
  /\ locks \subseteq { LockOf(i) : i \in { j \in lines : j.source = "LOCAL" } }
  /\ \A i \in { j \in lines : j.source = "LOCAL" } :
       LockOf(i) \in locks <=>
         Available(i.sku) - Quantity({ r \in OfSku(locks, i.sku) : r.line < i.line })
           >= i.cantidad

PersistFinalizedDraft(o) ==
  /\ estado[o] = "NONE" /\ NoOtherDraft(o)
  /\ \E lines \in ChatLines(o), pending \in PendingChoices :
       /\ items' = items \cup lines
       /\ conversionPending' = IF pending THEN conversionPending \cup {o} ELSE conversionPending
       /\ \E locks \in SUBSET { LockOf(i) : i \in lines } :
            QuoteLocks(lines, locks) /\ active' = active \cup locks
  /\ estado' = [estado EXCEPT ![o] = "DRAFT"]
  /\ UNCHANGED << onHand, converted, lapsed, supplied, shrunk, needsRequote,
                  sourcing, registered, offered, book, inactivo >>

(* The lines of the back-office form: one quantity per SKU and source.     *)
FormLines == UNION { [K -> 1 .. MaxQuantity] : K \in SUBSET Kinds }

CreateManualOrder(o) ==
  /\ estado[o] = "NONE" /\ NoOtherDraft(o)
  /\ \E form \in FormLines :
       /\ DOMAIN form # {}
       /\ items' = items \cup { NewItem(o, 1, k, form[k]) : k \in DOMAIN form }
  /\ estado' = [estado EXCEPT ![o] = "DRAFT"]
  /\ UNCHANGED << ledgerVars, needsRequote, conversionPending, sourcing,
                  registered, offered, book, inactivo >>

(* The form describes the target of the draft.  Existing lines are looked  *)
(* up by SKU and source, and of two lines with the same key only the last  *)
(* one loaded is found: that one takes the form's quantity or is deleted.  *)
UpdateManualOrder(o) ==
  /\ estado[o] = "DRAFT" /\ o \notin conversionPending
  /\ \E form \in FormLines, found \in SUBSET OfOrder(items, o) :
       /\ \A i \in OfOrder(items, o) : \E j \in found : SameLine(i, j)
       /\ \A i, j \in found : SameLine(i, j) => i = j
       /\ LET kept == { [p[1] EXCEPT !.cantidad = form[p[2]]] :
                          p \in { q \in found \X DOMAIN form : SameLine(q[1], q[2]) } }
              fresh == { NewItem(o, 1, k, form[k]) :
                           k \in { l \in DOMAIN form : \A j \in found : ~SameLine(j, l) } }
          IN  items' = (items \ found) \cup kept \cup fresh
  /\ UNCHANGED << ledgerVars, estado, needsRequote, conversionPending, sourcing,
                  registered, offered, book, inactivo >>

(* One line of the SKU is deleted; its reservation stays.                  *)
RemoveDraftItem(o) ==
  /\ estado[o] = "DRAFT"
  /\ \E i \in OfOrder(items, o) : items' = items \ {i}
  /\ UNCHANGED << ledgerVars, estado, needsRequote, conversionPending, sourcing,
                  registered, offered, book, inactivo >>

(* An existing SKU accumulates, whatever its source; a new one becomes a    *)
(* line without a source, which every reader takes as LOCAL.                *)
AddDraftItem(o) ==
  /\ Uncalled
  /\ estado[o] = "DRAFT"
  /\ \E s \in Skus, quantity \in 1 .. MaxQuantity :
       LET same == OfSku(OfOrder(items, o), s)
           local == [sku |-> s, source |-> "LOCAL", supplier |-> NoSupplier]
       IN  \/ same = {} /\ items' = items \cup {NewItem(o, 1, local, quantity)}
           \/ \E i \in same :
                /\ i.cantidad + quantity <= MaxQuantity
                /\ items' = (items \ {i}) \cup {[i EXCEPT !.cantidad = @ + quantity]}
  /\ UNCHANGED << ledgerVars, estado, needsRequote, conversionPending, sourcing,
                  registered, offered, book, inactivo >>

(* Orders whose missing rates were loaded are priced and unblocked.        *)
RecomputePendingConversion ==
  /\ \E priced \in SUBSET conversionPending \ {{}} :
       conversionPending' = conversionPending \ priced
  /\ UNCHANGED << ledgerVars, estado, needsRequote, sourcing, items, registered,
                  offered, book, inactivo >>

-----------------------------------------------------------------------------
(* Reservation time-out.                                                   *)

TTLRunsOut(o) == Lapse(o) /\ UNCHANGED << orderVars, book, inactivo >>

Stale(o) == OfOrder(active, o) # {} /\ o \in lapsed

SweepExpired ==
  /\ \E o \in Orders : Stale(o)
  /\ Expire
  /\ needsRequote' = needsRequote \cup { o \in Orders : Stale(o) }
  /\ UNCHANGED << estado, conversionPending, sourcing, items, registered,
                  offered, book, inactivo >>

ExpireReservations(o) ==
  /\ Uncalled
  /\ Stale(o)
  /\ active' = active \ OfOrder(active, o)
  /\ needsRequote' = needsRequote \cup {o}
  /\ UNCHANGED << onHand, converted, lapsed, supplied, shrunk, estado,
                  conversionPending, sourcing, items, registered, offered,
                  book, inactivo >>

RequiresRequote(o) == o \in needsRequote \/ Stale(o)

-----------------------------------------------------------------------------
(* The confirm ceremony.                                                   *)

(* Mutant: orders without an exchange rate are not held back.              *)
MayConfirmUnpriced(o) == estado[o] = "DRAFT" /\ ~RequiresRequote(o)

MayConfirm(o) ==
  o \notin conversionPending /\ estado[o] = "DRAFT" /\ ~RequiresRequote(o)

(* RAG lines with an ACTIVO supplier are bought without asking.            *)
AutoSourced(o) == { i \in RagItems(o) : i.supplier \in Suppliers \ inactivo }

SupplierOfSku(o, s) == (CHOOSE i \in OfSku(RagItems(o), s) : TRUE).supplier

RagQuantity(o, s) == Quantity(OfSku(RagItems(o), s))

AutoSourcedSkus(o) == { i.sku : i \in AutoSourced(o) }

UpsertRag(b, o, s) == Book!UpsertNeed(b, o, s, RagQuantity(o, s))

AutoSourceRaises(o) ==
  \E s \in AutoSourcedSkus(o) :
    Book!AccumulateRaises(UpsertRag(book, o, s), o, s, SupplierOfSku(o, s))

AfterAutoSource(o) ==
  Folding!FoldSet(LAMBDA s, b : Book!AccumulateNeed(UpsertRag(b, o, s), o, s, SupplierOfSku(o, s)),
                  book, AutoSourcedSkus(o))

(* The lines that are checked against the stock: the LOCAL ones, one by    *)
(* one, and the RAG SKUs no supplier was found for, each in total.         *)
Classified(o) ==
  LocalItems(o) \cup
  { NewItem(o, 0, [sku |-> s, source |-> "RAG", supplier |-> NoSupplier], RagQuantity(o, s)) :
      s \in { i.sku : i \in RagItems(o) } \ AutoSourcedSkus(o) }

AvailabilityForOrder(o, s) ==
  Available(s) + Quantity(OfSku(OfOrder(active, o), s))

Gap(o, i) ==
  i.cantidad - (IF AvailabilityForOrder(o, i.sku) > 0 THEN AvailabilityForOrder(o, i.sku) ELSE 0)

Missing(o) == { i \in Classified(o) : Gap(o, i) > 0 }

MissingSkus(o) == { i.sku : i \in Missing(o) }

SourcingCase(o, withSuppliers) ==
  IF Missing(o) = {} THEN "A"
  ELSE IF MissingSkus(o) \subseteq withSuppliers THEN "B" ELSE "C"

BoundedPOs == \A p \in Suppliers : Len(book'.pos[p]) <= MaxPOs

(* The chat then asks the owner to choose suppliers for what is missing.   *)
OfferSuppliers(o, withSuppliers) ==
  offered' = IF withSuppliers = {} THEN offered
             ELSE [offered EXCEPT ![o] = MissingSkus(o) \cap withSuppliers]

(* Mutant: a lock of any quantity will do.                                 *)
AllLocks(o) == OfOrder(active, o)

(* Reservations that no longer match their line are released, and a LOCAL  *)
(* SKU left without one is reserved afresh.                                *)
MatchingLocks(o) == { r \in OfOrder(active, o) : r.cantidad = Wanted(o, r.sku) }

UnlockedSkus(o) == { s \in Skus : Wanted(o, s) > 0 /\ OfSku(MatchingLocks(o), s) = {} }

FreshLocks(o) ==
  { [order |-> o, sku |-> s, line |-> 0, cantidad |-> Wanted(o, s)] : s \in UnlockedSkus(o) }

Reservable(o) ==
  \A s \in UnlockedSkus(o) :
    onHand[s] - Quantity({ r \in LiveLocks(s) : r.order # o }) >= Wanted(o, s)

ConvertedLocks(o) == MatchingLocks(o) \cup FreshLocks(o)

ConfirmCaseA(o, withSuppliers) ==
  /\ MayConfirm(o) /\ ~AutoSourceRaises(o)
  /\ SourcingCase(o, withSuppliers) = "A"
  /\ Reservable(o)
  /\ registered[o] < MaxRegistered
  /\ estado' = [estado EXCEPT ![o] = "CONFIRMED"]
  /\ active' = active \ OfOrder(active, o)
  /\ converted' = converted \cup ConvertedLocks(o)
  /\ registered' = [registered EXCEPT ![o] = @ + 1]
  /\ onHand' = [s \in Skus |-> onHand[s] - Quantity(OfSku(ConvertedLocks(o), s))]
  /\ book' = AfterAutoSource(o) /\ BoundedPOs
  /\ sourcing' = IF AutoSourced(o) = {} THEN sourcing
                 ELSE [sourcing EXCEPT ![o] = "IN_PREPARATION"]
  /\ UNCHANGED << lapsed, supplied, shrunk, needsRequote, conversionPending,
                  items, offered, inactivo >>

(* One need per missing SKU: of several missing lines of one SKU the last  *)
(* one gives the need its quantity.                                        *)
AfterNeeds(o, last) ==
  Folding!FoldSet(LAMBDA s, b : Book!UpsertNeed(b, o, s, Gap(o, last[s])),
                  AfterAutoSource(o), MissingSkus(o))

(* The reservations stay ACTIVE and nothing is deducted: the order waits   *)
(* for the owner to choose suppliers.                                      *)
ConfirmCaseB(o, withSuppliers) ==
  /\ MayConfirm(o) /\ ~AutoSourceRaises(o)
  /\ SourcingCase(o, withSuppliers) = "B"
  /\ estado' = [estado EXCEPT ![o] = "CONFIRMED"]
  /\ \E last \in [MissingSkus(o) -> Missing(o)] :
       /\ \A s \in MissingSkus(o) : last[s].sku = s
       /\ book' = AfterNeeds(o, last)
  /\ BoundedPOs
  /\ OfferSuppliers(o, withSuppliers)
  /\ UNCHANGED << ledgerVars, needsRequote, conversionPending, sourcing, items,
                  registered, inactivo >>

ConfirmCaseC(o, withSuppliers) ==
  /\ MayConfirm(o) /\ ~AutoSourceRaises(o)
  /\ SourcingCase(o, withSuppliers) = "C"
  /\ ~Book!ReleaseRaises(AfterAutoSource(o), o)
  /\ estado' = [estado EXCEPT ![o] = "CANCELED"]
  /\ active' = active \ OfOrder(active, o)
  /\ book' = Book!ReleaseOrderNeeds(AfterAutoSource(o), o) /\ BoundedPOs
  /\ sourcing' = [sourcing EXCEPT ![o] = "CANCELLED"]
  /\ OfferSuppliers(o, withSuppliers)
  /\ UNCHANGED << onHand, converted, lapsed, supplied, shrunk, needsRequote,
                  conversionPending, items, registered, inactivo >>

-----------------------------------------------------------------------------
(* Supplier selection in the chat (Case B).                                *)

AfterSelection(o, answer) ==
  Folding!FoldSet(LAMBDA s, b : Book!AccumulateNeed(b, o, s, answer[s]), book, DOMAIN answer)

(* The owner answers with one supplier per SKU, for some of the SKUs the   *)
(* chat asked about; an order without a need for one of them, a supplier   *)
(* meanwhile INACTIVO, or a selection already executed raises.             *)
ConfirmSelection(o) ==
  \E answer \in UNION { [K -> Suppliers] : K \in SUBSET offered[o] } :
    /\ DOMAIN answer # {}
    /\ \A s \in DOMAIN answer :
         /\ answer[s] \in SuppliersOf[s]
         /\ Book!HasNeed(book, o, s)
         /\ answer[s] \notin inactivo
         /\ ~Book!AccumulateRaises(book, o, s, answer[s])
    /\ estado[o] = "DRAFT" => ~RequiresRequote(o)
    /\ book' = AfterSelection(o, answer)
    /\ BoundedPOs
    /\ sourcing' = [sourcing EXCEPT ![o] = "IN_PREPARATION"]
    /\ estado' = IF estado[o] = "DRAFT" THEN [estado EXCEPT ![o] = "CONFIRMED"] ELSE estado
    /\ UNCHANGED << ledgerVars, needsRequote, conversionPending, items, registered,
                    offered, inactivo >>

-----------------------------------------------------------------------------
(* Fulfilment, modification and cancellation.                              *)

Advance(o, from, to) ==
  /\ estado[o] = from
  /\ estado' = [estado EXCEPT ![o] = to]
  /\ UNCHANGED << ledgerVars, needsRequote, conversionPending, sourcing, items,
                  registered, offered, book, inactivo >>

StartPicking(o) == Advance(o, "CONFIRMED", "PICKING")
CompletePicking(o) == Advance(o, "PICKING", "READY_FOR_DELIVERY")
(* Mutant: a state that the enumeration does not have.                     *)
DeliverOrderMisnamed(o) == Advance(o, "READY_FOR_DELIVERY", "DELIVERED")

DeliverOrder(o) == Advance(o, "READY_FOR_DELIVERY", "CLOSED")

(* Mutant: every lock on the order's SKUs, whoever holds it.               *)
ReleaseLocksBySku(o) ==
  active' = { r \in active : OfSku(OfOrder(active, o), r.sku) = {} }

ReleaseActiveReservations(o) == active' = active \ OfOrder(active, o)

(* Mutant: the rows stay CONVERTED, to be restored again.                  *)
RestoreKeepingRows(o) ==
  /\ onHand' = [s \in Skus |-> onHand[s] + Deducted(o, s)]
  /\ UNCHANGED converted

(* Mutant: nothing is restored.                                            *)
RestoreNothing(o) == UNCHANGED << onHand, converted >>

RestoreConvertedStock(o) ==
  /\ onHand' = [s \in Skus |-> onHand[s] + Deducted(o, s)]
  /\ converted' = converted \ OfOrder(converted, o)

Cancel(o) ==
  /\ ~Book!ReleaseRaises(book, o)
  /\ estado' = [estado EXCEPT ![o] = "CANCELED"]
  /\ needsRequote' = needsRequote \ {o}
  /\ book' = Book!ReleaseOrderNeeds(book, o)
  /\ UNCHANGED << lapsed, supplied, shrunk, conversionPending, sourcing, items,
                  registered, offered, inactivo >>

CancelBeforePicking(o) ==
  /\ estado[o] \in {"DRAFT", "CONFIRMED"}
  /\ ReleaseActiveReservations(o)
  /\ UNCHANGED << onHand, converted >>
  /\ Cancel(o)

(* Mutant: delivered orders can be cancelled.                              *)
CancelEvenClosed(o) ==
  /\ estado[o] \in {"PICKING", "READY_FOR_DELIVERY", "CLOSED"}
  /\ RestoreConvertedStock(o)
  /\ UNCHANGED active
  /\ Cancel(o)

CancelLate(o) ==
  /\ estado[o] \in {"PICKING", "READY_FOR_DELIVERY"}
  /\ RestoreConvertedStock(o)
  /\ UNCHANGED active
  /\ Cancel(o)

ModifyOrder(o) ==
  /\ Uncalled
  /\ estado[o] = "CONFIRMED" /\ NoOtherDraft(o)
  /\ registered[o] < MaxRegistered
  /\ RestoreConvertedStock(o)
  /\ ReleaseActiveReservations(o)
  /\ estado' = [estado EXCEPT ![o] = "DRAFT"]
  /\ needsRequote' = needsRequote \ {o}
  /\ UNCHANGED << lapsed, supplied, shrunk, conversionPending, sourcing, items,
                  registered, offered, book, inactivo >>

-----------------------------------------------------------------------------
(* Purchase orders, stock counts and suppliers in the back office.         *)

SendPO(p, n) ==
  /\ Book!CanSend(book, p, n)
  /\ book' = Book!SendPO(book, p, n)
  /\ UNCHANGED << ledgerVars, orderVars, inactivo >>

CancelPO(p, n) ==
  /\ Book!CanCancel(book, p, n)
  /\ book' = Book!CancelPO(book, p, n)
  /\ UNCHANGED << ledgerVars, orderVars, inactivo >>

StockIn(s, n) ==
  /\ supplied[s] + n <= MaxSupplied
  /\ onHand' = [onHand EXCEPT ![s] = @ + n]
  /\ supplied' = [supplied EXCEPT ![s] = @ + n]
  /\ UNCHANGED << active, converted, lapsed, shrunk >>

StockOut(s, n) ==
  /\ onHand[s] - n >= 0
  /\ shrunk[s] + n <= MaxShrunk
  /\ onHand' = [onHand EXCEPT ![s] = @ - n]
  /\ supplied' = [supplied EXCEPT ![s] = @ - n]
  /\ shrunk' = [shrunk EXCEPT ![s] = @ + n]
  /\ UNCHANGED << active, converted, lapsed >>

ReceivePO(p, n, s, quantity) ==
  /\ Book!CanReceive(book, p, n, s, quantity)
  /\ book' = Book!ReceivePO(book, p, n, s, quantity)
  /\ StockIn(s, quantity)
  /\ UNCHANGED << orderVars, inactivo >>

(* The owner counts: a barcode adjustment or a direct edit of the stock,   *)
(* up or down but not below zero; a supplier receipt only adds.            *)
AdjustStock(s, n) ==
  /\ StockIn(s, n) \/ StockOut(s, n)
  /\ UNCHANGED << orderVars, book, inactivo >>

ToggleSupplier(p) ==
  /\ inactivo' = IF p \in inactivo THEN inactivo \ {p} ELSE inactivo \cup {p}
  /\ UNCHANGED << ledgerVars, orderVars, book >>

-----------------------------------------------------------------------------

OrderStep(o) ==
  \/ PersistFinalizedDraft(o) \/ CreateManualOrder(o)
  \/ UpdateManualOrder(o) \/ RemoveDraftItem(o) \/ AddDraftItem(o)
  \/ TTLRunsOut(o) \/ ExpireReservations(o)
  \/ \E withSuppliers \in SUBSET { s \in Skus : SuppliersOf[s] # {} } :
       \/ ConfirmCaseA(o, withSuppliers)
       \/ ConfirmCaseB(o, withSuppliers)
       \/ ConfirmCaseC(o, withSuppliers)
  \/ ConfirmSelection(o)
  \/ StartPicking(o) \/ CompletePicking(o) \/ DeliverOrder(o)
  \/ CancelBeforePicking(o) \/ CancelLate(o) \/ ModifyOrder(o)

PurchaseStep(p) ==
  \/ ToggleSupplier(p)
  \/ \E n \in DOMAIN book.pos[p] :
       \/ SendPO(p, n) \/ CancelPO(p, n)
       \/ \E s \in Skus, quantity \in 1 .. MaxQuantity : ReceivePO(p, n, s, quantity)

Next ==
  \/ \E o \in Orders : OrderStep(o)
  \/ \E p \in Suppliers : PurchaseStep(p)
  \/ \E s \in Skus, n \in 1 .. MaxQuantity : AdjustStock(s, n)
  \/ SweepExpired \/ RecomputePendingConversion

Spec == Init /\ [][Next]_vars

-----------------------------------------------------------------------------
(* Safety of the stock.  StockConserved, OversoldOnlyByWriteOff and the    *)
(* refinement LedgerSpec are stated in StockLedger.                        *)

(* A full-stock confirmation deducts at least what the LOCAL lines ask,    *)
(* whatever happened to the quote's locks between the quote and the        *)
(* confirmation: lines edited, removed, locks expired, stock counted       *)
(* (_reconcile_reservations, _convert_reservations, _deduct_stock).        *)
CaseANeverUnderDeducts ==
  [][\A o \in Orders :
       registered'[o] > registered[o] =>
         \A s \in Skus : Deducted(o, s)' >= Wanted(o, s)']_vars

(* Stock is deducted for an order only from its confirmation on: a draft,  *)
(* one brought back by modify_order included, holds no CONVERTED row, so   *)
(* its next confirmation cannot deduct on top of an earlier one.           *)
DraftHoldsNoDeduction ==
  \A o \in Orders : estado[o] \in {"NONE", "DRAFT"} => OfOrder(converted, o) = {}

(* What left the shelf for an order that was handed over never comes back, *)
(* and nothing more is deducted for it (deliver_order is terminal).        *)
DeliveredIsFinal ==
  [][\A o \in Orders : estado[o] = "CLOSED" =>
       /\ estado'[o] = "CLOSED"
       /\ OfOrder(converted, o)' = OfOrder(converted, o)]_vars

(* An order whose prices wait for an exchange rate is sold in no way: by   *)
(* neither confirmation (PendingConversionError) nor supplier selection.   *)
UnpricedNeverSold ==
  \A o \in conversionPending : estado[o] \in {"DRAFT", "CANCELED"}

(* The guards of the three ways into DRAFT (chat, form, modify_order) keep *)
(* uq_orders_one_draft_per_customer.                                       *)
OneDraftPerCustomer ==
  \A o, q \in Orders :
    estado[o] = "DRAFT" /\ estado[q] = "DRAFT" /\ CustomerOf[o] = CustomerOf[q] => o = q

-----------------------------------------------------------------------------
(* Safety of the purchase orders.                                          *)

PO(p) == DOMAIN book.pos[p]

(* The needs, over all orders, that purchase order n of p was built from.  *)
AccumulatedNeeds(p, n, s) ==
  { [order |-> o, cantidad |-> book.needs[o][s].missing] : o \in Book!LinkedOrders(book, p, n, s) }

(* The owner is never asked to send two purchase orders to one supplier at *)
(* a time (open_or_create_po).                                             *)
OneOpenPOPerSupplier ==
  \A p \in Suppliers : Cardinality(Book!OpenPOs(book, p)) <= 1

(* No order ever changes what a supplier was already asked for: selections,*)
(* re-selections and cancellations of any order leave the quantities of a  *)
(* purchase order alone once it is not OPEN.                               *)
ExecutedPOFrozen ==
  [][\A p \in Suppliers : \A n \in PO(p) :
       book.pos[p][n].estado # "OPEN" => book'.pos[p][n].quantity = book.pos[p][n].quantity]_vars

(* A purchase order still to be sent asks for exactly what the linked      *)
(* needs of all orders miss (accumulate_need, _detach_from_previous_po,    *)
(* release_order_needs).                                                   *)
ItemQuantityIsSumOfNeeds ==
  \A p \in Suppliers : \A n \in Book!OpenPOs(book, p) : \A s \in Skus :
    book.pos[p][n].quantity[s] = Quantity(AccumulatedNeeds(p, n, s))

(* A supplier is never credited with more than was ordered, and the state  *)
(* of a purchase order tells the truth about what is still due.            *)
ReceiptsAddUp ==
  \A p \in Suppliers : \A n \in PO(p) :
    LET po == book.pos[p][n]
        due == { s \in Skus : po.received[s] < po.quantity[s] }
    IN  /\ \A s \in Skus : po.received[s] <= po.quantity[s]
        /\ po.estado = "FULLY_RECEIVED" => due = {}
        /\ po.estado = "PARTIALLY_RECEIVED" => due # {} /\ \E s \in Skus : po.received[s] > 0
        /\ po.estado \in {"OPEN", "SENT", "CANCELLED"} => \A s \in Skus : po.received[s] = 0

(* A cancellation, by the owner or by Case C, leaves none of the order's   *)
(* needs on a purchase order still to be sent, and cancels no purchase     *)
(* order that another order's needs are on (release_order_needs).          *)
CancelReleasesOnlyItsOwn ==
  [][\A o \in Orders : estado'[o] = "CANCELED" /\ estado[o] # "CANCELED" =>
       /\ \A s \in Skus : ~Book!LinkedOpen(book', o, s)
       /\ \A p \in Suppliers : \A n \in PO(p) : \A q \in Orders \ {o}, s \in Skus :
            q \in Book!LinkedOrders(book, p, n, s) =>
              book'.pos[p][n].estado = book.pos[p][n].estado]_vars

-----------------------------------------------------------------------------
(* What the program says of itself and the code does not do.               *)

(* "... y el stock restaurado": the reply to a cancellation.  Cancelling   *)
(* before picking restores nothing that the confirmation deducted.         *)
CanceledRestoresStock ==
  \A o \in Orders : estado[o] = "CANCELED" => OfOrder(converted, o) = {}

=============================================================================
