# Verification of the warehouse order system

This directory is a TLA+ development of the order system under `src/src`: a
hardware-store owner takes orders by chat, confirms them against one stock
ledger, buys what is missing from suppliers and registers what is sold in a
spreadsheet.  The modules are read from the Python source; `PROJECT.json`
("map") gives the lines behind every definition.

## 1. The system

Two programs share one PostgreSQL database.

* The **chat process** receives webhooks, routes each message of the owner to a
  handler and answers.  Its handlers are synchronous, so turns are served one
  at a time.
* The **back office** is a web page whose buttons call one operation each, in a
  session of their own, concurrently with the chat and with each other.

A third program, the **rag-api** service, ingests supplier catalogs (PDF) into one
indexed table and answers searches over it; the other two call it over HTTP.
Ingestion runs in background threads, each query opens connections of its own,
and every statement commits by itself.

### Components, their state and what makes them correct

| component | state | operations | hard behaviour | correct when |
|---|---|---|---|---|
| order lifecycle, confirm ceremony (`order_lifecycle/state.py`, `orchestrator/approval.py`) | `orders`, `order_items`, reservations, stock | confirm (Cases A, B, C), cancel, pick, deliver, modify | long sequences of legal calls, locks that lapse, edits between quote and confirmation | stock is conserved, never oversold, deducted at least for what was sold, given back once |
| stock reservations (`agents/inventory.py`) | `stock_reservations`, `inventory` | lock, read availability | contention for the last unit | locks never exceed what is on hand |
| drafts (`agents/customer.py`, `sourcing/draft_order.py`, `backoffice/customer_orders.py`) | `orders`, `order_items` | quote by chat, create and edit by form, reprice | two sources of lines, one draft per customer | one draft per customer; an unpriced order is never sold |
| sourcing (`sourcing/`) | `sourcing_needs`, `orders.sourcing_state` | classify, record needs, select supplier | re-selection, selection after cancellation | needs and purchase orders agree |
| purchase orders (`purchasing/`) | `supplier_purchase_orders`, items | accumulate, detach, release, send, receive, cancel | orders share items | one OPEN order per supplier; sums add up; executed orders are frozen |
| sweeper (`scheduler/sweeper.py`) | reservations, `needs_requote` | tick | races the confirmation; nothing starts it | availability does not change when it runs late |
| transactions (all of the above) | row locks, uncommitted writes | statements at READ COMMITTED | interleaving, deadlock, crash | no double booking, requests end |
| conversation (`orchestrator/session.py`, `router.py`, `agents/`) | one record per sender, 30 minute TTL | route, handle, rehydrate | TTL expiry, rebuilt state, redelivery | a decision reaches the order that was quoted, never an older one; a line is ordered once |
| pricing (`pricing/`) | none | price lines, drafts, pending orders | rounding at each step, missing rates, four callers | every path gives a line one price; waiting for a rate changes nothing; discounts never raise |
| receipt ingestion, adoption (`backoffice/app.py`, `ingestion.py`, `adoption.py`, `sku_mappings.py`) | the page's parsed, resolved and candidate rows; catalog, stock, mappings | parse, resolve, search, assign, mark, confirm, adopt | handlers that overlap, an index rebuilt meanwhile, repeated lines, unflushed rows | a receipt is in the stock as a whole; one code, one product; the supplier of a product is its own |
| supplier master, catalog, clients, price lists | single rows | forms | uniqueness of codes | guards agree with the index |
| supplier search (`integrations/rag.py`, `agents/product_search.py`, `supplier/rag_searcher.py`, `sourcing/product_search.py`) | none | query, exact lookup | a service that hangs, fails or refuses | every query ends; a product has its row's provenance |
| rag-api jobs and ingestion (`services/job_manager.py`, `core/orchestrator.py`, `core/ingestion/`) | jobs in memory, artifacts on disk, the indexed table | extract, chunk, embed, delete, upsert, check | overlapping jobs, failures between phases, restart, equal codes | a completed job indexed exactly its PDF; suppliers keep apart; jobs end |
| rag-api retrieval (`core/retrieval/`) | none | search twice, fuse, fetch, rerank, answer | rows replaced between statements, reordering, a model that refuses | evidence is not denied; fusion respects both searches |
| channels, language model, spreadsheet | none of its own | calls | retries | |

## 2. The modules

| module | models |
|---|---|
| `RowSums` | sums over sets of reservation rows, as cardinalities of sets of units, so that TLAPS can use them |
| `Arrangement` | sorting and filtering a sequence, as counting what comes before each place, so that TLAPS can use them |
| `StockLedger` | abstract specification: lock, deduct, release, give back, count; what reservations promise |
| `PurchaseBook` | purchase orders, items and needs, as operators on one record (`book`) |
| `OrderLifecycle` | the order machine over the ledger and the book: one action per operation |
| `Transactions` | the statements of the operations that touch stock, interleaved |
| `Conversation` | the chat: its memory, routing, the handlers' turns, expiry and rebuilding |
| `JobBoard` | abstract specification: what a client sees of its ingestion jobs |
| `CatalogIngestion` | the threads of the jobs, phase by phase, with their files and the table; implements `JobBoard` |
| `CatalogQuery` | a query and its callers, statement by statement, composed with `CatalogIngestion` |
| `Receipts` | the goods receipts page, the confirmation's transaction, adoption, over an index that is rebuilt |
| `Pricing` | what a line costs, and the chat, the form, the recomputation and the grids that ask |
| `RowSums_proofs`, `OrderLifecycle_proofs`, `Purchasing_proofs`, `Transactions_proofs`, `Conversation_proofs`, `Catalog_proofs`, `Receipts_proofs`, `Pricing_proofs` | theorems |
| `MCStock`, `MCSourcing`, `MCTransactions`, `MCConversation`, `MCIngestion`, `MCQuery`, `MCReceipts` | instances for TLC |

### OrderLifecycle

State: `items` (`order_items`), `reservations` (`stock_reservations`), `onHand`
(`inventory`), the columns of `orders` the operations read, the `book`, the
supplier status, and counters that only the properties read (what was
received, written off and registered).  One action is one handler from its
first read to its commit; a handler that raises rolls back, so its raising
conditions are guards (`AccumulateRaises`, `AutoSourceRaises`,
`Reservable`...).  The spreadsheet's failure is tolerated by the code and
changes no state.

* `PersistFinalizedDraft` is the chat's quote, `CreateManualOrder` and
  `UpdateManualOrder` the form.  The chat locks its LOCAL lines, the form does not.
* `ConfirmCaseA/B/C` are the three outcomes of `confirm_and_register`.
  `AutoSourced` and the operators after it resolve RAG lines before stock is classified.
* `TTLRunsOut` is time: it marks a row lapsed, which availability ignores at once.
  `SweepExpired` makes it durable.
* `StockIn`, `StockOut`, `AdjustStock` are the writers of stock outside orders.
* Operations nothing calls (`ModifyOrder`, `AddDraftItem`, `ExpireReservations`) are
  actions only where the constant `Uncalled` is TRUE.  `RemoveDraftItem` always is one: the
  chat removes lines (`agents/customer.py:776`, `RemoveProduct` of `Conversation`).
* `offered` over-approximates the chat's selection turn: any order that was shown
  suppliers may be answered until it is answered again.

### PurchaseBook

A need of an order and SKU may point to an item of a purchase order; an item sums
the needs of several orders.  `DetachFromPreviousPO` and `ReleaseOrderNeeds`
delete an item whose last quantity leaves; a deletion that would violate the
foreign key raises at flush (`DetachViolatesFK`).

### StockLedger and the refinement

`StockLedger` knows only rows and shelves: `Lock`, `Deduct`, `Release`,
`GiveBack`, `Lapse`, `Expire`, `Receive`, `Count`.  `OrderLifecycle` implements it
under the identity on `reservations`, `onHand` and the counters
(`Ledger == INSTANCE StockLedger`, `LedgerSpec == Ledger!Spec`): every handler is
one ledger step or none.

### Transactions

OrderLifecycle's steps are atomic, PostgreSQL's transactions are not.  Here each
worker (the chat, or a button) holds a transaction that reads committed state,
takes row locks statement by statement and publishes at its commit what it
computed from its reads: absolute values for `quantity_on_hand`, and `estado` by row
id.  `ReserveStock` is the only `SELECT ... FOR UPDATE`.  A deadlock's victim and a
crash roll back; the spreadsheet row stays.  That locks never exceed what is on hand is
not an invariant here: stock is written as the value read minus the quantity, so a
confirmation may publish a stale value under locks that were right when they were
taken.  What the row lock does promise is about the moment of locking, and `NoDoubleBooking`
states it as an action property: whenever locks on a SKU are added, all of them fit what
is on hand.

A confirmation classifies the order from what it reads (`Classify`): everything is there
and its locks are converted (Case A), something is `Missing` that suppliers sell, so the
order is CONFIRMED with its `needs` and keeps its ACTIVE locks (Case B), or nobody sells it and
the order is cancelled (Case C).  Hence a confirmed order may hold stock, and `HeldStockIsAwaited`
says which: one that waits for a supplier and of which nothing was deducted.  A cancellation
that overlaps a confirmation, or two confirmations that classify one order differently, are
what could break it.  Orders here have LOCAL lines of one unit, locks do not lapse, and of
the purchases only the needs are kept: the rest is OrderLifecycle's subject.

### Conversation

`chat` is the `ConversationStore`: one `ConversationState` per sender, with the
fields that steer control (`candidates`, `menu`, `shown` and `draft` stand for
`sourcing_candidates`, `customer_candidates`, `product_options` and
`draft_items`).  A sender without state and one whose state expired are both a
miss, which `Load` answers with `Rehydrate`.  `Turn` is `handle_inbound`: load,
`Route`, one handler, store.  A text is what it says to the parsers, because the
same text means different things to different handlers: "no" ends the guided
flow and rejects an order, and a product whose name contains the approval
pattern approves one (`LikeYes`).  What a search, a price or the stock
answers is a choice.  `OfficeCreates` and `OfficeActs` are the back office, reduced to
what a conversation can notice of an order; the ceremony itself is
OrderLifecycle's.  `meant` is a history variable: whom the owner named.
Nothing remembers message ids (`api/webhook.py:97`), so a message that is delivered again is
served like a new one, at once or after any number of other turns: every `Turn` may be
the first delivery of its message or a later one.  `past` is history too: the last order the
sender was quoted, and the products gathered in the chat since.  With it,
`LinesAreOrderedOnce` says what a repeat cannot do.  It may close another order, of the products gathered
since and with whatever customer it names, but never with the lines of the first.
`NeverAnOlderDraft` compares the order that a decision without a number falls on with the
one that was quoted last, also after expiry, drafts of the office and several rebuildings:
while the quoted one is open, it is that one or a newer draft.

### JobBoard and CatalogIngestion

`JobBoard` is what `GET /jobs/{id}` promises: a job is created PENDING, runs, ends
COMPLETED or FAILED and never changes again; a restart forgets every job, since
`IngestionJobManager` keeps them in memory.  `CatalogIngestion` implements it
(`Board == INSTANCE JobBoard`, `BoardSpec`).

A job starts from the back office's catalog page, whose forms (`Forms`, `Accepted`,
`IngestCatalog`) cannot ask for every combination, or from a client of the service
itself (`Requests`).  `pc[j]` is where the thread of a job is and `carried[j]` the records it holds from
one phase to the next; `files[p]` are the artifacts a supplier's jobs leave on
disk, which overlapping jobs of that supplier share because their names
hold nothing but the supplier's code; `table` is the indexed table.  `Extract` reads a
PDF page by page and may lose pages (`ProcessCatalog`), `NodesOf` numbers equal
codes (`Occurrence`) and `NodeId` prefixes the supplier, `DeletePrevious` and
`IngestBatch` are separate commits, `ParityHolds` is the check that decides between
COMPLETED and FAILED, and `Raise` is a failure of any phase.  `ExtractExits` is the
`sys.exit` of a missing key, which leaves the job RUNNING.  `Restart` ends the
process: threads and jobs go, files and rows stay.  `read` and `alone` are history:
what was taken from the PDF, and whether another job of the supplier overlapped.

### CatalogQuery

Extends `CatalogIngestion`: the jobs go on (`Ingesting`) between the steps of a query.
A query connects, searches by vector and by words, fuses the two rankings
(`RankSum` is the exact fraction of the reciprocal ranks), fetches the rows of the
ids that remain, reranks, cuts and reorders them (`Rerank`), and answers.
Rankings are any order of the rows that match; the answers of the model are any
the code accepts: products it was shown, one of its own making, a refusal, prose.
`Response` is the fallback that overrules a refusal.  `Emulate` and
`RetrievalFails` are what the code puts in the place of a database that fails.
`TimeOut` is the client's deadline.  `ToChat`, `ToSupplierSearch` and `ToGrid` are
the callers, each with its own reading of an empty result and of an error.
`during` and `throughout` are history: rows indexed at some time, or at all
times, of the query.

### Receipts

A document is a sequence of pages that the service reads one by one (`Parse`), and
`ParseDocument` is what the page's client makes of its answer.  The variables above
`catalog` are the page's: `parsed`, `resolved` and `candidates` are
`gr.State` values and `selected` is the dropdown.  A resolution looks up its lines
one by one, over HTTP, while the page's other handlers run (`tasks`; the first is
running, in the order of the event queue).  `FailResolve` is a handler that raises or returns what
the page had.  `Confirm` is one transaction: `Tx` is the session's view, in which rows
added and not flushed (`newProducts`, `newStock`) are invisible to the next SELECT
because the sessions do not autoflush; a duplicate key makes it not `ok` and rolls
back.  The order of `FindExisting` is the code's.  `Key` and `Part` are the two
normalisations of a code, which keep different texts apart.  `Adopt` is the
adoption of one product from the page or the endpoint, `EditStock` the catalog page,
`Reindex` what ingestion does to the index as a whole.  `credited` is history.  Two
confirmations that overlap, or one that overlaps an order, are the subject of
`Transactions` (`StartReceive`).

### Pricing

Operators without state.  Money, percentages and rates are integers scaled by `Cents`
and `Whole`, so every rounding (`HalfUp`) is where the code has it: the marked-up cost and
a converted offer are rounded to the cent, a converted cost is not until it is stored,
and the final price is computed from the unrounded base.  `AsFraction` is the code's
reading of a percentage, as a fraction up to one and as points beyond it.
`ChatLine` and `FormLine` are what the two ways to order make of one product,
`PriceDraft` the order the chat stores, `Recompute` what happens to it when
its rate arrives, `ListPriceArs` what the grids show.  The order machine knows of all this
only whether an order is pending (`OrderLifecycle`'s `conversionPending`), which
`MissingRate` decides here.

## 3. The runs

Runs named for a question; every property of a passing run has a mutant
(`PROJECT.json`, "mutants") that breaks it.

| run | instance | shows |
|---|---|---|
| `stock` | 2 orders, 1 SKU, lines of up to 2, all operations | conservation, no overselling, drafts hold no deduction, unpriced orders are not confirmed (no supplier sells here: that none is selected for them is the theorem `Unpriced`), Case A never deducts too little, delivered is final, refinement of the ledger |
| `shared_po` | 2 orders of one customer, a LOCAL and a RAG SKU, 1 supplier | one draft per customer, item quantities are the sums of needs, a cancellation takes only its own |
| `reselection` | 2 orders, 1 SKU, 2 suppliers | one OPEN purchase order per supplier, receipts add up, executed orders frozen |
| `races` | chat and an operator who uses every button; 2 orders of one customer, 2 SKUs in crossed order, 1 unit each, 1 crash, 1 receipt | no step that locks books a unit twice, one committed draft, locks are held by a draft or by an order that waits for a supplier, every request ends |
| `conversation` | 1 chat and the office, 2 customers, a name of one and a name of both, 2 orders | one mode at a time, the order named is the one being decided, a decision without a number never falls on an order older than the quoted one, no line is ordered twice, no selection is held by a finished order |
| `ingestion` | 2 jobs, 2 suppliers, total, incremental and recreating, equal codes, 1 restart, any failure | jobs implement the board, a completed job indexed its PDF, suppliers keep their rows, nothing is deleted before its replacement is ready, jobs end |
| `search` | 1 query during 1 job that replaces or adds a document, 3 candidates, 2 fragments | provenance, evidence is not denied, fusion, queries end |
| `receipts` | 2 suppliers, 3 codes of which two normalise to one SKU, 2 documents, 1 rebuild of the index, 2 transactions | consistent books, one product per code, receipts are whole |

Runs that end in a violation each check one statement of the repository against
the code (`PROJECT.json`, "findings"):

| run | what happens |
|---|---|
| `early_cancel_stock` | a full-stock order cancelled before picking keeps the stock it deducted |
| `wrong_customer` | a draft closed with one customer's name becomes the previous order's customer's |
| `incremental_qa` | an incremental ingestion indexes its document and is reported FAILED, because the check counts the supplier's other documents |
| `wrong_supplier` | lines resolved for one supplier are confirmed for another: a product is catalogued under the wrong supplier |

Behaviours met while modelling that no run states (the modules have them, and
`PROJECT.json` "hazards" names them): a Case B order is delivered and never
deducted; a SKU bought LOCAL and from the RAG catalog overwrites its need; a
receipt and a confirmation that overlap lose one of two changes of stock; chat and
back office can confirm the same order; a message delivered again may close another
order; a failed database looks to the
customer like an absent product; the page keeps a confirmed receipt's lines, so
pressing the button again receives them again; `order_pricing.py:7-10` says that a
product is priced in its own currency, and the chat passes pesos for every product
(`agents/customer.py:516`), which the theorem `ChatUndercharges` measures.

### Bounds

Two orders are enough for contention, for sharing a purchase order and for every
race modelled, all of which are between two parties; one SKU is enough where SKUs
do not interact (`stock`, `reselection`) and two where lines of different kinds or lock
order matter.  Quantities go up to 2 so that a line can be changed, split or short
by part.  `MaxRegistered` bounds how often an order is confirmed (2: once after a
reopening), `MaxSupplied` and `MaxShrunk` the units that enter and are
written off, `MaxPOs` the purchase orders, `MaxReceived`, `MaxSheetRows` and
`MaxCrashes` the corresponding counters of `Transactions`, `MaxOrders` the orders of
`Conversation` (2: the one being decided and an older or newer one).  One chat is
enough there: a second one changes orders as the back office does and shares no
other state with it.  Two jobs are enough for every
overlap of phases and one restart for what it leaves behind; a query meets one
job, since a second could do no more between two statements than the first.
`KInput` 3 and `TopN` 2 cut the candidates and the prompt; of two fragments the
reordering changes nothing, so longer prompts are covered by the theorem `RerankShape` alone.  In `Receipts`,
`MaxUploads` and `MaxTasks` are 1 (the dropdown starts a resolution too),
`Hits` 1 leaves ambiguity to equal codes, `MaxTransactions` 2 is one adoption or
receipt before another, and one receipt has two lines of one code.  Deadlock is not
checked: with its bounds used up and its orders closed the system stops.

### Fairness

`Transactions!RequestsEnd` is checked under strong fairness on the statements of a
started request: the server runs its handler to the end, and PostgreSQL grants a
row to its waiters in turn.  No button need be pressed.
`Conversation!FinishedSelectionsEnd` is checked under weak fairness of expiry: the
owner pauses for longer than the TTL (30 minutes) again and again, at night for
instance.  No message need be sent.  `CatalogIngestion!JobsEnd` is checked under weak fairness of each job's thread: the
operating system runs a thread that has something to run, and every phase returns
or raises.  `CatalogQuery!QueriesEnd` needs fairness of the caller alone (`Calling`):
the server may hang, the client's deadline may not.  `Receipts` and `OrderLifecycle`
state no liveness: what must happen next there is a person's choice.

## 4. The proofs

`RowSums_proofs` has the laws of the sums over sets of rows (adding, dropping and
changing a row, monotonicity), the induction on numbers that loops are reasoned
about with, and `FlattenType`: lists of products or rows joined page by page are one list
of them.

`OrderLifecycle_proofs` proves of the ledger that it conserves stock and never oversells
(`LedgerConserves`, `LedgerNeverOversells`).  The second is not inductive as stated: the invariant adds, for each SKU, that live
locks are at most the shelf plus what was written off, that rows have distinct
positions and positive quantities, and types.

Of the order machine it proves, for any number of orders, SKUs, suppliers and any
bounds:

* `OrdersImplementLedger`: `Spec => Ledger!Spec`, one step per action, and hence
  `OrdersConserveStock` and `OrdersNeverOversell` from the ledger's theorems;
* `OneDraft`, `Unpriced`, `DraftsHoldNothing`: each by the invariant that relates
  an order's `estado` to its rows; the registered counter supplies the freshness
  of a draft;
* `NeverUnderDeducts` and `DeliveredStaysDelivered`: action properties.

`Purchasing_proofs` goes on with the purchase orders.  Three loops of the program rewrite
the book SKU by SKU (auto-sourcing, the needs of Case B, the supplier selection), so what a
step preserves must be preserved by a loop of any length.  `MapThenFoldSet` is a recursive
function and the induction is over the finite set of SKUs: a family of subsets, given as a
set, that a least missing member contradicts (`NatInductiveSet` and the lemma after it), with
one lemma for each iteration (`DetachEffect`, `OpenOrCreateEffect`, `AccumulateEffect`,
`UpsertEffect`, `ReleaseEffect`).

* `OrdersTyped`, `OneOpenPO`, `ReceiptsNeverExceed`, `AskedStaysAsked`: from one invariant
  of the book (links point to rows that exist, at most one row is OPEN, quantities, receipts
  and state of a row agree) and `Along`, what every iteration keeps of rows already sent;
* `NeedsStandOnTheirOrders`: an item of an OPEN purchase order that some need is on asks for
  something.  This is what makes `OthersKeepTheirPurchases` true: releasing one order's
  needs deletes an item, or a whole purchase order, only with the last need on it;
* `PurchasesAddUp`: each item asks for the sum of the needs on it, where
  `BoughtFromOneSource` holds: no SKU is sold both LOCAL and from the RAG catalog, and the
  operations nothing calls stay uncalled.  Without the first, the need of the one source
  overwrites the other's and the quantity stays too high (`sourcing/persistence.py:32`);
  without the second, a confirmed order's lines may change under its needs.  The runs
  `shared_po` and `reselection` are such instances.  The invariant adds that an order which was never confirmed has no need on
  a purchase order and no offer pending (`DraftsUnbought`), so a
  confirmation writes needs that no item counts yet.

`Transactions_proofs` proves, for any number of workers, orders and SKUs, `TypesKept`,
`HeldStockIsWaitedFor`, `DraftsAreUnique` and `LocksFitTheShelf`.  None of
them holds of the committed state alone; the invariant `TxInv` says of each open transaction what its
reads are still good for:

* row locks are exclusive; a quote holds the row of every SKU it has reserved, and its units
  fit on the shelf beside the locks of all orders (`BookedOK`); stock is written only of
  rows that are held or waited for (`FlushOK`);
* the order a transaction creates is unknown to the others and not there yet, and
  while it holds the customer's key there is no other draft of the customer (`DraftingOK`);
* one that confirms or cancels an order has, when it deducts or flushes, read every row
  the order still has ACTIVE, unless it leaves the order waiting for a supplier
  (`DecidingOK`); then it has something missing to wait for, and converts no row
  (`ShortOK`).

Each statement is a lemma of its own; a commit is the only step that must
show the others' part of the invariant again.

`Conversation_proofs` proves all the safety properties of the run `conversation`, for any
chats, customers, names, products and orders.  `Awake` is what every state given
to a handler has; the invariant is that a chat's memory is awake or a miss, and `LoadAwake`
that what is rebuilt from the database is awake too.

* `ConversationTyped`, `ModesExclude`, `NamedOrderIsBeingDecided`: the last two need each
  other (a handler is reached by the mode, and sets mode and order together), and the first
  needs that a guided flow past its first question has a customer, past its second a product;
* `RepeatsOrderNothingTwice`: the lines of an order come from the products of the chat, which
  are emptied with it; the invariant `PastOK` says that every product in a chat was gathered
  since its last order, and each handler has to keep it (`HandleOK`);
* `QuotedDraftIsNotPassedOver`: the invariant adds that the order a chat waits for is never
  older than the quoted one, if that is still a draft.  Rebuilding takes the greatest number,
  which exists (`GreatestIsOne`), new drafts have greater numbers, and no order becomes a draft
  again (`NoRevival`).

`Catalog_proofs` proves of the ingestion, for any number of jobs, suppliers and documents:

* `IngestionImplementsBoard`: every step of the threads is a step of the board on one
  job's status, a restart forgets all of them, and the rest stutters; the invariant is
  that a thread past its start belongs to a job that is RUNNING;
* `CatalogSurvivesEarlyFailures`: no row disappears before the job that
  removes it holds the records that replace it; the invariant relates `pc` to
  `carried`, because the deletion is three phases after the embedding.

Of what is in the table it proves:

* `RowsAlwaysInOrder` is the invariant everything else rests on: every thread holds
  records of its own supplier (`JobsOK`), the files of a supplier hold its records
  (`FilesOK`), the table is finite and keyed by node_id (`TableOK`).  None of the three
  is inductive alone, since records travel from the thread to the file, to the next
  phase and to the table.  `IngestionTypeCorrect` follows;
* `SuppliersShareNoRow`: an upsert replaces only rows of its own supplier because the
  supplier is in the identifier, even where two suppliers print the same code;
* `CompletedJobsAreIndexed`: the invariant `AloneInv` says how far an undisturbed job
  has brought its records at each phase (`HandedOver`), and that no job of its supplier
  runs beside it (`NoCompany`).  Other jobs leave it untouched (`Untouched`); its own
  upsert, batch by batch, loses nothing because `Occurrence` makes its identifiers
  distinct (`NodesOfShape`).  At the end all its records are rows, and the parity check,
  which only compares two numbers, then leaves no room for any other row
  (`ParityMeansIndexed`, by counting).

Of the queries it proves what the run `search` checks, for any catalogs, rankings, scores,
answers of the model and interleaving with the jobs:

* sorting and filtering have laws because `Arrangement` says them by counting: the place of
  an element is the number of those before it.  In a finite strict order those numbers
  differ and fill `1..Cardinality`, which `InOrderPlaces` has from cardinalities alone,
  without an induction; that a filter keeps the order (`ChosenShape`) and a sort is a
  permutation that respects its order (`ArrangedShape`) follow.  With the same laws
  `ReadingTyped` shows that what is read of a PDF is a finite list of products;
* `FusionKeepsAgreements`: the scores are fractions compared crosswise, so first that this
  is an order at all (`FractionsTransitive`, `FractionsOrdered`), then, over the four ways
  in which two ids can be ranked by one search or both, that an agreement makes the greater
  fraction (`AgreementWins`);
* `RerankShape` follows the prompt through sort, threshold, cut and reordering: at most
  `TopN` fragments, all candidates, and one above the threshold if any candidate was,
  because the best comes first and each of the four keeps it there;
* the inductive invariant `QueryInv` is, beside the types, that while a query runs the table
  lies between its two histories (`HistoryOK`), that every row held by the prompt, the reply
  or the result is one its node id named when it was read (`TracedOK`), and that evidence
  that stayed is in the prompt when the model is asked (`EvidenceOK`).  The first is what
  makes the other two survive the jobs: an ingestion step changes the table under a query
  at any time, and only `during` and `throughout` say what it may still rely on.
  `OneQueryMoves` is the frame of the other queries;
* to the catalogs, a step of a query is a stutter (`RowsInOrderBesideQueries`), so what
  `RowsAlwaysInOrder` says of the table holds beside the queries too;
* `QueriesTyped`, `AnswersWereIndexed`, `EvidenceSurvives` and `FusionKeepsAgreements`
  follow from `QueryInv`, which TLC also found true of every state of the run `search`
  before it was proved.

`Receipts_proofs` proves the three properties of the run `receipts`, for receipts of any length
and any suppliers, documents, indexes and tasks.  A confirmation is one session that goes over
the lines, flushes where the code does and commits or rolls back as a whole, so the proof is
about the session and not only about the committed books:

* `Consistent` is what holds of a session between two operations: products added and not yet
  flushed are products too, no SKU is both in the catalog and pending, a mapping names a
  product of its supplier, and goods went where the mapping of their code says.  Each session
  operation has a lemma that says what it changes (`AddProductEffect`, `FlushEffect`,
  `AddStockEffect`, `CreditEffect`...) and one that `Consistent` survives it, if the session
  met no duplicate key; one that did rolls back.  The committed books are a session with
  nothing pending (`BooksAreConsistent`), and the inductive invariant is that together with
  the types of the page (`PageOK`);
* `AfterLinesKeep` says of the loop over the lines that after each of them the session is
  `Consistent` and has added the goods of the lines so far, by `NatInductiveSet`, for the
  function of the sessions after each line, whose existence is `LinesLoop`;
* `ReceiptsTyped` says that no line, adoption or edit leaves a quantity or a mapping without
  its product;
* `ReceiptsGoToOneProduct`: a printed code is looked up among the mappings before any other
  name of a product, and the first receipt of a code writes its mapping in the same session;
* `ReceiptsAreWhole`: the stock grows by the sum of the lines (`TotalSplit`, `TotalMerge`),
  also where two lines of one receipt name one product, new or old;
* what is parsed of the pages of a document are rows, whatever its pages (`FlattenType`).

`Pricing_proofs` proves about the prices, for every amount, percentage and rate:

* `DiscountsNeverRaise`: base and final price are rounded apart, from one unrounded
  base; that the final one is never above follows from rounding being
  monotone in the quotient (`HalfUpMonotone`), not from either rounding alone;
* `PendingOrderCatchesUp`: what the chat stored of an order without a rate is enough to
  price it as if the rate had been there.  An offer keeps its original price and a product
  its base, which is exact because rounding a whole amount does nothing
  (`RoundingNothing`);
* `FormSellsAtTheListPrice`, and `ChatUndercharges`, which states the defect above.

`MCStock` evaluates the same statements on samples (`PricesOnSamples`), with `Cents` 10
because TLC's integers have 32 bits.

The assumptions are the constants' types (`OrderLifecycle`, `StockLedger`,
`CatalogIngestion`, `CatalogQuery`, `Receipts`, `Pricing`), which TLC evaluates on every run.  Those of
`Content` and `Relevance` say what a model reads of a page and how the reranker scores a
text: any values of their types.

Model-checked only:

* `ItemQuantityIsSumOfNeeds` in instances that are not `BoughtFromOneSource`;
* liveness (`RequestsEnd`, `FinishedSelectionsEnd`, `JobsEnd`, `QueriesEnd`), which rests on
  fairness and ENABLED.

## 5. Not modelled, and the plan

1. Supplier and client records with their uniqueness guards.
2. Supplier selection in `Transactions`: two sessions that both find no OPEN purchase order.
3. The session logger's buffered writer.

Left out for good: page layout, prices and currencies of a receipt, what a language
model or an embedding model answers, what a PDF or a picture says, the field filters
of the product search, signatures of the endpoints, and offline evaluation (external
services or pure I/O).
