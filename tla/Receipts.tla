------------------------------ MODULE Receipts ------------------------------
(***************************************************************************)
(* Goods receipts in the back office: a parsed document is resolved line   *)
(* by line against the supplier's indexed catalog, the owner decides what  *)
(* is ambiguous, and one transaction brings the goods in, adopting the     *)
(* products the local catalog does not have.  Beside it, the adoption of a *)
(* single product and the edit of a stock.                                 *)
(*                                                                         *)
(* The handlers of the page keep what they know in the page: the lookups   *)
(* of one handler go on while the owner uses the others, and the index is  *)
(* rebuilt by the ingestion of catalogs meanwhile.                         *)
(***************************************************************************)
EXTENDS RowSums, Sequences, SequencesExt

CONSTANTS
    Suppliers,
    NoSupplier,     \* the placeholder "seleccionar proveedor"
    Codes,          \* printed codes, up to case and outer blanks
    NoCode,
    Descriptions,
    Key,            \* Key[code]: normalize_supplier_code, one blank per gap
    Part,           \* Part[text]: _normalize_sku_part, one hyphen per gap
    Documents,      \* Documents[d]: its pages, each the lines the model reads in it
    Indexes,        \* the rows the index may hold, in the order of its rebuilds
    NoRow,
    Hits,           \* how many rows a query returns at most
    Stocks,         \* what the owner may type as a stock
    Retirable,      \* suppliers the owner may deactivate and reactivate
    MaxUploads, MaxTasks, MaxTransactions   \* bounds

Line == [code : Codes \cup {NoCode}, desc : Descriptions, qty : Int]
Row == [node : Nat, prov : Suppliers, code : Codes]

ASSUME ReceiptsAssumption ==
    /\ NoCode \notin Codes /\ NoSupplier \notin Suppliers /\ NoRow \notin Row
    /\ \A a, b \in Codes : Key[a] = Key[b] => Part[a] = Part[b]
    /\ \A d \in DOMAIN Documents : Documents[d] \in Seq(Seq(Line)) /\ Documents[d] # <<>>
    /\ Indexes \in Seq(SUBSET Row) /\ Indexes # <<>>
    /\ Hits \in Nat
    /\ Stocks \subseteq Nat /\ Retirable \subseteq Suppliers

VARIABLES
    active,     \* suppliers that are ACTIVO
    rebuilt,    \* which of Indexes the rag-api service holds
    selected,   \* the supplier of the dropdown
    parsed,     \* parsed_state
    resolved,   \* resolved_state
    candidates, \* manual_results_state
    tasks,      \* the calls of _ingest_resolve: the first is running
    catalog,    \* Catalogo
    stock,      \* Inventory: sku -> quantity_on_hand
    mappings,   \* supplier_sku_mappings: <<supplier, key>> -> sku
    credited,   \* history: the skus that received goods under a code
    uploads, confirms, adoptions

page == <<selected, parsed, resolved, candidates, tasks>>
books == <<catalog, stock, mappings, credited>>
counts == <<uploads, confirms, adoptions>>
vars == <<active, rebuilt, page, books, counts>>

index == Indexes[rebuilt]

-----------------------------------------------------------------------------
(* Resolution of a line.                                                   *)

Pending(line, reason, rows) == [line |-> line, row |-> NoRow, reason |-> reason, candidates |-> rows]
Resolved(line, row) == [line |-> line, row |-> row, reason |-> "none", candidates |-> {}]

IsAmbiguous(r) == r.line.qty > 0 /\ r.row = NoRow /\ r.reason = "ambiguous"

(* GET /products/{sku} with a supplier: every row of the code.             *)
ExactLookup(code, s) == {r \in index : r.prov = s /\ r.code = code}

(* hybrid_candidates: whatever the query returns, of the supplier alone.   *)
OfSupplier(s) == {rows \in SUBSET {r \in index : r.prov = s} : Cardinality(rows) <= Hits}

(* _auto_resolve, after either lookup.                                     *)
Classify(line, rows) ==
    CASE Cardinality(rows) = 1 -> Resolved(line, CHOOSE r \in rows : TRUE)
      [] rows = {} -> Pending(line, "no_candidates", {})
      [] OTHER -> Pending(line, "ambiguous", rows)

-----------------------------------------------------------------------------
(* One transaction over the books, without autoflush: rows that were added *)
(* and not flushed are invisible to the next SELECT.                       *)

Tx == [catalog |-> catalog, stock |-> stock, mappings |-> mappings,
       newProducts |-> {}, newStock |-> <<>>, ok |-> TRUE, credited |-> credited]

(* A row of a table with a key: what is under the key, and the rest.       *)
Put(f, key, value) == [k \in DOMAIN f \cup {key} |-> IF k = key THEN value ELSE f[k]]

Flush(t) ==
    [t EXCEPT !.catalog = @ \cup t.newProducts,
              !.stock = [k \in DOMAIN t.stock \cup DOMAIN t.newStock |->
                           IF k \in DOMAIN t.stock THEN t.stock[k] ELSE t.newStock[k]],
              !.newProducts = {}, !.newStock = <<>>]

AddProduct(t, product) ==
    [t EXCEPT !.newProducts = @ \cup {product},
              !.ok = @ /\ \A p \in t.catalog \cup t.newProducts : p.sku # product.sku]

AddStock(t, sku, qty) ==
    [t EXCEPT !.newStock = Put(@, sku, qty),
              !.ok = @ /\ sku \notin DOMAIN t.stock \cup DOMAIN t.newStock]

(* Mutant: the bump starts from what was committed before the receipt.     *)
BumpCommitted(t, sku, qty) ==
    IF sku \in DOMAIN stock THEN [t EXCEPT !.stock[sku] = stock[sku] + qty]
    ELSE IF sku \in DOMAIN t.stock THEN [t EXCEPT !.stock[sku] = @ + qty] ELSE AddStock(t, sku, qty)

(* _bump_stock: a row the session has loaded keeps its pending quantity.   *)
BumpStock(t, sku, qty) ==
    IF sku \in DOMAIN t.stock THEN [t EXCEPT !.stock[sku] = @ + qty] ELSE AddStock(t, sku, qty)

(* record_supplier_sku: the first mapping wins; a new one is flushed with  *)
(* everything else.                                                        *)
RecordSupplierSku(t, s, code, sku) ==
    IF code = NoCode \/ <<s, Key[code]>> \in DOMAIN t.mappings THEN t
    ELSE Flush([t EXCEPT !.mappings = Put(@, <<s, Key[code]>>, sku)])

(* Mutant: the SKU has no supplier prefix.                                 *)
SkuWithoutSupplier(s, text) == <<Part[text]>>

(* build_sku.                                                              *)
BuildSku(s, text) == <<s, Part[text]>>

Known(t, sku) == \E p \in t.catalog : p.sku = sku

(* The SKU of a product the catalog does not have yet.                     *)
NewSku(s, r) ==
    BuildSku(s, CASE r.line.code # NoCode -> r.line.code
                  [] r.row # NoRow -> r.row.code
                  [] OTHER -> r.line.desc)

(* The first of some codes that is mapped to a product, or else the SKU.   *)
FirstKnown(t, s, codes, sku) ==
    LET mapped == {i \in DOMAIN codes : /\ codes[i] # NoCode
                                        /\ <<s, Key[codes[i]]>> \in DOMAIN t.mappings
                                        /\ Known(t, t.mappings[<<s, Key[codes[i]]>>])}
    IN  IF mapped # {} THEN {t.mappings[<<s, Key[codes[Min(mapped)]]>>]}
        ELSE {sku} \cap {p.sku : p \in t.catalog}

RowCode(r) == IF r.row = NoRow THEN <<>> ELSE <<r.row.code>>

(* Mutant: the code of the row goes before the printed one.                *)
FindByRowFirst(t, s, r) == FirstKnown(t, s, Append(RowCode(r), r.line.code), NewSku(s, r))

(* _find_existing_product: the mapping of the printed code, then the one   *)
(* of the row's code, then the deterministic SKU.                          *)
FindExisting(t, s, r) == FirstKnown(t, s, <<r.line.code>> \o RowCode(r), NewSku(s, r))

Credit(t, s, code, sku) ==
    IF code = NoCode THEN t ELSE [t EXCEPT !.credited = @ \cup {<<s, Key[code], sku>>}]

(* A product of the index, with the stock of its line and both its codes.  *)
AdoptNew(t, s, r) ==
    LET sku == NewSku(s, r)
        added == AddStock(AddProduct(t, [sku |-> sku, prov |-> s, row |-> r.row]), sku, r.line.qty)
        listed == RecordSupplierSku(added, s, r.row.code, sku)
    IN  RecordSupplierSku(listed, s, r.line.code, sku)

(* A product the index does not have: the document is its provenance.      *)
AdoptFromDocument(t, s, r) ==
    LET sku == NewSku(s, r)
        added == BumpStock(AddProduct(t, [sku |-> sku, prov |-> s, row |-> NoRow]), sku, r.line.qty)
    IN  RecordSupplierSku(added, s, r.line.code, sku)

IngestLine(t, s, r) ==
    LET existing == FindExisting(t, s, r)
        sku == IF existing = {} THEN NewSku(s, r) ELSE CHOOSE k \in existing : TRUE
        done == CASE existing # {} ->
                       RecordSupplierSku(BumpStock(t, sku, r.line.qty), s, r.line.code, sku)
                  [] existing = {} /\ r.row # NoRow -> AdoptNew(t, s, r)
                  [] OTHER -> AdoptFromDocument(t, s, r)
    IN  IF r.line.qty <= 0 THEN t ELSE Credit(done, s, r.line.code, sku)

(* ingest_receipt_lines: after[n] is the session after n lines.            *)
AfterLines(s, lines) ==
    LET after[n \in 0..Len(lines)] ==
          IF n = 0 THEN Tx ELSE IngestLine(after[n - 1], s, lines[n])
    IN  after[Len(lines)]

Ingest(s, lines) == Flush(AfterLines(s, lines))

Commit(t) ==
    /\ catalog' = t.catalog
    /\ stock' = t.stock
    /\ mappings' = t.mappings
    /\ credited' = t.credited

-----------------------------------------------------------------------------

Init ==
    /\ active = Suppliers
    /\ rebuilt = 1
    /\ selected = NoSupplier
    /\ parsed = <<>> /\ resolved = <<>> /\ candidates = {} /\ tasks = <<>>
    /\ catalog = {} /\ stock = <<>> /\ mappings = <<>> /\ credited = {}
    /\ uploads = 0 /\ confirms = 0 /\ adoptions = 0

(* _ingest_resolve does nothing without lines and an active supplier.      *)
Enqueue(lines, s) ==
    tasks' = IF lines = <<>> \/ s = NoSupplier THEN tasks
             ELSE Append(tasks, [prov |-> s, lines |-> lines, done |-> <<>>, missed |-> FALSE])

(* DocumentLineParser.parse: the pages in order, and none of them when one *)
(* cannot be rendered or read.                                             *)
Parse(d) == FlattenSeq(Documents[d])

(* RagProductClient.parse_document: the lines, or a RagProductError, which *)
(* the page shows as a document without lines.                             *)
ParseDocument(d) == {<<>>, Parse(d)}

(* _ingest_parse and the resolution chained to it.  A document that cannot *)
(* be parsed leaves no lines, and what was resolved before stays.          *)
Upload ==
    /\ uploads < MaxUploads /\ Len(tasks) < MaxTasks
    /\ uploads' = uploads + 1
    /\ parsed' \in IF selected = NoSupplier \/ selected \in active
                   THEN UNION {ParseDocument(d) : d \in DOMAIN Documents} ELSE {<<>>}
    /\ Enqueue(parsed', selected)
    /\ UNCHANGED <<active, rebuilt, selected, resolved, candidates, books, confirms, adoptions>>

SelectSupplier(s) ==
    /\ s # selected /\ Len(tasks) < MaxTasks
    /\ selected' = s
    /\ Enqueue(parsed, s)
    /\ UNCHANGED <<active, rebuilt, parsed, resolved, candidates, books, counts>>

Running == tasks # <<>>
CurrentLine == LET t == Head(tasks) IN t.lines[Len(t.done) + 1]
Unfinished == Running /\ Len(Head(tasks).done) < Len(Head(tasks).lines)
Settle(r) ==
    tasks' = [tasks EXCEPT ![1].done = Append(@, r), ![1].missed = FALSE]

(* The loop of resolve_lines: lines without a quantity are not looked up,  *)
(* a code is looked up exactly, and an exact miss or a line without a code *)
(* is a query.                                                             *)
SkipLine ==
    /\ Unfinished
    /\ CurrentLine.qty <= 0
    /\ Settle(Pending(CurrentLine, "none", {}))
    /\ UNCHANGED <<active, rebuilt, selected, parsed, resolved, candidates, books, counts>>

LookUpExact ==
    /\ Unfinished
    /\ CurrentLine.qty > 0
    /\ CurrentLine.code # NoCode
    /\ ~Head(tasks).missed
    /\ LET rows == ExactLookup(CurrentLine.code, Head(tasks).prov)
       IN  IF rows = {} THEN tasks' = [tasks EXCEPT ![1].missed = TRUE]
           ELSE Settle(Classify(CurrentLine, rows))
    /\ UNCHANGED <<active, rebuilt, selected, parsed, resolved, candidates, books, counts>>

LookUpHybrid ==
    /\ Unfinished
    /\ CurrentLine.qty > 0
    /\ CurrentLine.code = NoCode \/ Head(tasks).missed
    /\ \E rows \in OfSupplier(Head(tasks).prov) : Settle(Classify(CurrentLine, rows))
    /\ UNCHANGED <<active, rebuilt, selected, parsed, resolved, candidates, books, counts>>

FinishResolve ==
    /\ Running /\ ~Unfinished
    /\ resolved' = Head(tasks).done
    /\ tasks' = Tail(tasks)
    /\ UNCHANGED <<active, rebuilt, selected, parsed, candidates, books, counts>>

(* RagProductError leaves the handler, an inactive supplier makes it return *)
(* what the page had: either way resolved_state is what it was.            *)
FailResolve ==
    /\ Running
    /\ tasks' = Tail(tasks)
    /\ UNCHANGED <<active, rebuilt, selected, parsed, resolved, candidates, books, counts>>

(* _ingest_manual_search: a typed code or term, for the selected supplier. *)
ManualSearch ==
    /\ candidates' \in IF selected \in active THEN OfSupplier(selected) ELSE {{}}
    /\ UNCHANGED <<active, rebuilt, selected, parsed, resolved, tasks, books, counts>>

(* _pending_row_selected: what the resolution of the row retrieved.        *)
SelectRow(i) ==
    /\ candidates' = resolved[i].candidates
    /\ UNCHANGED <<active, rebuilt, selected, parsed, resolved, tasks, books, counts>>

(* _ingest_assign: any row of the candidate grid, for the typed line.      *)
Assign(i) ==
    /\ resolved[i].row = NoRow
    /\ \E row \in candidates :
         resolved' = [resolved EXCEPT ![i] = Resolved(resolved[i].line, row)]
    /\ UNCHANGED <<active, rebuilt, selected, parsed, candidates, tasks, books, counts>>

(* _ingest_mark_new.                                                       *)
MarkNew(i) ==
    /\ IsAmbiguous(resolved[i])
    /\ resolved' = [resolved EXCEPT ![i] = Pending(resolved[i].line, "no_candidates", {})]
    /\ UNCHANGED <<active, rebuilt, selected, parsed, candidates, tasks, books, counts>>

(* _ingest_confirm, for the supplier the dropdown shows.  A duplicate key  *)
(* rolls everything back; so does an embedder that fails, where it is      *)
(* needed.  The page keeps its lines.                                      *)
Confirm ==
    /\ confirms + adoptions < MaxTransactions
    /\ selected \in active
    /\ resolved # <<>>
    /\ \A i \in DOMAIN resolved : ~IsAmbiguous(resolved[i])
    /\ LET t == Ingest(selected, resolved)
       IN  t.ok /\ Commit(t)
    /\ confirms' = confirms + 1
    /\ UNCHANGED <<active, rebuilt, page, uploads, adoptions>>

(* The rows a search, then or earlier, has put in the caller's grid.       *)
Adoptable == UNION {Indexes[n] : n \in 1..rebuilt}

(* adopt_product, from the page or from POST /adoption: a row the caller    *)
(* saw, unless its deterministic SKU is taken.                             *)
Adopt ==
    /\ confirms + adoptions < MaxTransactions
    /\ \E row \in Adoptable, qty \in Stocks \ {0} :
         LET sku == BuildSku(row.prov, row.code)
             t == AddStock(AddProduct(Tx, [sku |-> sku, prov |-> row.prov, row |-> row]), sku, qty)
         IN  /\ row.prov \in active
             /\ ~Known(Tx, sku)
             /\ t.ok
             /\ Commit(Flush(RecordSupplierSku(t, row.prov, row.code, sku)))
    /\ adoptions' = adoptions + 1
    /\ UNCHANGED <<active, rebuilt, page, uploads, confirms>>

(* update_stock.                                                           *)
EditStock ==
    /\ \E p \in catalog, n \in Stocks : stock' = Put(stock, p.sku, n)
    /\ UNCHANGED <<active, rebuilt, page, catalog, mappings, credited, counts>>

(* The ingestion of a catalog, and the soft delete of a supplier.          *)
Reindex ==
    /\ rebuilt < Len(Indexes)
    /\ rebuilt' = rebuilt + 1
    /\ UNCHANGED <<active, page, books, counts>>

ToggleSupplier(s) ==
    /\ active' = IF s \in active THEN active \ {s} ELSE active \cup {s}
    /\ UNCHANGED <<rebuilt, page, books, counts>>

Next ==
    \/ Upload
    \/ \E s \in Suppliers \cup {NoSupplier} : SelectSupplier(s)
    \/ SkipLine \/ LookUpExact \/ LookUpHybrid \/ FinishResolve \/ FailResolve
    \/ ManualSearch
    \/ \E i \in DOMAIN resolved : SelectRow(i) \/ Assign(i) \/ MarkNew(i)
    \/ Confirm \/ Adopt \/ EditStock
    \/ Reindex
    \/ \E s \in Retirable : ToggleSupplier(s)

Spec == Init /\ [][Next]_vars

-----------------------------------------------------------------------------

(* What is on the shelves, and what the lines bring.                       *)
Total(shelf) == Quantity({[sku |-> k, cantidad |-> shelf[k]] : k \in DOMAIN shelf})
Goods(lines) ==
    Quantity({[line |-> i, cantidad |-> lines[i].line.qty] :
                i \in {k \in DOMAIN lines : lines[k].line.qty > 0}})

(* The books are consistent: every mapping and every quantity is about a    *)
(* product of the catalog, and no two products share a SKU.                *)
ReceiptsTypeOK ==
    /\ active \subseteq Suppliers
    /\ selected \in Suppliers \cup {NoSupplier}
    /\ \A i \in DOMAIN resolved : resolved[i].row \in Row \cup {NoRow}
    /\ candidates \subseteq Row
    /\ \A a, b \in catalog : a.sku = b.sku => a = b
    /\ DOMAIN stock = {p.sku : p \in catalog}
    /\ \A k \in DOMAIN mappings : \E p \in catalog : p.sku = mappings[k] /\ p.prov = k[1]

(* A second document that names a product by the same code of the supplier *)
(* finds it: whatever was resolved, assigned or adopted in between, the     *)
(* goods received under one code are never spread over two products.       *)
OneProductPerCode ==
    \A a, b \in credited : a[1] = b[1] /\ a[2] = b[2] => a[3] = b[3]

(* A confirmed receipt is in the stock as a whole: every line with a        *)
(* quantity once, two lines of one product with both their quantities.     *)
ConfirmedReceiptIsWhole ==
    [][confirms' # confirms => Total(stock') - Total(stock) = Goods(resolved)]_vars

(* The dropdown prevents wrong-supplier ingestions: a product that comes   *)
(* from the index is catalogued under the supplier of its indexed row.     *)
CataloguedUnderItsSupplier ==
    \A p \in catalog : p.row # NoRow => p.row.prov = p.prov

=============================================================================
