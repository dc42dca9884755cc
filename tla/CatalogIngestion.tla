-------------------------- MODULE CatalogIngestion --------------------------
(***************************************************************************)
(* The catalog ingestion of the rag-api service: POST /catalogs/ingest-*   *)
(* creates a job and hands it to a background thread, which runs the four  *)
(* phases of RAGOrchestrator.ingest_catalog_pdf.  The phases hand over to  *)
(* one another through JSON files named after the supplier, and the last   *)
(* one writes the vector table with a connection in autocommit.            *)
(*                                                                         *)
(* A supplier is its normalised three-letter code, a document its          *)
(* normalised identifier.  A PDF is a sequence of pages, a page a sequence *)
(* of products as the language model reads them.                           *)
(***************************************************************************)
EXTENDS Naturals, Sequences, FiniteSets, SequencesExt, Arrangement

CONSTANTS
    Jobs,               \* the jobs that may be created
    Providers,          \* supplier codes
    Documents,          \* documento_id values
    DefaultDocument,    \* settings.DEFAULT_DOCUMENTO_ID
    Undeclared,         \* no documento_id in the request
    Codes,              \* printed codes, and the hashes that stand in for them
    Pdfs,               \* the files an operator may upload
    Content,            \* Content[pdf]: pages of [orig, name, priced, soldOut] lines
    NoCode,             \* a line without a printed code
    Forms,              \* what an operator may fill in on the back office page
    Requests,           \* what a client may send to the service itself
    Opening,            \* the uploads of earlier runs of the service
    KeyChoices,         \* whether OPENAI_API_KEY may be missing
    BatchSize,          \* batch_size of the upsert
    MaxRestarts         \* bound on restarts of the service

ASSUME IngestionAssumption ==
    /\ DefaultDocument \in Documents
    /\ Undeclared \notin Documents
    /\ BatchSize \in Nat \ {0} /\ MaxRestarts \in Nat
    /\ KeyChoices \subseteq BOOLEAN
    /\ Content \in [Pdfs -> Seq(Seq([orig : Codes \cup {NoCode}, name : Codes,
                                     priced : BOOLEAN, soldOut : BOOLEAN]))]
    /\ Forms \subseteq [pdf : Pdfs, prov : Providers, doc : Documents \cup {Undeclared},
                        incremental : BOOLEAN]
    /\ Requests \subseteq [pdf : Pdfs, prov : Providers, doc : Documents \cup {Undeclared},
                           scope : {"proveedor", "documento"}, recreate : BOOLEAN]
    /\ Opening \subseteq [pdf : Pdfs, prov : Providers, doc : Documents]
    /\ IsFiniteSet(Opening)
    /\ \A a, b \in Opening : a.prov = b.prov => a = b

VARIABLES
    apiKey,     \* the key is in the environment of the service
    status,     \* IngestionJobManager._jobs
    request,    \* the parameters of the background task of a job
    pc,         \* the phase the job's thread is about to run
    carried,    \* what the thread has read from a file and not written yet
    files,      \* files[p]: {p}_ingestion.json, {p}_nodes.json, {p}_embeddings.json
    table,      \* catalogo_productos_rag, keyed by node_id
    read,       \* read[j]: the products job j itself took from its PDF
    alone,      \* alone[j]: no other job of the supplier has run beside j
    restarts

vars == <<apiKey, status, request, pc, carried, files, table, read, alone, restarts>>

Board == INSTANCE JobBoard WITH status <- status

-----------------------------------------------------------------------------

Request == [pdf : Pdfs, prov : Providers, doc : Documents,
            scope : {"proveedor", "documento"}, recreate : BOOLEAN]
NoRequest == [pdf |-> "none"]

CatalogProduct == [code : Codes, pdf : Pdfs, page : Nat, line : Nat]

(* The threads that are neither waiting nor over.                          *)
Phases == {"extract", "chunk", "store_nodes", "embed", "store_embeddings",
           "load", "schema", "delete", "upsert", "qa"}

(* _normalize_documento_id: what is not declared is the default document.  *)
NormalizeDocumentoId(d) == IF d = Undeclared THEN DefaultDocument ELSE d

(* _catalog_ingest: the page refuses an incremental ingestion without a    *)
(* document, and never recreates the table.                                *)
Accepted == {form \in Forms : form.incremental => form.doc # Undeclared}

(* RagProductClient.ingest_catalog: what is sent for an accepted form.     *)
IngestCatalog(form) ==
    [pdf |-> form.pdf, prov |-> form.prov, doc |-> form.doc, recreate |-> FALSE,
     scope |-> IF form.incremental THEN "documento" ELSE "proveedor"]

(* Without a printed code the product is named by a hash of its name.      *)
CanonicalCode(line) == IF line.orig = NoCode THEN line.name ELSE line.orig

(* is_product_available_and_priced: the filter behind the model's.         *)
IsAvailableAndPriced(line) == line.priced /\ ~line.soldOut

PagesOf(pdf) == DOMAIN Content[pdf]

(* process_page: what the model reads of one page, line by line.           *)
ProcessPage(pdf, n) ==
    LET lines == Content[pdf][n]
        kept == Ascending({k \in DOMAIN lines : IsAvailableAndPriced(lines[k])})
    IN  [i \in DOMAIN kept |-> [code |-> CanonicalCode(lines[kept[i]]),
                                pdf |-> pdf, page |-> n, line |-> kept[i]]]

(* process_catalog over the pages that were neither skipped nor lost to an *)
(* error of the model: products_flat.                                      *)
ProcessCatalog(pdf, pages) ==
    FlattenSeq([n \in PagesOf(pdf) |-> IF n \in pages THEN ProcessPage(pdf, n) ELSE <<>>])

(* disambiguate_node_ids: the n-th product of a code becomes code#n.       *)
Occurrence(products, k) ==
    Cardinality({i \in 1..k : products[i].code = products[k].code})

(* Mutant: the identifier of a product is its code alone.                  *)
NodeIdWithoutSupplier(p, code, n) == <<CHOOSE q \in Providers : TRUE, code, n>>

(* process_product: the supplier is part of the identifier.                *)
NodeId(p, code, n) == <<p, code, n>>

(* Phase 1: a node per product, tagged with the document of the job.       *)
NodesOf(products, p, d) ==
    [k \in DOMAIN products |->
        [id |-> NodeId(p, products[k].code, Occurrence(products, k)),
         prov |-> p, doc |-> d, product |-> products[k]]]

(* The table is a set of rows with one row per node_id.                    *)
RowsOf(p) == {r \in table : r.prov = p}
RowsOfDocument(p, d) == {r \in RowsOf(p) : r.doc = d}

(* GET /catalogs and GET /catalogs/documents.                              *)
ListCatalogs(rows, p) == Cardinality({r \in rows : r.prov = p})
ListDocuments(rows, p) == {r.doc : r \in {x \in rows : x.prov = p}}

(* Mutant: a plain INSERT into a table without its primary key.            *)
UpsertWithoutConflict(rows, batch) == rows \cup ToSet(batch)

(* INSERT ... ON CONFLICT (node_id) DO UPDATE of one batch.                *)
Upsert(rows, batch) ==
    {r \in rows : \A n \in ToSet(batch) : n.id # r.id} \cup ToSet(batch)

(* What a total ingestion leaves in the table.                             *)
RowsIndexed(o) ==
    ToSet(NodesOf(ProcessCatalog(o.pdf, PagesOf(o.pdf)), o.prov, o.doc))

DuplicateNodeIds(records) ==
    \E i, k \in DOMAIN records : i # k /\ records[i].id = records[k].id

Batch(records) == SubSeq(records, 1, IF Len(records) < BatchSize THEN Len(records) ELSE BatchSize)
AfterBatch(records) == SubSeq(records, Len(Batch(records)) + 1, Len(records))

-----------------------------------------------------------------------------

Init ==
    /\ apiKey \in KeyChoices
    /\ status = [j \in Jobs |-> "uncreated"]
    /\ request = [j \in Jobs |-> NoRequest]
    /\ pc = [j \in Jobs |-> "idle"]
    /\ carried = [j \in Jobs |-> [records |-> <<>>, expected |-> 0]]
    /\ files = [p \in Providers |-> [ingestion |-> <<>>, nodes |-> <<>>, embeddings |-> <<>>]]
    /\ table = UNION {RowsIndexed(o) : o \in Opening}
    /\ read = [j \in Jobs |-> <<>>]
    /\ alone = [j \in Jobs |-> TRUE]
    /\ restarts = 0

Running(j) == pc[j] \in Phases

Goto(j, phase) == pc' = [pc EXCEPT ![j] = phase]

(* POST /catalogs/ingest-path and /catalogs/ingest-file: the job is created *)
(* and its task queued.  With sync the caller waits for the same function. *)
Ingest(j) ==
    /\ status[j] = "uncreated"
    /\ \E sent \in {IngestCatalog(form) : form \in Accepted} \cup Requests :
         request' = [request EXCEPT ![j] =
                       [sent EXCEPT !.doc = NormalizeDocumentoId(sent.doc)]]
    /\ status' = [status EXCEPT ![j] = "PENDING"]
    /\ pc' = [pc EXCEPT ![j] = "queued"]
    /\ UNCHANGED <<apiKey, carried, files, table, read, alone, restarts>>

(* A thread of the pool takes the task.                                    *)
Start(j) ==
    /\ pc[j] = "queued"
    /\ pc' = [pc EXCEPT ![j] = "extract"]
    /\ status' = [status EXCEPT ![j] = "RUNNING"]
    /\ LET beside == {i \in Jobs : Running(i) /\ request[i].prov = request[j].prov}
           dropped == {i \in Jobs : Running(i) /\ (request[i].recreate \/ request[j].recreate)}
           met == beside \cup dropped
       IN  alone' = [i \in Jobs |-> IF i \in met \/ (i = j /\ met # {}) THEN FALSE ELSE alone[i]]
    /\ UNCHANGED <<apiKey, request, carried, files, table, read, restarts>>

(* Mutant: the supplier's rows are cleared before the PDF is read.         *)
ExtractAfterClearing(j) ==
    /\ pc[j] = "extract"
    /\ apiKey
    /\ \E pages \in SUBSET PagesOf(request[j].pdf) :
         LET products == ProcessCatalog(request[j].pdf, pages)
         IN  /\ files' = [files EXCEPT ![request[j].prov].ingestion = products]
             /\ read' = [read EXCEPT ![j] = products]
    /\ table' = table \ RowsOf(request[j].prov)
    /\ Goto(j, "chunk")
    /\ UNCHANGED <<apiKey, status, request, carried, alone, restarts>>

(* Phase 0.  A page whose extraction raises is logged and left out.        *)
Extract(j) ==
    /\ pc[j] = "extract"
    /\ apiKey
    /\ \E pages \in SUBSET PagesOf(request[j].pdf) :
         LET products == ProcessCatalog(request[j].pdf, pages)
         IN  /\ files' = [files EXCEPT ![request[j].prov].ingestion = products]
             /\ read' = [read EXCEPT ![j] = products]
    /\ Goto(j, "chunk")
    /\ UNCHANGED <<apiKey, status, request, carried, table, alone, restarts>>

(* Without the key the processor calls sys.exit, which no handler of the   *)
(* job catches: the thread is over and the job still reads RUNNING.        *)
ExtractExits(j) ==
    /\ pc[j] = "extract"
    /\ ~apiKey
    /\ Goto(j, "over")
    /\ UNCHANGED <<apiKey, status, request, carried, files, table, read, alone, restarts>>

Carry(j, records) ==
    carried' = [carried EXCEPT ![j] = [records |-> records, expected |-> Len(records)]]

(* Phase 1.  Nothing to chunk is an error: `conflicts` is never assigned.  *)
Chunk(j) ==
    /\ pc[j] = "chunk"
    /\ LET products == files[request[j].prov].ingestion
       IN  /\ products # <<>>
           /\ Carry(j, NodesOf(products, request[j].prov, request[j].doc))
    /\ Goto(j, "store_nodes")
    /\ UNCHANGED <<apiKey, status, request, files, table, read, alone, restarts>>

StoreNodes(j) ==
    /\ pc[j] = "store_nodes"
    /\ files' = [files EXCEPT ![request[j].prov].nodes = carried[j].records]
    /\ Goto(j, "embed")
    /\ UNCHANGED <<apiKey, status, request, carried, table, read, alone, restarts>>

(* Phase 2 reads the nodes of the file, embeds them in batches, and writes *)
(* one record per node when all of them passed its checks.                 *)
Embed(j) ==
    /\ pc[j] = "embed"
    /\ files[request[j].prov].nodes # <<>>
    /\ Carry(j, files[request[j].prov].nodes)
    /\ Goto(j, "store_embeddings")
    /\ UNCHANGED <<apiKey, status, request, files, table, read, alone, restarts>>

StoreEmbeddings(j) ==
    /\ pc[j] = "store_embeddings"
    /\ files' = [files EXCEPT ![request[j].prov].embeddings = carried[j].records]
    /\ Goto(j, "load")
    /\ UNCHANGED <<apiKey, status, request, carried, table, read, alone, restarts>>

(* Phase 3.                                                                *)
LoadEmbeddings(j) ==
    /\ pc[j] = "load"
    /\ files[request[j].prov].embeddings # <<>>
    /\ Carry(j, files[request[j].prov].embeddings)
    /\ Goto(j, "schema")
    /\ UNCHANGED <<apiKey, status, request, files, table, read, alone, restarts>>

InitSchema(j) ==
    /\ pc[j] = "schema"
    /\ table' = IF request[j].recreate THEN {} ELSE table
    /\ Goto(j, IF request[j].recreate THEN "upsert" ELSE "delete")
    /\ UNCHANGED <<apiKey, status, request, carried, files, read, alone, restarts>>

DeletePrevious(j) ==
    /\ pc[j] = "delete"
    /\ LET r == request[j]
       IN  table' = table \ (IF r.scope = "documento"
                             THEN RowsOfDocument(r.prov, r.doc)
                             ELSE RowsOf(r.prov))
    /\ Goto(j, "upsert")
    /\ UNCHANGED <<apiKey, status, request, carried, files, read, alone, restarts>>

IngestBatch(j) ==
    /\ pc[j] = "upsert"
    /\ ~DuplicateNodeIds(carried[j].records)
    /\ LET left == AfterBatch(carried[j].records)
       IN  /\ table' = Upsert(table, Batch(carried[j].records))
           /\ carried' = [carried EXCEPT ![j].records = left]
           /\ IF left = <<>> THEN Goto(j, "qa") ELSE UNCHANGED pc
    /\ UNCHANGED <<apiKey, status, request, files, read, alone, restarts>>

(* Mutant: the parity check is skipped.                                    *)
ParityUnchecked(j) == TRUE

(* run_qa_suite compares every row of the supplier with the records of     *)
(* this job, whatever the scope.                                           *)
ParityHolds(j) == ListCatalogs(table, request[j].prov) = carried[j].expected

End(j, result) ==
    /\ status' = [status EXCEPT ![j] = result]
    /\ Goto(j, "over")
    /\ carried' = [carried EXCEPT ![j] = [records |-> <<>>, expected |-> 0]]
    /\ UNCHANGED <<apiKey, request, files, table, read, alone, restarts>>

Complete(j) ==
    /\ pc[j] = "qa"
    /\ ParityHolds(j)
    /\ End(j, "COMPLETED")

ParityFails(j) ==
    /\ pc[j] = "qa"
    /\ ~ParityHolds(j)
    /\ End(j, "FAILED")

(* Mutant: the exception leaves the thread and the job keeps its status.   *)
RaiseUncaught(j) ==
    /\ Running(j)
    /\ pc[j] = "extract" => apiKey
    /\ Goto(j, "over")
    /\ UNCHANGED <<apiKey, status, request, carried, files, table, read, alone, restarts>>

(* Any other exception of a phase: an API or database error, a file another *)
(* job is writing, no products.  What was committed stays.                 *)
Raise(j) ==
    /\ Running(j)
    /\ pc[j] = "extract" => apiKey
    /\ End(j, "FAILED")

(* Mutant: a restart puts the jobs that were running back into the queue.  *)
RestartRequeues ==
    /\ restarts < MaxRestarts
    /\ restarts' = restarts + 1
    /\ status' = [j \in Jobs |-> IF status[j] = "RUNNING" THEN "PENDING" ELSE status[j]]
    /\ pc' = [j \in Jobs |-> IF Running(j) THEN "queued" ELSE pc[j]]
    /\ UNCHANGED <<apiKey, request, carried, files, table, read, alone>>

(* The process restarts: threads and the jobs in memory are gone, files    *)
(* and rows stay.                                                          *)
Restart ==
    /\ restarts < MaxRestarts
    /\ restarts' = restarts + 1
    /\ status' = Board!Forgotten
    /\ pc' = [j \in Jobs |-> IF pc[j] = "idle" THEN "idle" ELSE "over"]
    /\ carried' = [j \in Jobs |-> [records |-> <<>>, expected |-> 0]]
    /\ UNCHANGED <<apiKey, request, files, table, read, alone>>

(* One step of the thread of job j.                                        *)
Work(j) ==
    \/ Start(j)
    \/ Extract(j) \/ ExtractExits(j)
    \/ Chunk(j) \/ StoreNodes(j)
    \/ Embed(j) \/ StoreEmbeddings(j)
    \/ LoadEmbeddings(j) \/ InitSchema(j) \/ DeletePrevious(j) \/ IngestBatch(j)
    \/ Complete(j) \/ ParityFails(j)
    \/ Raise(j)

Next ==
    \/ \E j \in Jobs : Ingest(j) \/ Work(j)
    \/ Restart

Spec == Init /\ [][Next]_vars

(* A thread that has something to run runs it.                             *)
FairSpec == Spec /\ \A j \in Jobs : WF_vars(Work(j))

-----------------------------------------------------------------------------

Node == [id : Providers \X Codes \X Nat, prov : Providers, doc : Documents,
         product : CatalogProduct]

(* The variables hold what the code can put in them; a supplier's rows      *)
(* never share a node_id.                                                   *)
TypeOK ==
    /\ apiKey \in BOOLEAN
    /\ status \in [Jobs -> Board!JobStatus]
    /\ \A j \in Jobs : request[j] \in Request \cup {NoRequest}
    /\ pc \in [Jobs -> Phases \cup {"idle", "queued", "over"}]
    /\ \A j \in Jobs : ToSet(carried[j].records) \subseteq Node /\ carried[j].expected \in Nat
    /\ \A p \in Providers : ToSet(files[p].nodes) \cup ToSet(files[p].embeddings) \subseteq Node
    /\ table \subseteq Node
    /\ \A r, s \in table : r.id = s.id => r = s
    /\ alone \in [Jobs -> BOOLEAN]
    /\ restarts \in 0..MaxRestarts

(* What a client sees of its jobs is a behaviour of the job board: no job   *)
(* moves backwards or changes after its end, whatever the threads do.      *)
BoardSpec == Board!Spec

(* A job that ran with no other job of its supplier and reads COMPLETED     *)
(* left the supplier with exactly one row for every product it took from    *)
(* its PDF, equal codes included, and with its document alone in the        *)
(* dropdown of the back office.                                            *)
CompletedMeansIndexed ==
    [][\A j \in Jobs :
         /\ status[j] = "RUNNING" /\ status'[j] = "COMPLETED"
         /\ alone[j]
         => LET p == request[j].prov
            IN  /\ {r.product : r \in {x \in table' : x.prov = p}} = ToSet(read[j])
                /\ ListCatalogs(table', p) = Len(read[j])
                /\ ListDocuments(table', p) = {request[j].doc}]_vars

(* Suppliers share the table but no row: what a job writes or deletes is    *)
(* its own supplier's, unless it was asked to recreate the table.           *)
OthersKeepTheirRows ==
    [][\A p \in Providers :
         RowsOf(p)' # RowsOf(p)
         => \E j \in Jobs : /\ pc'[j] # pc[j] \/ carried'[j] # carried[j]
                            /\ request[j].prov = p \/ request[j].recreate]_vars

(* No row disappears before the job that removes it holds the embedded      *)
(* records that take its place: a catalog survives every failure of the     *)
(* extraction, the chunking and the embedding.                              *)
NothingLostBeforeEmbedding ==
    [][\A id \in {r.id : r \in table} :
         id \notin {r.id : r \in table'}
         => \E j \in Jobs : /\ pc'[j] # pc[j]
                            /\ carried[j].records # <<>>
                            /\ carried[j].expected = Len(carried[j].records)]_vars

(* Every accepted job ends, or is forgotten with the process, as long as   *)
(* the service has its key.                                                *)
JobsEnd ==
    \A j \in Jobs :
        (apiKey /\ status[j] \in {"PENDING", "RUNNING"})
        ~> status[j] \in {"COMPLETED", "FAILED", "forgotten"}

(* delete_scope="documento" replaces one document of the supplier: a job    *)
(* that ran alone and wrote all of its records is not reported as FAILED    *)
(* because another document of the supplier is indexed.                    *)
IncrementalKeepsParity ==
    \A j \in Jobs : pc[j] = "qa" /\ alone[j] => ParityHolds(j)

=============================================================================
