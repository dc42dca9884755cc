---------------------------- MODULE CatalogQuery ----------------------------
(***************************************************************************)
(* A product query against the supplier catalogs while they are ingested:  *)
(* POST /query of the rag-api service (two searches, their fusion, a fetch, *)
(* reranking, an answer of a language model and the fallback on what was    *)
(* retrieved), the client of the warehouse, and the three callers that     *)
(* read its result.  Each read of the table is a statement of its own, on  *)
(* a connection of its own, between which ingestion jobs go on writing.    *)
(***************************************************************************)
EXTENDS CatalogIngestion

CONSTANTS
    Queries,
    KInput,         \* k_input: candidates of each search, and of their fusion
    RrfK,           \* the constant of the reciprocal ranks
    TopN,           \* top_n: fragments shown to the model
    Threshold,      \* the cut of the reranker
    Relevance,      \* Relevance[code]: the reranker's score of a row's text
    Worded,         \* codes whose text has a word of the query
    Nothing,        \* None
    Sample          \* the product of the synthetic pool

ASSUME QueryAssumption ==
    /\ KInput \in Nat \ {0} /\ TopN \in Nat \ {0}
    /\ RrfK \in Nat /\ Threshold \in Nat \ {0}
    /\ Relevance \in [Codes \cup {Sample} -> Nat]
    /\ Worded \subseteq Codes

VARIABLES
    step,       \* where the request of a query is
    found,      \* node ids, best first, of the two searches
    shortlist,  \* node ids that survived the fusion
    context,    \* the fragments shown to the model, in prompt order
    reply,      \* what RagProductClient.query returned or raised
    result,     \* what the caller tells
    healthy,    \* history: every read of the table has worked
    during,     \* history: rows indexed at some time of the query
    throughout  \* history: rows indexed at all times of the query

local == <<found, shortlist, context, reply, result>>
history == <<healthy, during, throughout>>
service == <<vars, step, local, history>>

AtServer == {"connect", "dense", "sparse", "fetch", "generate"}

-----------------------------------------------------------------------------
(* Phase 4: two rankings of node ids and their fusion.                     *)

Ids(rows) == {r.id : r \in rows}
Take(s, n) == SubSeq(s, 1, IF Len(s) < n THEN Len(s) ELSE n)
Rankings(rows) == {Take(s, KInput) : s \in SetToSeqs(Ids(rows))}

(* The vector search ranks every row, the words only the rows that match.  *)
DenseRankings == Rankings(table)
SparseRankings == Rankings({r \in table : r.product.code \in Worded})

Rank(s, id) == IF Contains(s, id) THEN CHOOSE i \in DOMAIN s : s[i] = id ELSE 0

(* Mutant: the second list overwrites the score of the first.              *)
OverwrittenRankSum(f, id) ==
    LET d == Rank(f.dense, id)
        s == Rank(f.sparse, id)
    IN  IF s = 0 THEN <<1, RrfK + d>> ELSE <<1, RrfK + s>>

(* The sum of 1 / (k + rank) over the lists that have the id: a fraction.  *)
RankSum(f, id) ==
    LET d == Rank(f.dense, id)
        s == Rank(f.sparse, id)
    IN  CASE s = 0 -> <<1, RrfK + d>>
          [] d = 0 -> <<1, RrfK + s>>
          [] OTHER -> <<2 * RrfK + d + s, (RrfK + d) * (RrfK + s)>>

(* The ids of the vector search, then the new ones of the words.           *)
Arrival(f) ==
    f.dense \o Chosen(f.sparse, {n \in DOMAIN f.sparse : ~Contains(f.dense, f.sparse[n])})

(* reciprocal_rank_fusion: a stable sort of the ids in order of arrival.   *)
Fuse(f) ==
    LET arrived == Arrival(f)
        places == DOMAIN arrived
        Ahead(i, k) ==
            LET a == RankSum(f, arrived[i])
                b == RankSum(f, arrived[k])
            IN  \/ a[1] * b[2] > b[1] * a[2]
                \/ a[1] * b[2] = b[1] * a[2] /\ i < k
    IN  Arranged(arrived, {o \in places \X places : Ahead(o[1], o[2])})

(* An id whose row is gone by the time of the fetch keeps its place, with  *)
(* a text that is empty.                                                   *)
Candidate(id) ==
    IF id \in Ids(table)
    THEN LET row == CHOOSE r \in table : r.id = id
         IN  [id |-> id, row |-> row, score |-> Relevance[row.product.code]]
    ELSE [id |-> id, row |-> Nothing, score |-> 0]

(* generar_pool_sintetico_fase_4: what stands in for a failed retrieval.   *)
SampleRow == [id |-> Sample, prov |-> Nothing, doc |-> Nothing, product |-> [code |-> Sample]]
SamplePool == << [id |-> Sample, row |-> SampleRow, score |-> Relevance[Sample]] >>

-----------------------------------------------------------------------------
(* Phase 5: reranking, threshold, truncation, order in the prompt.         *)

ByScore(candidates) ==
    LET places == DOMAIN candidates
        Ahead(i, k) == \/ candidates[i].score > candidates[k].score
                       \/ candidates[i].score = candidates[k].score /\ i < k
    IN  Arranged(candidates, {o \in places \X places : Ahead(o[1], o[2])})

ApplyScoreThreshold(candidates) ==
    Chosen(candidates, {n \in DOMAIN candidates : candidates[n].score >= Threshold})

(* apply_serial_position_reorder: odd ranks from the front, even ranks     *)
(* from the back, [C1, C3, C5, C4, C2].                                    *)
ApplySerialPositionReorder(s) ==
    LET Place(i) == IF i % 2 = 1 THEN (i + 1) \div 2 ELSE Len(s) + 1 - i \div 2
    IN  [n \in DOMAIN s |-> s[CHOOSE i \in DOMAIN s : Place(i) = n]]

(* Mutant: truncated in the order of the fusion.                           *)
TruncateThenRerank(candidates) ==
    ApplySerialPositionReorder(ApplyScoreThreshold(ByScore(Take(candidates, TopN))))

(* Mutant: everything above the threshold goes into the prompt.            *)
RerankWithoutTopN(candidates) ==
    ApplySerialPositionReorder(ApplyScoreThreshold(ByScore(candidates)))

(* Fase5RerankerCompressor.process.                                        *)
Rerank(candidates) ==
    ApplySerialPositionReorder(Take(ApplyScoreThreshold(ByScore(candidates)), TopN))

-----------------------------------------------------------------------------
(* Phase 6: the answer.  Fragment n is the n-th candidate of the prompt.   *)

Product(c, n) == [row |-> c.row, fragment |-> n]
Everything(ctx) == [n \in DOMAIN ctx |-> Product(ctx[n], n)]
Invented(p) == [id |-> Nothing, prov |-> p, doc |-> Nothing, product |-> [code |-> Nothing]]

Refusal == [answered |-> FALSE, products |-> <<>>]

(* _generate_offline_synthesis: the fragments with a word of the query.    *)
OfflineSynthesis(ctx) ==
    LET hits == Chosen(Everything(ctx), {n \in DOMAIN ctx : /\ ctx[n].row # Nothing
                                                           /\ ctx[n].row.product.code \in Worded})
    IN  [answered |-> hits # <<>>, products |-> hits]

(* A model that answers in JSON: any of the products it was shown, whether *)
(* or not it says that it has answered, and possibly one of its own making, *)
(* with the number of some fragment or of none.                            *)
JsonAnswers(ctx) ==
    LET own == {<<>>} \cup {<<[row |-> Invented(p), fragment |-> n]>> :
                              p \in Providers, n \in 1..(Len(ctx) + 1)}
    IN  {[answered |-> a, products |-> Chosen(Everything(ctx), S) \o e] :
           a \in BOOLEAN, S \in SUBSET DOMAIN ctx, e \in own}

(* parse_or_build: a text that is not JSON lists every fragment, unless it *)
(* is the canonical refusal.                                               *)
NarrativeAnswer(ctx) ==
    IF ctx = <<>> THEN Refusal ELSE [answered |-> TRUE, products |-> Everything(ctx)]

Answers(ctx) ==
    {Refusal, OfflineSynthesis(ctx), NarrativeAnswer(ctx)} \cup JsonAnswers(ctx)

ShouldFallbackToRetrieval(ctx) == \E n \in DOMAIN ctx : ctx[n].score > Threshold

(* run_rag_pipeline: a refusal gives way to evidence above the threshold.  *)
Response(ctx, answer) ==
    IF ~answer.answered /\ ShouldFallbackToRetrieval(ctx)
    THEN [refused |-> FALSE, products |-> Everything(ctx)]
    ELSE [refused |-> ~answer.answered, products |-> answer.products]

(* Mutant: fragments counted from zero by the client.                      *)
FragmentFromZero(ctx, n) == IF n + 1 \in DOMAIN ctx THEN ctx[n + 1].id ELSE Nothing

(* The client finds the node of a product under its fragment number.       *)
FragmentNode(ctx, n) == IF n \in DOMAIN ctx THEN ctx[n].id ELSE Nothing

(* RagProductClient.query: a refusal is an empty result.                   *)
MapProducts(ctx, response) ==
    IF response.refused THEN <<>>
    ELSE [i \in DOMAIN response.products |->
            LET p == response.products[i]
            IN  [row |-> p.row, node |-> FragmentNode(ctx, p.fragment)]]

-----------------------------------------------------------------------------

NoReply == [kind |-> "none", products |-> <<>>]
ErrorReply == [kind |-> "error", products |-> <<>>]
NoResult == [source |-> "none", hits |-> <<>>]
NoneFound == [dense |-> <<>>, sparse |-> <<>>]

QueryInit ==
    /\ step = [q \in Queries |-> "idle"]
    /\ found = [q \in Queries |-> NoneFound]
    /\ shortlist = [q \in Queries |-> <<>>]
    /\ context = [q \in Queries |-> <<>>]
    /\ reply = [q \in Queries |-> NoReply]
    /\ result = [q \in Queries |-> NoResult]
    /\ healthy = [q \in Queries |-> TRUE]
    /\ during = [q \in Queries |-> {}]
    /\ throughout = [q \in Queries |-> {}]

GoTo(q, s) == step' = [step EXCEPT ![q] = s]

(* PrecedenceProductSearcher.search: with a local candidate at the floor   *)
(* the catalogs are not asked.                                             *)
AnswerLocally(q) ==
    /\ step[q] = "idle"
    /\ result' = [result EXCEPT ![q] = [source |-> "LOCAL", hits |-> <<>>]]
    /\ GoTo(q, "over")
    /\ UNCHANGED <<found, shortlist, context, reply, history>>

(* POST /query.                                                            *)
Ask(q) ==
    /\ step[q] = "idle"
    /\ GoTo(q, "connect")
    /\ during' = [during EXCEPT ![q] = table]
    /\ throughout' = [throughout EXCEPT ![q] = table]
    /\ UNCHANGED <<local, healthy>>

(* HybridRetriever.__init__.  A database that does not answer leaves the   *)
(* retriever with an empty corpus in memory.                               *)
Connect(q) ==
    /\ step[q] = "connect"
    /\ GoTo(q, "dense")
    /\ UNCHANGED <<local, history>>

Emulate(q) ==
    /\ step[q] = "connect"
    /\ GoTo(q, "generate")
    /\ healthy' = [healthy EXCEPT ![q] = FALSE]
    /\ UNCHANGED <<local, during, throughout>>

(* Without an embedding the vector is random: any ranking.                 *)
SearchDense(q) ==
    /\ step[q] = "dense"
    /\ \E s \in DenseRankings : found' = [found EXCEPT ![q].dense = s]
    /\ GoTo(q, "sparse")
    /\ UNCHANGED <<shortlist, context, reply, result, history>>

SearchSparse(q) ==
    /\ step[q] = "sparse"
    /\ \E s \in SparseRankings : found' = [found EXCEPT ![q].sparse = s]
    /\ GoTo(q, "fetch")
    /\ UNCHANGED <<shortlist, context, reply, result, history>>

Fetch(q) ==
    /\ step[q] = "fetch"
    /\ LET ids == Take(Fuse(found[q]), KInput)
       IN  /\ shortlist' = [shortlist EXCEPT ![q] = ids]
           /\ context' = [context EXCEPT ![q] =
                            Rerank([n \in DOMAIN ids |-> Candidate(ids[n])])]
    /\ found' = [found EXCEPT ![q] = NoneFound]
    /\ GoTo(q, "generate")
    /\ UNCHANGED <<reply, result, history>>

(* A statement fails: the pool of sample products is used in its place.    *)
RetrievalFails(q) ==
    /\ step[q] \in {"dense", "sparse", "fetch"}
    /\ context' = [context EXCEPT ![q] = Rerank(SamplePool)]
    /\ found' = [found EXCEPT ![q] = NoneFound]
    /\ healthy' = [healthy EXCEPT ![q] = FALSE]
    /\ GoTo(q, "generate")
    /\ UNCHANGED <<shortlist, reply, result, during, throughout>>

Receive(q, r) ==
    /\ reply' = [reply EXCEPT ![q] = r]
    /\ GoTo(q, "reply")
    /\ UNCHANGED <<shortlist, result, history>>

Generate(q) ==
    /\ step[q] = "generate"
    /\ \E answer \in Answers(context[q]) :
         Receive(q, [kind |-> "products",
                     products |-> MapProducts(context[q], Response(context[q], answer))])
    /\ UNCHANGED <<found, context>>

(* Mutant: a deadline for the connection alone.                            *)
TimeOutConnecting(q) ==
    /\ step[q] = "connect"
    /\ Receive(q, ErrorReply)
    /\ UNCHANGED <<found, context>>

(* RAG_TIMEOUT_SECONDS, a lost connection or an HTTP 500.                  *)
TimeOut(q) ==
    /\ step[q] \in AtServer
    /\ Receive(q, ErrorReply)
    /\ found' = [found EXCEPT ![q] = NoneFound]
    /\ UNCHANGED context

Tell(q, source, hits) ==
    /\ step[q] = "reply"
    /\ result' = [result EXCEPT ![q] = [source |-> source, hits |-> hits]]
    /\ GoTo(q, "over")
    /\ UNCHANGED <<found, shortlist, context, reply, history>>

(* The customer's conversation: PrecedenceProductSearcher._rag_fallback.   *)
ToChat(q) ==
    LET source == CASE reply[q].kind = "error" -> "ERROR"
                    [] reply[q].products = <<>> -> "NONE"
                    [] OTHER -> "RAG"
    IN  Tell(q, source, reply[q].products)

(* RagSupplierCatalogSearcher: the offers of active suppliers, one for     *)
(* each supplier and SKU; an error is an empty result, Case C.             *)
ToSupplierSearch(q) ==
    \E active \in SUBSET Providers :
      LET products == reply[q].products
          offers == {i \in DOMAIN products : products[i].row # Nothing /\ products[i].row.prov \in active}
          Offer(i) == <<products[i].row.prov, products[i].row.product.code>>
      IN  Tell(q, "OFFERS", Chosen(products, {i \in offers : \A k \in offers : k < i => Offer(k) # Offer(i)}))

(* The PROV leg of search_products_unified, by name: the hits of the supplier *)
(* asked for, and the table itself when the service is out.                *)
ToGrid(q) ==
    \E proveedor \in Providers \cup {Nothing} :
      LET Matches(row) == row # Nothing /\ (proveedor = Nothing \/ row.prov = proveedor)
      IN  IF reply[q].kind = "error"
          THEN Tell(q, "SQL", SetToSeq({[row |-> r, node |-> r.id] :
                                          r \in {x \in table : Matches(x) /\ x.product.code \in Worded}}))
          ELSE Tell(q, "GRID", Chosen(reply[q].products,
                                      {n \in DOMAIN reply[q].products :
                                         proveedor = Nothing \/ Matches(reply[q].products[n].row)}))

Answering(q) ==
    \/ Connect(q) \/ Emulate(q)
    \/ SearchDense(q) \/ SearchSparse(q) \/ Fetch(q) \/ RetrievalFails(q)
    \/ Generate(q)

Calling(q) == TimeOut(q) \/ ToChat(q) \/ ToSupplierSearch(q) \/ ToGrid(q)

Query(q) == AnswerLocally(q) \/ Ask(q) \/ Answering(q) \/ Calling(q)

(* The catalogs go on being ingested; the history of the queries follows.  *)
Asked(q) == step[q] \notin {"idle", "over"}
Ingesting ==
    /\ Next
    /\ during' = [q \in Queries |-> IF Asked(q) THEN during[q] \cup table' ELSE during[q]]
    /\ throughout' = [q \in Queries |-> IF Asked(q) THEN throughout[q] \cap table' ELSE throughout[q]]
    /\ UNCHANGED <<step, local, healthy>>

ServiceInit == Init /\ QueryInit
ServiceNext ==
    \/ \E q \in Queries : Query(q) /\ UNCHANGED vars
    \/ Ingesting

ServiceSpec == ServiceInit /\ [][ServiceNext]_service

(* The server may hang: only the caller is sure to go on.                  *)
FairServiceSpec ==
    ServiceSpec /\ \A q \in Queries : WF_service(Calling(q) /\ UNCHANGED vars)

-----------------------------------------------------------------------------

(* Every step holds what the code can put there: the rankings never repeat  *)
(* an id, the model sees at most top_n fragments, all at the threshold.     *)
QueriesTypeOK ==
    /\ step \in [Queries -> AtServer \cup {"idle", "reply", "over"}]
    /\ \A q \in Queries :
         /\ IsInjective(found[q].dense) /\ IsInjective(found[q].sparse)
         /\ IsInjective(shortlist[q]) /\ Len(shortlist[q]) <= KInput
         /\ Len(context[q]) <= TopN
         /\ \A n \in DOMAIN context[q] :
              /\ context[q][n].row \in Node \cup {Nothing, SampleRow}
              /\ context[q][n].score >= Threshold
         /\ throughout[q] \subseteq during[q]
         /\ reply[q].kind \in {"none", "error", "products"}

(* A product the caller is told of, when the table could be read, is either *)
(* of the model's own making or a row that was indexed at some time of the  *)
(* query; its provenance is then that very row, in spite of the reordering  *)
(* of the prompt and of the jobs that replace rows between two statements.  *)
ProductsWereIndexed ==
    \A q \in Queries : healthy[q] =>
        \A p \in ToSet(reply[q].products) \cup ToSet(result[q].hits) :
            \/ p.row = Nothing \/ p.row.id = Nothing
            \/ p.row.id = p.node /\ (p.row \in during[q] \/ p.row \in table)

(* A refusal never hides evidence: when a row stayed indexed for the whole  *)
(* query, was shortlisted and scores above the threshold, the query does   *)
(* not end in a refusal of the model, whatever the model answered.         *)
EvidenceIsNotDenied ==
    \A q \in Queries :
        /\ step[q] = "generate"
        /\ healthy[q]
        /\ \E r \in throughout[q] :
              Contains(shortlist[q], r.id) /\ Relevance[r.product.code] > Threshold
        => \A answer \in Answers(context[q]) : ~Response(context[q], answer).refused

(* The fusion respects an agreement of the two searches: an id that neither *)
(* search ranks below another, and one of them ranks above it, stays ahead. *)
FusionRespectsBoth ==
    \A q \in Queries : step[q] = "fetch" =>
        LET f == found[q]
            fused == Fuse(f)
            NotBelow(s, a, b) == Rank(s, b) = 0 \/ (Rank(s, a) # 0 /\ Rank(s, a) <= Rank(s, b))
        IN  \A i, k \in DOMAIN fused :
              (i # k /\ NotBelow(f.dense, fused[i], fused[k]) /\ NotBelow(f.sparse, fused[i], fused[k]))
              => i < k

(* Every query ends in an answer, a notice or a table of the database, even *)
(* when the service hangs.                                                 *)
QueriesEnd == \A q \in Queries : (step[q] = "connect") ~> (step[q] = "over")

=============================================================================
