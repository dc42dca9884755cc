--------------------------- MODULE Catalog_proofs ---------------------------
(***************************************************************************)
(* Proofs about the supplier catalogs.  Of their ingestion: what a client  *)
(* sees of its jobs is a behaviour of the job board, no row is lost before *)
(* its replacement is embedded; the rows of the table keep their types and *)
(* keys, suppliers share none, and a job that ran alone and that reads     *)
(* COMPLETED left exactly its PDF.  Of the queries: what a caller is told  *)
(* was indexed, a refusal never stands against evidence, and the fusion of *)
(* the two searches respects what they agree on.                           *)
(***************************************************************************)
EXTENDS CatalogQuery, RowSums_proofs

-----------------------------------------------------------------------------
(* Sorting and filtering.                                                  *)

(* One of any two elements of D comes before the other.                    *)
StrictOrder(D, ahead) ==
    /\ \A a \in D : <<a, a>> \notin ahead
    /\ \A a, b \in D : a # b => <<a, b>> \in ahead \/ <<b, a>> \in ahead
    /\ \A a, b, c \in D : <<a, b>> \in ahead /\ <<b, c>> \in ahead => <<a, c>> \in ahead

(* What comes first has fewer before it.                                   *)
LEMMA FewerBefore ==
  ASSUME NEW D, IsFiniteSet(D), NEW ahead, StrictOrder(D, ahead),
         NEW a \in D, NEW b \in D, <<a, b>> \in ahead
  PROVE  /\ Cardinality(Before(D, ahead, a)) \in Nat
         /\ Cardinality(Before(D, ahead, b)) \in Nat
         /\ Cardinality(Before(D, ahead, a)) < Cardinality(Before(D, ahead, b))
<1> DEFINE A == Before(D, ahead, a)
           B == Before(D, ahead, b)
<1>1. A \subseteq B /\ a \in B /\ a \notin A
  BY DEF Before, StrictOrder
<1>2. B \subseteq D
  BY DEF Before
<1> HIDE DEF A, B
<1>3. IsFiniteSet(B) /\ IsFiniteSet(A)
  BY <1>1, <1>2, FS_Subset
<1>4. Cardinality(A) \in Nat /\ Cardinality(B) \in Nat
  BY <1>3, FS_CardinalityType
<1>5. Cardinality(A) <= Cardinality(B) /\ Cardinality(A) # Cardinality(B)
  BY <1>1, <1>3, FS_Subset
<1>6. Cardinality(A) < Cardinality(B)
  BY <1>4, <1>5
<1> QED BY <1>4, <1>6 DEF A, B

(* Each place is taken by one element, and the places are in order.        *)
LEMMA InOrderPlaces ==
  ASSUME NEW D, IsFiniteSet(D), NEW ahead, StrictOrder(D, ahead)
  PROVE  LET at == InOrder(D, ahead)
             N == Cardinality(D)
         IN  /\ N \in Nat
             /\ at \in [1..N -> D]
             /\ \A d \in D : \E n \in 1..N : at[n] = d
             /\ \A i, k \in 1..N : i # k => at[i] # at[k]
             /\ \A i, k \in 1..N : i < k => <<at[i], at[k]>> \in ahead
<1> DEFINE N == Cardinality(D)
           place == [d \in D |-> Cardinality(Before(D, ahead, d))]
           at == InOrder(D, ahead)
           R == 0..(N - 1)
<1>1. N \in Nat
  BY FS_CardinalityType
<1>2. \A d \in D : place[d] \in R
  <2> SUFFICES ASSUME NEW d \in D PROVE place[d] \in R
    OBVIOUS
  <2> DEFINE B == Before(D, ahead, d)
  <2>1. B \subseteq D \ {d}
    BY DEF Before, StrictOrder
  <2>2. IsFiniteSet(D \ {d}) /\ Cardinality(D \ {d}) = N - 1
    BY FS_RemoveElement
  <2> HIDE DEF B
  <2>3. IsFiniteSet(B) /\ Cardinality(B) <= N - 1
    BY <2>1, <2>2, FS_Subset
  <2>4. Cardinality(B) \in Nat
    BY <2>3, FS_CardinalityType
  <2>5. place[d] = Cardinality(B)
    BY DEF B
  <2> HIDE DEF place, N
  <2> QED BY <1>1, <2>3, <2>4, <2>5
<1>3. \A a, b \in D : <<a, b>> \in ahead => place[a] < place[b]
  BY FewerBefore
<1>4. \A a, b \in D : a # b => place[a] # place[b]
  <2> SUFFICES ASSUME NEW a \in D, NEW b \in D, a # b PROVE place[a] # place[b]
    OBVIOUS
  <2>1. place[a] < place[b] \/ place[b] < place[a]
    BY <1>3 DEF StrictOrder
  <2>2. place[a] \in Int /\ place[b] \in Int
    BY <1>2
  <2> HIDE DEF place
  <2> QED BY <2>1, <2>2
<1>5. place \in Injection(D, R)
  <2>1. place \in [D -> R]
    BY <1>2
  <2> HIDE DEF place, R
  <2> QED BY <1>4, <2>1 DEF Injection, IsInjective
<1>6. IsFiniteSet(R) /\ Cardinality(R) = N
  <2>1. Cardinality(R) = IF 0 > N - 1 THEN 0 ELSE (N - 1) - 0 + 1
    BY <1>1, FS_Interval
  <2>2. IsFiniteSet(R)
    BY <1>1, FS_Interval
  <2> HIDE DEF R, N
  <2> QED BY <1>1, <2>1, <2>2
<1>7. \A r \in R : \E d \in D : place[d] = r
  <2>1. place \in Surjection(D, R)
    <3> HIDE DEF place, R
    <3> QED BY <1>5, <1>6, FS_Injection
  <2> HIDE DEF place, R
  <2> QED BY <2>1 DEF Surjection
<1>8. at = [n \in 1..N |-> CHOOSE d \in D : place[d] = n - 1]
  BY DEF InOrder
<1>9. ASSUME NEW n \in 1..N PROVE at[n] \in D /\ place[at[n]] = n - 1
  <2>1. n - 1 \in R
    BY <1>1
  <2>2. \E d \in D : place[d] = n - 1
    BY <1>7, <2>1
  <2>3. at[n] = CHOOSE d \in D : place[d] = n - 1
    BY <1>8
  <2> HIDE DEF place, at
  <2> QED BY <2>2, <2>3
<1>10. at \in [1..N -> D]
  <2>1. DOMAIN at = 1..N /\ at = [n \in 1..N |-> at[n]]
    BY <1>8
  <2> HIDE DEF at
  <2> QED BY <1>9, <2>1
<1> HIDE DEF place, at, N
<1>11. \A i, k \in 1..N : i # k => at[i] # at[k]
  BY <1>1, <1>9
<1>12. \A i, k \in 1..N : i < k => <<at[i], at[k]>> \in ahead
  <2> SUFFICES ASSUME NEW i \in 1..N, NEW k \in 1..N, i < k
               PROVE  <<at[i], at[k]>> \in ahead
    OBVIOUS
  <2>1. at[i] \in D /\ at[k] \in D /\ place[at[i]] < place[at[k]] /\ place[at[i]] \in Int /\ place[at[k]] \in Int
    BY <1>1, <1>9
  <2>2. at[i] # at[k] /\ ~ (place[at[k]] < place[at[i]])
    BY <2>1
  <2> QED BY <1>3, <2>1, <2>2 DEF StrictOrder
<1>13. \A d \in D : \E n \in 1..N : at[n] = d
  <2> SUFFICES ASSUME NEW d \in D PROVE \E n \in 1..N : at[n] = d
    OBVIOUS
  <2> DEFINE n == place[d] + 1
  <2>1. n \in 1..N /\ n - 1 = place[d]
    BY <1>1, <1>2
  <2>2. at[n] \in D /\ place[at[n]] = place[d]
    BY <1>9, <2>1
  <2>3. at[n] = d
    BY <1>4, <2>2
  <2> QED BY <2>1, <2>3
<1> QED BY <1>1, <1>10, <1>11, <1>12, <1>13 DEF at, N

(* Numbers in ascending order.                                             *)
LEMMA AscendingPlaces ==
  ASSUME NEW I \in SUBSET Nat, IsFiniteSet(I)
  PROVE  LET at == Ascending(I)
             N == Cardinality(I)
         IN  /\ N \in Nat
             /\ at \in [1..N -> I]
             /\ \A d \in I : \E n \in 1..N : at[n] = d
             /\ \A i, k \in 1..N : i # k => at[i] # at[k]
             /\ \A i, k \in 1..N : i < k => at[i] < at[k]
<1> DEFINE ahead == {o \in I \X I : o[1] < o[2]}
<1>1. \A i, k \in I : <<i, k>> \in ahead <=> i < k
  OBVIOUS
<1>2. StrictOrder(I, ahead)
  <2> HIDE DEF ahead
  <2> QED BY <1>1 DEF StrictOrder
<1>3. Ascending(I) = InOrder(I, ahead)
  BY DEF Ascending
<1> HIDE DEF ahead
<1> DEFINE at == InOrder(I, ahead)
           N == Cardinality(I)
<1>4. /\ N \in Nat
      /\ at \in [1..N -> I]
      /\ \A d \in I : \E n \in 1..N : at[n] = d
      /\ \A i, k \in 1..N : i # k => at[i] # at[k]
      /\ \A i, k \in 1..N : i < k => <<at[i], at[k]>> \in ahead
  BY <1>2, InOrderPlaces
<1> HIDE DEF at, N
<1>5. \A i, k \in 1..N : i < k => at[i] < at[k]
  BY <1>1, <1>4
<1> QED BY <1>3, <1>4, <1>5 DEF at, N

LEMMA CountTo ==
  ASSUME NEW n \in Nat
  PROVE  IsFiniteSet(1..n) /\ Cardinality(1..n) = n
<1>1. IsFiniteSet(1..n) /\ Cardinality(1..n) = IF 1 > n THEN 0 ELSE n - 1 + 1
  BY FS_Interval
<1>2. n = IF 1 > n THEN 0 ELSE n - 1 + 1
  OBVIOUS
<1> QED BY <1>1, <1>2

(* A filter keeps elements of the sequence, each that is asked for, in     *)
(* their order, and none twice.                                            *)
LEMMA ChosenShape ==
  ASSUME NEW S, NEW s \in Seq(S), NEW I \in SUBSET DOMAIN s
  PROVE  LET c == Chosen(s, I)
         IN  /\ c \in Seq(S)
             /\ Len(c) <= Len(s)
             /\ \A n \in DOMAIN c : \E i \in I : c[n] = s[i]
             /\ \A i \in I : \E n \in DOMAIN c : c[n] = s[i]
<1> DEFINE at == Ascending(I)
           N == Cardinality(I)
           c == Chosen(s, I)
<1>1. Len(s) \in Nat /\ DOMAIN s = 1..Len(s) /\ \A i \in DOMAIN s : s[i] \in S
  BY LenProperties, ElementOfSeq
<1>2. IsFiniteSet(DOMAIN s) /\ Cardinality(DOMAIN s) = Len(s)
  <2> DEFINE D == 1..Len(s)
  <2>1. IsFiniteSet(D) /\ Cardinality(D) = Len(s)
    BY <1>1, CountTo
  <2> QED BY <1>1, <2>1
<1>3. IsFiniteSet(I) /\ N <= Len(s) /\ I \subseteq Nat
  BY <1>1, <1>2, FS_Subset
<1>4. /\ N \in Nat
      /\ at \in [1..N -> I]
      /\ \A d \in I : \E n \in 1..N : at[n] = d
  BY <1>3, AscendingPlaces
<1>5. c = [n \in DOMAIN at |-> s[at[n]]]
  BY DEF Chosen
<1> HIDE DEF at, N, c
<1>6. DOMAIN c = 1..N /\ \A n \in 1..N : c[n] = s[at[n]] /\ at[n] \in I
  BY <1>4, <1>5
<1>7. c = [n \in 1..N |-> s[at[n]]] /\ \A n \in 1..N : s[at[n]] \in S
  BY <1>1, <1>4, <1>5
<1>8. c \in Seq(S) /\ Len(c) = N
  BY <1>4, <1>7, IsASeq
<1>9. \A n \in DOMAIN c : \E i \in I : c[n] = s[i]
  BY <1>6
<1>10. \A i \in I : \E n \in DOMAIN c : c[n] = s[i]
  BY <1>4, <1>6
<1> QED BY <1>3, <1>8, <1>9, <1>10 DEF c

(* A filter of a sequence without repetition.                              *)
LEMMA ChosenInjective ==
  ASSUME NEW S, NEW s \in Seq(S), NEW I \in SUBSET DOMAIN s, IsInjective(s)
  PROVE  IsInjective(Chosen(s, I))
<1> DEFINE at == Ascending(I)
           N == Cardinality(I)
           c == Chosen(s, I)
<1>1. Len(s) \in Nat /\ DOMAIN s = 1..Len(s)
  BY LenProperties
<1>2. IsFiniteSet(DOMAIN s)
  BY <1>1, FS_Interval
<1>3. IsFiniteSet(I) /\ I \subseteq Nat
  BY <1>1, <1>2, FS_Subset
<1>4. /\ at \in [1..N -> I]
      /\ \A i, k \in 1..N : i # k => at[i] # at[k]
  BY <1>3, AscendingPlaces
<1>5. c = [n \in DOMAIN at |-> s[at[n]]]
  BY DEF Chosen
<1> HIDE DEF at, N, c
<1>6. DOMAIN c = 1..N /\ \A n \in 1..N : c[n] = s[at[n]] /\ at[n] \in DOMAIN s
  BY <1>4, <1>5
<1>7. IsInjective(c)
  BY <1>4, <1>6 DEF IsInjective
<1> QED BY <1>7 DEF c

(* Sorting puts each element of the sequence in one place.                 *)
LEMMA ArrangedShape ==
  ASSUME NEW S, NEW s \in Seq(S), NEW ahead, StrictOrder(DOMAIN s, ahead)
  PROVE  LET c == Arranged(s, ahead)
             at == InOrder(DOMAIN s, ahead)
         IN  /\ c \in Seq(S) /\ Len(c) = Len(s) /\ DOMAIN c = DOMAIN s
             /\ at \in [DOMAIN s -> DOMAIN s]
             /\ \A i \in DOMAIN s : \E n \in DOMAIN s : at[n] = i
             /\ \A i, k \in DOMAIN s : i # k => at[i] # at[k]
             /\ \A i, k \in DOMAIN s : i < k => <<at[i], at[k]>> \in ahead
             /\ \A n \in DOMAIN s : c[n] = s[at[n]]
<1> DEFINE D == DOMAIN s
           at == InOrder(D, ahead)
           N == Cardinality(D)
           c == Arranged(s, ahead)
<1>1. Len(s) \in Nat /\ D = 1..Len(s) /\ \A i \in D : s[i] \in S
  BY LenProperties, ElementOfSeq
<1>2. IsFiniteSet(D) /\ N = Len(s)
  BY <1>1, CountTo
<1>3. c = [n \in DOMAIN at |-> s[at[n]]]
  BY DEF Arranged
<1>4. /\ at \in [1..N -> D]
      /\ \A d \in D : \E n \in 1..N : at[n] = d
      /\ \A i, k \in 1..N : i # k => at[i] # at[k]
      /\ \A i, k \in 1..N : i < k => <<at[i], at[k]>> \in ahead
  <2> HIDE DEF D
  <2> QED BY <1>2, InOrderPlaces DEF D
<1> HIDE DEF at, N, c, D
<1>5. c = [n \in 1..Len(s) |-> s[at[n]]] /\ \A n \in 1..Len(s) : s[at[n]] \in S
  BY <1>1, <1>2, <1>3, <1>4
<1>6. c \in Seq(S) /\ Len(c) = Len(s) /\ DOMAIN c = D /\ \A n \in D : c[n] = s[at[n]]
  BY <1>1, <1>5, IsASeq
<1> QED BY <1>1, <1>2, <1>4, <1>6 DEF c, at, D

(* What is read of a PDF is a finite list of products, whatever its pages. *)
LEMMA ReadingTyped ==
  ASSUME NEW pdf \in Pdfs, NEW pages \in SUBSET PagesOf(pdf)
  PROVE  ProcessCatalog(pdf, pages) \in Seq(CatalogProduct)
<1> DEFINE Line == [orig : Codes \cup {NoCode}, name : Codes, priced : BOOLEAN, soldOut : BOOLEAN]
           N == Len(Content[pdf])
           parts == [n \in PagesOf(pdf) |-> IF n \in pages THEN ProcessPage(pdf, n) ELSE <<>>]
<1>1. Content[pdf] \in Seq(Seq(Line))
  BY IngestionAssumption
<1> HIDE DEF Line
<1>2. N \in Nat /\ PagesOf(pdf) = 1..N
  BY <1>1, LenProperties DEF PagesOf
<1>3. ASSUME NEW n \in PagesOf(pdf) PROVE ProcessPage(pdf, n) \in Seq(CatalogProduct)
  <2> DEFINE lines == Content[pdf][n]
             I == {k \in DOMAIN lines : IsAvailableAndPriced(lines[k])}
             kept == Ascending(I)
             M == Cardinality(I)
  <2>1. lines \in Seq(Line) /\ n \in Nat
    BY <1>1, <1>2, ElementOfSeq
  <2>2. Len(lines) \in Nat /\ DOMAIN lines = 1..Len(lines) /\ \A k \in DOMAIN lines : lines[k] \in Line
    BY <2>1, LenProperties, ElementOfSeq
  <2>3. I \subseteq 1..Len(lines) /\ IsFiniteSet(1..Len(lines))
    BY <2>2, CountTo
  <2>4. ProcessPage(pdf, n) = [i \in DOMAIN kept |-> [code |-> CanonicalCode(lines[kept[i]]),
                                 pdf |-> pdf, page |-> n, line |-> kept[i]]]
    BY DEF ProcessPage
  <2> HIDE DEF lines, I
  <2>5. I \in SUBSET Nat /\ IsFiniteSet(I)
    <3>1. IsFiniteSet(I)
      BY <2>3, FS_Subset
    <3>2. 1..Len(lines) \subseteq Nat
      BY <2>2
    <3> QED BY <2>3, <3>1, <3>2
  <2>6. M \in Nat /\ kept \in [1..M -> I]
    BY <2>5, AscendingPlaces
  <2> HIDE DEF kept, M
  <2>7. ASSUME NEW i \in 1..M
        PROVE  [code |-> CanonicalCode(lines[kept[i]]), pdf |-> pdf, page |-> n, line |-> kept[i]]
                 \in CatalogProduct
    <3>1. kept[i] \in I /\ kept[i] \in Nat /\ lines[kept[i]] \in Line
      BY <2>2, <2>3, <2>5, <2>6
    <3>2. CanonicalCode(lines[kept[i]]) \in Codes
      BY <3>1 DEF CanonicalCode, Line
    <3> QED BY <2>1, <3>1, <3>2 DEF CatalogProduct
  <2>8. ProcessPage(pdf, n) = [i \in 1..M |-> [code |-> CanonicalCode(lines[kept[i]]),
                                 pdf |-> pdf, page |-> n, line |-> kept[i]]]
    BY <2>4, <2>6
  <2> QED BY <2>6, <2>7, <2>8, IsASeq
<1>4. <<>> \in Seq(CatalogProduct)
  BY EmptySeq
<1>5. parts = [n \in 1..N |-> parts[n]] /\ \A n \in 1..N : parts[n] \in Seq(CatalogProduct)
  BY <1>2, <1>3, <1>4
<1>6. parts \in Seq(Seq(CatalogProduct)) /\ Len(parts) = N
  <2> HIDE DEF parts, N
  <2> QED BY <1>2, <1>5, IsASeq
<1>7. FlattenSeq(parts) \in Seq(CatalogProduct)
  <2>1. CASE parts = <<>>
    <3>1. FlattenSeq(parts) = parts
      BY <2>1, EmptySeq DEF FlattenSeq
    <3> HIDE DEF parts
    <3> QED BY <1>4, <2>1, <3>1
  <2>2. CASE parts # <<>>
    <3> HIDE DEF parts
    <3> QED BY <1>6, <2>2, FlattenType
  <2> QED BY <2>1, <2>2
<1> QED BY <1>7 DEF ProcessCatalog

-----------------------------------------------------------------------------
(* The ingestion jobs.                                                     *)

(* A thread is where the status of its job says it is.                     *)
StatusFollowsThread ==
    /\ status \in [Jobs -> Board!JobStatus]
    /\ pc \in [Jobs -> Phases \cup {"idle", "queued", "over"}]
    /\ \A j \in Jobs : /\ pc[j] = "idle" <=> status[j] = "uncreated"
                       /\ pc[j] = "queued" => status[j] = "PENDING"
                       /\ pc[j] \in Phases => status[j] = "RUNNING"

USE DEF Board!JobStatus, Board!Shown, Board!Ended, Phases

(* The threads start where the statuses say.                               *)
LEMMA InitStatusFollowsThread == Init => StatusFollowsThread
  BY DEF Init, StatusFollowsThread

(* Every step keeps a thread where the status of its job says.             *)
LEMMA NextStatusFollowsThread ==
  StatusFollowsThread /\ [Next]_vars => StatusFollowsThread'
<1> SUFFICES ASSUME StatusFollowsThread, [Next]_vars PROVE StatusFollowsThread'
    OBVIOUS
<1> USE DEF StatusFollowsThread
<1>1. ASSUME NEW j \in Jobs, Ingest(j) PROVE StatusFollowsThread'
      BY <1>1 DEF Ingest
<1>2. ASSUME NEW j \in Jobs, Start(j) PROVE StatusFollowsThread'
      BY <1>2 DEF Start
<1>3. ASSUME NEW j \in Jobs,
             \/ Extract(j) \/ ExtractExits(j) \/ Chunk(j) \/ StoreNodes(j) \/ Embed(j)
             \/ StoreEmbeddings(j) \/ LoadEmbeddings(j) \/ DeletePrevious(j)
      PROVE StatusFollowsThread'
  <2>1. UNCHANGED status
        BY <1>3 DEF Extract, ExtractExits, Chunk, StoreNodes, Embed, StoreEmbeddings,
                    LoadEmbeddings, DeletePrevious
  <2>2. /\ pc[j] \in Phases
        /\ \E phase \in Phases \cup {"over"} : pc' = [pc EXCEPT ![j] = phase]
        BY <1>3 DEF Extract, ExtractExits, Chunk, StoreNodes, Embed, StoreEmbeddings,
                    LoadEmbeddings, DeletePrevious, Goto
  <2> QED BY <2>1, <2>2
<1>4. ASSUME NEW j \in Jobs, InitSchema(j) PROVE StatusFollowsThread'
      BY <1>4 DEF InitSchema, Goto
<1>5. ASSUME NEW j \in Jobs, IngestBatch(j) PROVE StatusFollowsThread'
      BY <1>5 DEF IngestBatch, Goto
<1>6. ASSUME NEW j \in Jobs, Complete(j) \/ ParityFails(j) \/ Raise(j)
      PROVE StatusFollowsThread'
      BY <1>6 DEF Complete, ParityFails, Raise, End, Goto, Running
<1>7. ASSUME Restart PROVE StatusFollowsThread'
      BY <1>7 DEF Restart, Board!Forgotten
<1>8. ASSUME UNCHANGED vars PROVE StatusFollowsThread'
      BY <1>8 DEF vars
<1> QED BY <1>1, <1>2, <1>3, <1>4, <1>5, <1>6, <1>7, <1>8 DEF Next, Work

(* Refinement: every step of the service is a step of the job board on the *)
(* job's status, or leaves every status alone.                             *)
THEOREM IngestionImplementsBoard == Spec => BoardSpec
<1>1. Init => Board!Init
      BY DEF Init, Board!Init
<1>2. StatusFollowsThread /\ [Next]_vars => [Board!Next]_status
  <2> SUFFICES ASSUME StatusFollowsThread, [Next]_vars PROVE Board!Next \/ UNCHANGED status
      OBVIOUS
  <2>1. ASSUME NEW j \in Jobs, Ingest(j) PROVE Board!CreateJob(j)
        BY <2>1 DEF Ingest, Board!CreateJob
  <2>2. ASSUME NEW j \in Jobs, Start(j) PROVE Board!UpdateJob(j)
        BY <2>2 DEF Start, StatusFollowsThread, Board!UpdateJob
  <2>3. ASSUME NEW j \in Jobs,
               \/ Extract(j) \/ ExtractExits(j) \/ Chunk(j) \/ StoreNodes(j) \/ Embed(j)
               \/ StoreEmbeddings(j) \/ LoadEmbeddings(j) \/ InitSchema(j)
               \/ DeletePrevious(j) \/ IngestBatch(j)
        PROVE UNCHANGED status
        BY <2>3 DEF Extract, ExtractExits, Chunk, StoreNodes, Embed, StoreEmbeddings,
                    LoadEmbeddings, InitSchema, DeletePrevious, IngestBatch
  <2>4. ASSUME NEW j \in Jobs, Complete(j) \/ ParityFails(j) \/ Raise(j)
        PROVE Board!UpdateJob(j)
        BY <2>4 DEF Complete, ParityFails, Raise, End, Running, StatusFollowsThread, Board!UpdateJob
  <2>5. ASSUME Restart PROVE Board!Forget
        BY <2>5 DEF Restart, Board!Forget
  <2> QED BY <2>1, <2>2, <2>3, <2>4, <2>5 DEF Next, Work, vars, Board!Next
<1> QED BY <1>1, <1>2, InitStatusFollowsThread, NextStatusFollowsThread, PTL
        DEF Spec, BoardSpec, Board!Spec

-----------------------------------------------------------------------------

(* A thread that may remove rows has loaded the records that replace them. *)
HoldsReplacement ==
    /\ StatusFollowsThread
    /\ DOMAIN carried = Jobs
    /\ \A j \in Jobs :
         pc[j] \in {"schema", "delete"}
         => /\ carried[j].records # <<>>
            /\ carried[j].expected = Len(carried[j].records)

LEMMA InitHoldsReplacement == Init => HoldsReplacement
  BY InitStatusFollowsThread DEF Init, HoldsReplacement

(* Only the load of the embeddings leads to the steps that remove rows.    *)
LEMMA NextHoldsReplacement ==
  HoldsReplacement /\ [Next]_vars => HoldsReplacement'
<1> SUFFICES ASSUME HoldsReplacement, [Next]_vars PROVE HoldsReplacement'
    OBVIOUS
<1>0. StatusFollowsThread'
      BY NextStatusFollowsThread DEF HoldsReplacement
<1> USE DEF HoldsReplacement
<1>1. ASSUME NEW j \in Jobs, Ingest(j) PROVE HoldsReplacement'
      BY <1>0, <1>1 DEF Ingest, StatusFollowsThread
<1>2. ASSUME NEW j \in Jobs, Start(j) PROVE HoldsReplacement'
      BY <1>0, <1>2 DEF Start, StatusFollowsThread
<1>3. ASSUME NEW j \in Jobs, Extract(j) PROVE HoldsReplacement'
  <2>1. UNCHANGED carried /\ pc' = [pc EXCEPT ![j] = "chunk"]
        BY <1>3 DEF Extract, Goto
  <2> QED BY <1>0, <2>1 DEF StatusFollowsThread
<1>4. ASSUME NEW j \in Jobs,
             ExtractExits(j) \/ StoreNodes(j) \/ StoreEmbeddings(j)
      PROVE HoldsReplacement'
  <2>1. /\ UNCHANGED carried
        /\ \E phase \in {"over", "embed", "load"} : pc' = [pc EXCEPT ![j] = phase]
        BY <1>4 DEF ExtractExits, StoreNodes, StoreEmbeddings, Goto
  <2> QED BY <1>0, <2>1 DEF StatusFollowsThread
<1>5. ASSUME NEW j \in Jobs, Chunk(j) \/ Embed(j) PROVE HoldsReplacement'
  <2>1. \E phase \in {"store_nodes", "store_embeddings"} : pc' = [pc EXCEPT ![j] = phase]
        BY <1>5 DEF Chunk, Embed, Goto
  <2>2. \E new : carried' = [carried EXCEPT ![j] = new]
        BY <1>5 DEF Chunk, Embed, Carry
  <2> QED BY <1>0, <2>1, <2>2 DEF StatusFollowsThread
<1>6. ASSUME NEW j \in Jobs, LoadEmbeddings(j) PROVE HoldsReplacement'
  <2>1. PICK loaded : /\ loaded # <<>>
                      /\ carried' = [carried EXCEPT ![j] = [records |-> loaded, expected |-> Len(loaded)]]
                      /\ pc' = [pc EXCEPT ![j] = "schema"]
        BY <1>6 DEF LoadEmbeddings, Carry, Goto
  <2> QED BY <1>0, <2>1 DEF StatusFollowsThread
<1>7. ASSUME NEW j \in Jobs, InitSchema(j) PROVE HoldsReplacement'
  <2>1. /\ pc[j] = "schema" /\ UNCHANGED carried
        /\ \E phase \in {"upsert", "delete"} : pc' = [pc EXCEPT ![j] = phase]
        BY <1>7 DEF InitSchema, Goto
  <2> QED BY <1>0, <2>1 DEF StatusFollowsThread
<1>8. ASSUME NEW j \in Jobs, DeletePrevious(j) PROVE HoldsReplacement'
  <2>1. UNCHANGED carried /\ pc' = [pc EXCEPT ![j] = "upsert"]
        BY <1>8 DEF DeletePrevious, Goto
  <2> QED BY <1>0, <2>1 DEF StatusFollowsThread
<1>9. ASSUME NEW j \in Jobs, IngestBatch(j) PROVE HoldsReplacement'
  <2>1. /\ pc[j] = "upsert"
        /\ pc' = [pc EXCEPT ![j] = "qa"] \/ UNCHANGED pc
        BY <1>9 DEF IngestBatch, Goto
  <2>2. \E new : carried' = [carried EXCEPT ![j] = new]
        BY <1>9 DEF IngestBatch
  <2> QED BY <1>0, <2>1, <2>2 DEF StatusFollowsThread
<1>10. ASSUME NEW j \in Jobs, Complete(j) \/ ParityFails(j) \/ Raise(j)
       PROVE HoldsReplacement'
  <2>1. /\ pc' = [pc EXCEPT ![j] = "over"]
        /\ \E new : carried' = [carried EXCEPT ![j] = new]
        BY <1>10 DEF Complete, ParityFails, Raise, End, Goto
  <2> QED BY <1>0, <2>1 DEF StatusFollowsThread
<1>11. ASSUME Restart PROVE HoldsReplacement'
       BY <1>0, <1>11 DEF Restart
<1>12. ASSUME UNCHANGED vars PROVE HoldsReplacement'
       BY <1>0, <1>12 DEF vars
<1> QED BY <1>1, <1>2, <1>3, <1>4, <1>5, <1>6, <1>7, <1>8, <1>9, <1>10, <1>11, <1>12
        DEF Next, Work

(* An upsert keeps every identifier of the table.                          *)
LEMMA UpsertKeepsIds ==
  ASSUME NEW rows, NEW batch, NEW r \in rows
  PROVE  \E x \in Upsert(rows, batch) : x.id = r.id
<1>1. CASE \A n \in ToSet(batch) : n.id # r.id
      BY <1>1 DEF Upsert
<1>2. CASE \E n \in ToSet(batch) : n.id = r.id
      BY <1>2 DEF Upsert
<1> QED BY <1>1, <1>2

(* A catalog survives every failure that comes before its replacement is   *)
(* embedded: a row that disappears is removed by a thread that holds all   *)
(* the records of its job.                                                 *)
THEOREM CatalogSurvivesEarlyFailures == Spec => NothingLostBeforeEmbedding
<1>1. HoldsReplacement /\ [Next]_vars =>
        [\A id \in {r.id : r \in table} :
           id \notin {r.id : r \in table'}
           => \E j \in Jobs : /\ pc'[j] # pc[j]
                              /\ carried[j].records # <<>>
                              /\ carried[j].expected = Len(carried[j].records)]_vars
  <2> SUFFICES ASSUME HoldsReplacement, [Next]_vars,
                      NEW id \in {r.id : r \in table}, id \notin {r.id : r \in table'}
               PROVE  \E j \in Jobs : /\ pc'[j] # pc[j]
                                      /\ carried[j].records # <<>>
                                      /\ carried[j].expected = Len(carried[j].records)
      OBVIOUS
  <2>1. ASSUME NEW j \in Jobs, InitSchema(j) \/ DeletePrevious(j)
        PROVE  /\ pc'[j] # pc[j]
               /\ carried[j].records # <<>>
               /\ carried[j].expected = Len(carried[j].records)
    <3>1. pc[j] \in {"schema", "delete"} /\ pc'[j] # pc[j]
          BY <2>1 DEF InitSchema, DeletePrevious, Goto, HoldsReplacement, StatusFollowsThread
    <3> QED BY <3>1 DEF HoldsReplacement
  <2>2. ASSUME NEW j \in Jobs, IngestBatch(j) PROVE FALSE
    <3>1. table' = Upsert(table, Batch(carried[j].records))
          BY <2>2 DEF IngestBatch
    <3> QED BY <3>1, UpsertKeepsIds
  <2>3. ASSUME NEW j \in Jobs,
               \/ Ingest(j) \/ Start(j) \/ Extract(j) \/ ExtractExits(j) \/ Chunk(j)
               \/ StoreNodes(j) \/ Embed(j) \/ StoreEmbeddings(j) \/ LoadEmbeddings(j)
               \/ Complete(j) \/ ParityFails(j) \/ Raise(j)
        PROVE FALSE
    <3>1. table' = table
          BY <2>3 DEF Ingest, Start, Extract, ExtractExits, Chunk, StoreNodes, Embed,
                      StoreEmbeddings, LoadEmbeddings, Complete, ParityFails, Raise, End
    <3> QED BY <3>1
  <2>4. ASSUME Restart \/ UNCHANGED vars PROVE FALSE
        BY <2>4 DEF Restart, vars
  <2> QED BY <2>1, <2>2, <2>3, <2>4 DEF Next, Work
<1> QED BY <1>1, InitHoldsReplacement, NextHoldsReplacement, PTL
        DEF Spec, NothingLostBeforeEmbedding

-----------------------------------------------------------------------------
(* The rows of the catalog table.                                          *)
USE DEF Phases

(* The records of one supplier.                                            *)
NodeOf(p) == [id : {p} \X Codes \X Nat, prov : {p}, doc : Documents,
              product : CatalogProduct]

(* A supplier's record is a record, and its identifier names the supplier. *)
LEMMA NodeOfIsNode ==
  ASSUME NEW p \in Providers, NEW r \in NodeOf(p)
  PROVE  r \in Node /\ r.prov = p /\ r.id[1] = p
  BY DEF NodeOf, Node

(* The occurrence of a code up to a position is a number, and it grows     *)
(* whenever the code comes again.                                          *)
LEMMA OccurrenceGrows ==
  ASSUME NEW products, NEW k \in Nat
  PROVE  /\ Occurrence(products, k) \in Nat
         /\ \A i \in 1 .. k :
              i < k /\ products[i].code = products[k].code
              => Occurrence(products, i) < Occurrence(products, k)
<1> DEFINE Same(m) == {i \in 1..m : products[i].code = products[m].code}
<1>1. \A m \in Nat : IsFiniteSet(Same(m)) /\ Cardinality(Same(m)) \in Nat
  <2> TAKE m \in Nat
  <2>1. IsFiniteSet(1..m)
        BY FS_Interval
  <2>2. Same(m) \in SUBSET (1..m)
        OBVIOUS
  <2> HIDE DEF Same
  <2>3. IsFiniteSet(Same(m))
        BY <2>1, <2>2, FS_Subset
  <2> QED BY <2>3, FS_CardinalityType
<1>2. ASSUME NEW i \in 1 .. k, i < k, products[i].code = products[k].code
      PROVE  Cardinality(Same(i)) < Cardinality(Same(k))
  <2>1. Same(i) \in SUBSET Same(k) /\ k \in Same(k) /\ k \notin Same(i)
        BY <1>2
  <2> HIDE DEF Same
  <2>2. Cardinality(Same(i)) <= Cardinality(Same(k))
        BY <1>1, <2>1, FS_Subset
  <2>3. Cardinality(Same(i)) # Cardinality(Same(k))
        BY <1>1, <2>1, FS_Subset
  <2> QED BY <1>1, <2>2, <2>3
<1> QED BY <1>1, <1>2 DEF Occurrence

(* The nodes of a list of products: one record of the supplier for each    *)
(* product, in order, no two of them with one identifier.                  *)
LEMMA NodesOfShape ==
  ASSUME NEW products \in Seq(CatalogProduct), NEW p \in Providers, NEW d \in Documents
  PROVE  LET nodes == NodesOf(products, p, d)
         IN  /\ nodes \in Seq(NodeOf(p))
             /\ Len(nodes) = Len(products)
             /\ \A k \in 1 .. Len(products) : nodes[k].product = products[k] /\ nodes[k].doc = d
             /\ ~DuplicateNodeIds(nodes)
<1> DEFINE nodes == NodesOf(products, p, d)
<1>1. /\ DOMAIN products = 1 .. Len(products) /\ Len(products) \in Nat
      /\ \A k \in 1 .. Len(products) : products[k] \in CatalogProduct
      OBVIOUS
<1>2. nodes = [k \in 1 .. Len(products) |->
                [id |-> <<p, products[k].code, Occurrence(products, k)>>,
                 prov |-> p, doc |-> d, product |-> products[k]]]
      BY <1>1 DEF NodesOf, NodeId
<1>3. \A k \in 1 .. Len(products) : nodes[k] \in NodeOf(p)
  <2> TAKE k \in 1 .. Len(products)
  <2>1. Occurrence(products, k) \in Nat
        BY <1>1, OccurrenceGrows
  <2>2. products[k].code \in Codes
        BY <1>1 DEF CatalogProduct
  <2>3. <<p, products[k].code, Occurrence(products, k)>> \in {p} \X Codes \X Nat
        BY <2>1, <2>2
  <2> QED BY <1>1, <1>2, <2>3 DEF NodeOf
<1>4. nodes \in Seq(NodeOf(p)) /\ Len(nodes) = Len(products)
      BY <1>1, <1>2, <1>3
<1>5. ASSUME NEW i \in 1 .. Len(products), NEW k \in 1 .. Len(products), i < k
      PROVE  nodes[i].id # nodes[k].id
  <2>1. products[i].code = products[k].code
        => Occurrence(products, i) < Occurrence(products, k)
        BY <1>1, <1>5, OccurrenceGrows
  <2>2. Occurrence(products, i) \in Nat /\ Occurrence(products, k) \in Nat
        BY <1>1, OccurrenceGrows
  <2> QED BY <1>2, <2>1, <2>2
<1>6. ~DuplicateNodeIds(nodes)
  <2>1. DOMAIN nodes = 1 .. Len(products)
        BY <1>2
  <2> QED BY <1>1, <1>5, <2>1 DEF DuplicateNodeIds
<1> QED BY <1>2, <1>4, <1>6

(* A sequence has finitely many elements, and no more than positions.      *)
LEMMA ToSetFinite ==
  ASSUME NEW S, NEW s \in Seq(S)
  PROVE  /\ ToSet(s) = {s[i] : i \in 1 .. Len(s)} /\ ToSet(s) \subseteq S
         /\ IsFiniteSet(ToSet(s)) /\ Cardinality(ToSet(s)) <= Len(s)
<1>1. ToSet(s) = {s[i] : i \in 1 .. Len(s)} /\ ToSet(s) \subseteq S
      BY DEF ToSet
<1>2. s \in Surjection(1 .. Len(s), ToSet(s))
      BY <1>1 DEF Surjection
<1>3. IsFiniteSet(1 .. Len(s)) /\ Cardinality(1 .. Len(s)) = Len(s)
  <2>1. Len(s) \in Nat
        OBVIOUS
  <2>2. IsFiniteSet(1 .. Len(s)) /\ Cardinality(1 .. Len(s)) = IF 1 > Len(s) THEN 0 ELSE Len(s) - 1 + 1
        BY <2>1, FS_Interval
  <2> QED BY <2>1, <2>2
<1> QED BY <1>1, <1>2, <1>3, FS_Surjection

(* Records with distinct identifiers are as many as their positions.       *)
LEMMA ToSetCounts ==
  ASSUME NEW S, NEW s \in Seq(S), ~DuplicateNodeIds(s)
  PROVE  Cardinality(ToSet(s)) = Len(s)
<1>1. s \in Surjection(1 .. Len(s), ToSet(s))
      BY ToSetFinite DEF Surjection
<1>2. s \in Injection(1 .. Len(s), ToSet(s))
      BY <1>1 DEF DuplicateNodeIds, Injection, IsInjective, Surjection
<1>3. IsFiniteSet(1 .. Len(s)) /\ Cardinality(1 .. Len(s)) = Len(s)
  <2>1. Len(s) \in Nat
        OBVIOUS
  <2>2. IsFiniteSet(1 .. Len(s)) /\ Cardinality(1 .. Len(s)) = IF 1 > Len(s) THEN 0 ELSE Len(s) - 1 + 1
        BY <2>1, FS_Interval
  <2> QED BY <2>1, <2>2
<1> QED BY <1>1, <1>2, <1>3, FS_Surjection

(* A batch and what is left make up the records.                           *)
LEMMA BatchShape ==
  ASSUME NEW S, NEW records \in Seq(S)
  PROVE  /\ Batch(records) \in Seq(S) /\ AfterBatch(records) \in Seq(S)
         /\ ToSet(records) = ToSet(Batch(records)) \cup ToSet(AfterBatch(records))
         /\ ~DuplicateNodeIds(records) => ~DuplicateNodeIds(Batch(records))
         /\ records # <<>> => AfterBatch(records) # records
<1> DEFINE m == IF Len(records) < BatchSize THEN Len(records) ELSE BatchSize
           batch == SubSeq(records, 1, m)
           after == SubSeq(records, m + 1, Len(records))
<1>1. m \in 0 .. Len(records) /\ Len(records) \in Nat
      BY IngestionAssumption
<1>2. /\ batch \in Seq(S) /\ Len(batch) = m
      /\ \A i \in 1 .. m : batch[i] = records[i]
  <2>1. \A i \in 1 .. m : records[i] \in S
        BY <1>1
  <2> HIDE DEF m
  <2> QED BY <1>1, <2>1, SubSeqProperties
<1>3. /\ after \in Seq(S) /\ Len(after) = Len(records) - m
      /\ \A i \in 1 .. Len(records) - m : after[i] = records[m + i]
  <2>1. \A i \in m + 1 .. Len(records) : records[i] \in S
        BY <1>1
  <2> HIDE DEF m
  <2> QED BY <1>1, <2>1, SubSeqProperties
<1>4. Batch(records) = batch /\ AfterBatch(records) = after
      BY <1>1, <1>2 DEF Batch, AfterBatch
<1> HIDE DEF m, batch, after
<1>5. ToSet(records) = ToSet(batch) \cup ToSet(after)
  <2>1. /\ ToSet(records) = {records[i] : i \in 1 .. Len(records)}
        /\ ToSet(batch) = {batch[i] : i \in 1 .. m}
        /\ ToSet(after) = {after[i] : i \in 1 .. Len(records) - m}
        BY <1>2, <1>3, ToSetFinite
  <2>2. ASSUME NEW i \in 1 .. Len(records) PROVE records[i] \in ToSet(batch) \cup ToSet(after)
    <3>1. CASE i <= m
          BY <1>1, <1>2, <2>1, <3>1
    <3>2. CASE i > m
      <4>1. i - m \in 1 .. Len(records) - m /\ after[i - m] = records[i]
            BY <1>1, <1>3, <3>2
      <4> QED BY <2>1, <4>1
    <3> QED BY <1>1, <3>1, <3>2
  <2>3. ToSet(batch) \subseteq ToSet(records)
        BY <1>1, <1>2, <2>1
  <2>4. ASSUME NEW i \in 1 .. Len(records) - m PROVE after[i] \in ToSet(records)
    <3>1. m + i \in 1 .. Len(records)
          BY <1>1
    <3> QED BY <1>3, <2>1, <3>1
  <2> QED BY <2>1, <2>2, <2>3, <2>4
<1>6. ~DuplicateNodeIds(records) => ~DuplicateNodeIds(batch)
      BY <1>1, <1>2 DEF DuplicateNodeIds
<1>7. records # <<>> => after # records
  <2>1. records # <<>> => Len(records) > 0
        OBVIOUS
  <2>2. Len(records) > 0 => m > 0
        BY IngestionAssumption DEF m
  <2> QED BY <1>1, <1>3, <2>1, <2>2
<1> QED BY <1>2, <1>3, <1>4, <1>5, <1>6, <1>7

(* An upsert keeps the key, writes the whole batch and replaces only rows  *)
(* with an identifier of the batch.                                        *)
LEMMA UpsertShape ==
  ASSUME NEW rows, IsFiniteSet(rows), \A r, s \in rows : r.id = s.id => r = s,
         NEW S, NEW batch \in Seq(S), ~DuplicateNodeIds(batch)
  PROVE  /\ IsFiniteSet(Upsert(rows, batch))
         /\ \A r, s \in Upsert(rows, batch) : r.id = s.id => r = s
         /\ ToSet(batch) \subseteq Upsert(rows, batch)
         /\ Upsert(rows, batch) \subseteq rows \cup ToSet(batch)
         /\ \A r \in rows : (\A n \in ToSet(batch) : n.id # r.id) => r \in Upsert(rows, batch)
<1>1. ToSet(batch) = {batch[i] : i \in 1 .. Len(batch)} /\ IsFiniteSet(ToSet(batch))
      BY ToSetFinite
<1>2. \A r, s \in ToSet(batch) : r.id = s.id => r = s
      BY <1>1 DEF DuplicateNodeIds
<1>3. IsFiniteSet(Upsert(rows, batch))
  <2>1. {r \in rows : \A n \in ToSet(batch) : n.id # r.id} \in SUBSET rows
        OBVIOUS
  <2> QED BY <1>1, <2>1, FS_Subset, FS_Union DEF Upsert
<1> QED BY <1>2, <1>3 DEF Upsert

-----------------------------------------------------------------------------

(* What the threads hold: the records of their own supplier.               *)
JobsOK ==
    /\ request \in [Jobs -> Request \cup {NoRequest}]
    /\ \A j \in Jobs : pc[j] # "idle" => request[j] \in Request
    /\ DOMAIN carried = Jobs
    /\ \A j \in Jobs :
         /\ carried[j].expected \in Nat
         /\ pc[j] = "idle" => carried[j].records = <<>>
         /\ pc[j] # "idle" => carried[j].records \in Seq(NodeOf(request[j].prov))

(* What the files and the history of what was read hold.                   *)
FilesOK ==
    /\ files \in [Providers -> [ingestion : Seq(CatalogProduct), nodes : Seq(Node),
                                embeddings : Seq(Node)]]
    /\ \A p \in Providers : /\ files[p].nodes \in Seq(NodeOf(p))
                            /\ files[p].embeddings \in Seq(NodeOf(p))
    /\ read \in [Jobs -> Seq(CatalogProduct)]

(* The table: finite, keyed by node_id, every row under its supplier.      *)
TableOK ==
    /\ IsFiniteSet(table)
    /\ \A r \in table : r.prov \in Providers /\ r \in NodeOf(r.prov)
    /\ \A r, s \in table : r.id = s.id => r = s

RowsInv == StatusFollowsThread /\ JobsOK /\ FilesOK /\ TableOK

(* What is not declared is the default document.                           *)
LEMMA NormalizedIsDeclared ==
  ASSUME NEW d \in Documents \cup {Undeclared}
  PROVE  NormalizeDocumentoId(d) \in Documents
  BY IngestionAssumption DEF NormalizeDocumentoId

(* The opening rows are those of one upload for each supplier.             *)
LEMMA InitTable == Init => TableOK
<1> SUFFICES ASSUME Init PROVE TableOK
    OBVIOUS
<1> DEFINE rowsOf == [o \in Opening |-> RowsIndexed(o)]
<1>1. table = UNION {rowsOf[o] : o \in Opening}
      BY DEF Init
<1>2. ASSUME NEW o \in Opening
      PROVE  /\ IsFiniteSet(rowsOf[o])
             /\ o.prov \in Providers
             /\ \A r \in rowsOf[o] : r \in NodeOf(o.prov)
             /\ \A r, s \in rowsOf[o] : r.id = s.id => r = s
  <2>1. o.pdf \in Pdfs /\ o.prov \in Providers /\ o.doc \in Documents
        BY IngestionAssumption
  <2> DEFINE products == ProcessCatalog(o.pdf, PagesOf(o.pdf))
             nodes == NodesOf(products, o.prov, o.doc)
  <2>2. products \in Seq(CatalogProduct)
        BY <2>1, ReadingTyped
  <2> HIDE DEF products
  <2>3. nodes \in Seq(NodeOf(o.prov)) /\ ~DuplicateNodeIds(nodes)
        BY <2>1, <2>2, NodesOfShape
  <2>4. rowsOf[o] = ToSet(nodes)
        BY DEF RowsIndexed, products
  <2> HIDE DEF nodes, rowsOf
  <2>5. /\ IsFiniteSet(ToSet(nodes)) /\ ToSet(nodes) \subseteq NodeOf(o.prov)
        /\ ToSet(nodes) = {nodes[k] : k \in 1 .. Len(nodes)}
        BY <2>3, ToSetFinite
  <2>6. \A r, s \in ToSet(nodes) : r.id = s.id => r = s
        BY <2>3, <2>5 DEF DuplicateNodeIds
  <2> QED BY <2>1, <2>4, <2>5, <2>6
<1>3. IsFiniteSet(table)
  <2>1. rowsOf \in Surjection(Opening, {rowsOf[o] : o \in Opening})
        BY DEF Surjection
  <2>2. IsFiniteSet({rowsOf[o] : o \in Opening})
        BY <2>1, IngestionAssumption, FS_Surjection
  <2> HIDE DEF rowsOf
  <2> QED BY <1>1, <1>2, <2>2, FS_UNION
<1> HIDE DEF rowsOf
<1>4. \A r \in table : r.prov \in Providers /\ r \in NodeOf(r.prov)
      BY <1>1, <1>2, NodeOfIsNode
<1>5. ASSUME NEW r \in table, NEW s \in table, r.id = s.id PROVE r = s
  <2>1. PICK o \in Opening : r \in rowsOf[o]
        BY <1>1
  <2>2. PICK q \in Opening : s \in rowsOf[q]
        BY <1>1
  <2>3. o.prov = q.prov
        BY <1>2, <1>5, <2>1, <2>2, NodeOfIsNode
  <2> QED BY <1>2, <1>5, <2>1, <2>2, <2>3, IngestionAssumption
<1> QED BY <1>3, <1>4, <1>5 DEF TableOK

(* At the start nothing runs, nothing is read, and the table holds the      *)
(* opening rows alone.                                                      *)
LEMMA InitRows == Init => RowsInv
<1> SUFFICES ASSUME Init PROVE RowsInv
    OBVIOUS
<1>1. StatusFollowsThread /\ TableOK
      BY InitStatusFollowsThread, InitTable
<1>2. JobsOK
      BY DEF Init, JobsOK
<1>3. FilesOK
  <2>1. <<>> \in Seq(CatalogProduct) /\ <<>> \in Seq(Node) /\ \A p : <<>> \in Seq(NodeOf(p))
        BY EmptySeq
  <2> QED BY <2>1 DEF Init, FilesOK
<1> QED BY <1>1, <1>2, <1>3 DEF RowsInv

(* A step that gives a running thread records of its supplier.             *)
LEMMA CarryingKeepsJobs ==
  ASSUME RowsInv, NEW j \in Jobs, pc[j] # "idle",
         UNCHANGED request,
         NEW records \in Seq(NodeOf(request[j].prov)), NEW expected \in Nat,
         carried' = [carried EXCEPT ![j] = [records |-> records, expected |-> expected]],
         NEW phase, phase # "idle", pc' = [pc EXCEPT ![j] = phase] \/ UNCHANGED pc
  PROVE  JobsOK'
<1>1. DOMAIN pc = Jobs /\ DOMAIN carried = Jobs
      BY DEF RowsInv, StatusFollowsThread, JobsOK
<1>2. /\ carried'[j].records = records /\ carried'[j].expected = expected
      /\ \A i \in Jobs : i # j => carried'[i] = carried[i]
      /\ \A i \in Jobs : pc'[i] = "idle" <=> pc[i] = "idle"
      BY <1>1
<1>3. DOMAIN carried' = Jobs
      BY <1>1
<1> QED BY <1>2, <1>3 DEF RowsInv, JobsOK

(* A step that leaves the records alone.                                   *)
LEMMA MovingKeepsJobs ==
  ASSUME RowsInv, NEW j \in Jobs, pc[j] # "idle", UNCHANGED << request, carried >>,
         NEW phase, phase # "idle", pc' = [pc EXCEPT ![j] = phase]
  PROVE  JobsOK'
<1>1. DOMAIN pc = Jobs
      BY DEF RowsInv, StatusFollowsThread
<1>2. \A i \in Jobs : pc'[i] = "idle" <=> pc[i] = "idle"
      BY <1>1
<1> QED BY <1>2 DEF RowsInv, JobsOK

(* Every step leaves a job with records of its own supplier only.           *)
LEMMA JobsNext == RowsInv /\ [Next]_vars => JobsOK'
<1> SUFFICES ASSUME RowsInv, [Next]_vars PROVE JobsOK'
    OBVIOUS
<1>e. \A p : <<>> \in Seq(NodeOf(p))
      BY EmptySeq
<1>1. ASSUME NEW j \in Jobs, Ingest(j) PROVE JobsOK'
  <2>1. PICK sent \in {IngestCatalog(form) : form \in Accepted} \cup Requests :
          request' = [request EXCEPT ![j] = [sent EXCEPT !.doc = NormalizeDocumentoId(sent.doc)]]
        BY <1>1 DEF Ingest
  <2>2. sent \in [pdf : Pdfs, prov : Providers, doc : Documents \cup {Undeclared},
                  scope : {"proveedor", "documento"}, recreate : BOOLEAN]
    <3>1. CASE sent \in Requests
          BY <3>1, IngestionAssumption
    <3>2. ASSUME NEW form \in Accepted, sent = IngestCatalog(form)
          PROVE  sent \in [pdf : Pdfs, prov : Providers, doc : Documents \cup {Undeclared},
                           scope : {"proveedor", "documento"}, recreate : BOOLEAN]
      <4>1. form \in [pdf : Pdfs, prov : Providers, doc : Documents \cup {Undeclared},
                      incremental : BOOLEAN]
            BY <3>2, IngestionAssumption DEF Accepted
      <4> QED BY <3>2, <4>1 DEF IngestCatalog
    <3> QED BY <2>1, <3>1, <3>2
  <2>3. [sent EXCEPT !.doc = NormalizeDocumentoId(sent.doc)] \in Request
        BY <2>2, NormalizedIsDeclared DEF Request
  <2>4. pc' = [pc EXCEPT ![j] = "queued"] /\ UNCHANGED carried /\ status[j] = "uncreated"
        BY <1>1 DEF Ingest
  <2>5. pc[j] = "idle"
        BY <2>4 DEF RowsInv, StatusFollowsThread
  <2>6. /\ request' \in [Jobs -> Request \cup {NoRequest}]
        /\ request'[j] \in Request
        /\ \A i \in Jobs : i # j => request'[i] = request[i]
        BY <2>1, <2>3 DEF RowsInv, JobsOK
  <2>7. \A i \in Jobs : i # j => pc'[i] = pc[i]
        BY <2>4 DEF RowsInv, StatusFollowsThread
  <2> QED BY <1>e, <2>4, <2>5, <2>6, <2>7 DEF RowsInv, JobsOK
<1>2. ASSUME NEW j \in Jobs,
             \/ Start(j) \/ Extract(j) \/ ExtractExits(j) \/ StoreNodes(j)
             \/ StoreEmbeddings(j) \/ InitSchema(j) \/ DeletePrevious(j)
      PROVE JobsOK'
  <2>1. UNCHANGED << request, carried >>
        BY <1>2 DEF Start, Extract, ExtractExits, StoreNodes, StoreEmbeddings, InitSchema,
                    DeletePrevious
  <2>2. pc[j] # "idle"
        BY <1>2 DEF Start, Extract, ExtractExits, StoreNodes, StoreEmbeddings, InitSchema,
                    DeletePrevious
  <2>3. PICK phase \in Phases \cup {"over"} : pc' = [pc EXCEPT ![j] = phase]
    <3>1. CASE InitSchema(j)
          BY <3>1 DEF InitSchema, Goto
    <3>2. CASE ~InitSchema(j)
          BY <1>2, <3>2 DEF Start, Extract, ExtractExits, StoreNodes, StoreEmbeddings,
                            DeletePrevious, Goto
    <3> QED BY <3>1, <3>2
  <2>4. phase # "idle"
        OBVIOUS
  <2> QED BY <2>1, <2>2, <2>3, <2>4, MovingKeepsJobs
<1>3. ASSUME NEW j \in Jobs, Chunk(j) PROVE JobsOK'
  <2> DEFINE p == request[j].prov
             nodes == NodesOf(files[p].ingestion, p, request[j].doc)
  <2>1. pc[j] = "chunk" /\ pc' = [pc EXCEPT ![j] = "store_nodes"] /\ UNCHANGED request
        BY <1>3 DEF Chunk, Goto
  <2>2. request[j] \in Request
        BY <2>1 DEF RowsInv, JobsOK
  <2>3. p \in Providers /\ request[j].doc \in Documents
        BY <2>2 DEF Request
  <2>4. files[p].ingestion \in Seq(CatalogProduct)
        BY <2>3 DEF RowsInv, FilesOK
  <2>5. nodes \in Seq(NodeOf(p)) /\ Len(nodes) \in Nat
        BY <2>3, <2>4, NodesOfShape
  <2>6. carried' = [carried EXCEPT ![j] = [records |-> nodes, expected |-> Len(nodes)]]
        BY <1>3 DEF Chunk, Carry
  <2> HIDE DEF nodes
  <2>7. pc[j] # "idle"
        BY <2>1
  <2> QED BY <2>1, <2>5, <2>6, <2>7, CarryingKeepsJobs
<1>4. ASSUME NEW j \in Jobs, Embed(j) \/ LoadEmbeddings(j) PROVE JobsOK'
  <2> DEFINE p == request[j].prov
  <2>1. PICK stored \in {files[p].nodes, files[p].embeddings} :
          carried' = [carried EXCEPT ![j] = [records |-> stored, expected |-> Len(stored)]]
        BY <1>4 DEF Embed, LoadEmbeddings, Carry
  <2>2. /\ pc[j] \in {"embed", "load"} /\ UNCHANGED request
        /\ \E phase \in {"store_embeddings", "schema"} : pc' = [pc EXCEPT ![j] = phase]
        BY <1>4 DEF Embed, LoadEmbeddings, Goto
  <2>3. request[j] \in Request
        BY <2>2 DEF RowsInv, JobsOK
  <2>4. p \in Providers
        BY <2>3 DEF Request
  <2>5. stored \in Seq(NodeOf(p)) /\ Len(stored) \in Nat
        BY <2>1, <2>4 DEF RowsInv, FilesOK
  <2>6. PICK phase \in {"store_embeddings", "schema"} : pc' = [pc EXCEPT ![j] = phase]
        BY <2>2
  <2>7. phase # "idle" /\ pc[j] # "idle"
        BY <2>2
  <2> QED BY <2>1, <2>2, <2>5, <2>6, <2>7, CarryingKeepsJobs
<1>5. ASSUME NEW j \in Jobs, IngestBatch(j) PROVE JobsOK'
  <2>1. /\ pc[j] = "upsert" /\ UNCHANGED request
        /\ pc' = [pc EXCEPT ![j] = "qa"] \/ UNCHANGED pc
        BY <1>5 DEF IngestBatch, Goto
  <2> DEFINE new == [carried[j] EXCEPT !.records = AfterBatch(carried[j].records)]
  <2>2. carried' = [carried EXCEPT ![j].records = AfterBatch(carried[j].records)]
        BY <1>5 DEF IngestBatch
  <2>3. AfterBatch(carried[j].records) \in Seq(NodeOf(request[j].prov))
        BY <2>1, BatchShape DEF RowsInv, JobsOK
  <2>4. DOMAIN carried' = Jobs /\ \A i \in Jobs : i # j => carried'[i] = carried[i]
        BY <2>2 DEF RowsInv, JobsOK
  <2>5. /\ carried'[j].records = AfterBatch(carried[j].records)
        /\ carried'[j].expected = carried[j].expected
        BY <2>2 DEF RowsInv, JobsOK
  <2>6. \A i \in Jobs : pc'[i] = "idle" <=> pc[i] = "idle"
        BY <2>1 DEF RowsInv, StatusFollowsThread
  <2> QED BY <2>1, <2>3, <2>4, <2>5, <2>6 DEF RowsInv, JobsOK
<1>6. ASSUME NEW j \in Jobs, Complete(j) \/ ParityFails(j) \/ Raise(j) PROVE JobsOK'
  <2>1. /\ pc[j] \in Phases /\ UNCHANGED request
        /\ pc' = [pc EXCEPT ![j] = "over"]
        /\ carried' = [carried EXCEPT ![j] = [records |-> <<>>, expected |-> 0]]
        BY <1>6 DEF Complete, ParityFails, Raise, End, Goto, Running
  <2>2. <<>> \in Seq(NodeOf(request[j].prov)) /\ pc[j] # "idle"
        BY <1>e, <2>1
  <2> QED BY <2>1, <2>2, CarryingKeepsJobs
<1>7. ASSUME Restart PROVE JobsOK'
  <2>1. /\ \A j \in Jobs : pc'[j] = "idle" <=> pc[j] = "idle"
        /\ UNCHANGED request
        /\ carried' = [j \in Jobs |-> [records |-> <<>>, expected |-> 0]]
        BY <1>7 DEF Restart
  <2> QED BY <1>e, <2>1 DEF RowsInv, JobsOK
<1>8. ASSUME UNCHANGED vars PROVE JobsOK'
      BY <1>8 DEF vars, RowsInv, JobsOK
<1> QED BY <1>1, <1>2, <1>3, <1>4, <1>5, <1>6, <1>7, <1>8 DEF Next, Work

(* The files of a supplier only ever hold records of that supplier.         *)
LEMMA FilesNext == RowsInv /\ [Next]_vars => FilesOK'
<1> SUFFICES ASSUME RowsInv, [Next]_vars PROVE FilesOK'
    OBVIOUS
<1>1. ASSUME NEW j \in Jobs, Extract(j) PROVE FilesOK'
  <2>1. request[j] \in Request
        BY <1>1 DEF Extract, RowsInv, JobsOK
  <2>2. request[j].prov \in Providers /\ request[j].pdf \in Pdfs
        BY <2>1 DEF Request
  <2>3. PICK pages \in SUBSET PagesOf(request[j].pdf) :
          LET products == ProcessCatalog(request[j].pdf, pages)
          IN  /\ files' = [files EXCEPT ![request[j].prov].ingestion = products]
              /\ read' = [read EXCEPT ![j] = products]
        BY <1>1 DEF Extract
  <2>4. ProcessCatalog(request[j].pdf, pages) \in Seq(CatalogProduct)
        BY <2>2, ReadingTyped
  <2>5. read' \in [Jobs -> Seq(CatalogProduct)]
        BY <2>3, <2>4 DEF RowsInv, FilesOK
  <2>6. /\ files' \in [Providers -> [ingestion : Seq(CatalogProduct), nodes : Seq(Node),
                                    embeddings : Seq(Node)]]
        /\ \A p \in Providers : /\ files'[p].nodes = files[p].nodes
                                /\ files'[p].embeddings = files[p].embeddings
        BY <2>2, <2>3, <2>4 DEF RowsInv, FilesOK
  <2> QED BY <2>5, <2>6 DEF RowsInv, FilesOK
<1>2. ASSUME NEW j \in Jobs, StoreNodes(j) \/ StoreEmbeddings(j) PROVE FilesOK'
  <2> DEFINE p == request[j].prov
             records == carried[j].records
  <2>1. pc[j] # "idle" /\ UNCHANGED read
        BY <1>2 DEF StoreNodes, StoreEmbeddings
  <2>2. request[j] \in Request
        BY <2>1 DEF RowsInv, JobsOK
  <2>3. p \in Providers
        BY <2>2 DEF Request
  <2>4. records \in Seq(NodeOf(p))
        BY <2>1 DEF RowsInv, JobsOK
  <2>5. records \in Seq(Node)
    <3>1. NodeOf(p) \subseteq Node
          BY <2>3, NodeOfIsNode
    <3> QED BY <2>4, <3>1, SeqMonotonic
  <2> HIDE DEF p, records
  <2>6. CASE StoreNodes(j)
    <3>1. files' = [files EXCEPT ![p].nodes = records]
          BY <2>6 DEF StoreNodes, p, records
    <3> QED BY <2>1, <2>3, <2>4, <2>5, <3>1 DEF RowsInv, FilesOK
  <2>7. CASE StoreEmbeddings(j)
    <3>1. files' = [files EXCEPT ![p].embeddings = records]
          BY <2>7 DEF StoreEmbeddings, p, records
    <3> QED BY <2>1, <2>3, <2>4, <2>5, <3>1 DEF RowsInv, FilesOK
  <2> QED BY <1>2, <2>6, <2>7
<1>3. ASSUME NEW j \in Jobs,
             \/ Ingest(j) \/ Start(j) \/ ExtractExits(j) \/ Chunk(j) \/ Embed(j)
             \/ LoadEmbeddings(j) \/ InitSchema(j) \/ DeletePrevious(j) \/ IngestBatch(j)
             \/ Complete(j) \/ ParityFails(j) \/ Raise(j)
      PROVE FilesOK'
  <2>1. UNCHANGED << files, read >>
        BY <1>3 DEF Ingest, Start, ExtractExits, Chunk, Embed, LoadEmbeddings, InitSchema,
                    DeletePrevious, IngestBatch, Complete, ParityFails, Raise, End
  <2> QED BY <2>1 DEF RowsInv, FilesOK
<1>4. ASSUME Restart \/ UNCHANGED vars PROVE FilesOK'
  <2>1. UNCHANGED << files, read >>
        BY <1>4 DEF Restart, vars
  <2> QED BY <2>1 DEF RowsInv, FilesOK
<1> QED BY <1>1, <1>2, <1>3, <1>4 DEF Next, Work

(* Removing rows keeps the table in order.                                 *)
LEMMA FewerRows == ASSUME TableOK, table' \subseteq table PROVE TableOK'
  BY FS_Subset DEF TableOK

(* Every step keeps the table finite and keyed, each row under its          *)
(* supplier.                                                                *)
LEMMA TableNext == RowsInv /\ [Next]_vars => TableOK'
<1> SUFFICES ASSUME RowsInv, [Next]_vars PROVE TableOK'
    OBVIOUS
<1>1. ASSUME NEW j \in Jobs, InitSchema(j) \/ DeletePrevious(j) PROVE TableOK'
  <2>1. table' \subseteq table
    <3>1. CASE InitSchema(j)
          BY <3>1 DEF InitSchema
    <3>2. CASE DeletePrevious(j)
          BY <3>2 DEF DeletePrevious
    <3> QED BY <1>1, <3>1, <3>2
  <2> QED BY <2>1, FewerRows DEF RowsInv
<1>2. ASSUME NEW j \in Jobs, IngestBatch(j) PROVE TableOK'
  <2> DEFINE p == request[j].prov
             batch == Batch(carried[j].records)
  <2>1. pc[j] # "idle" /\ ~DuplicateNodeIds(carried[j].records) /\ table' = Upsert(table, batch)
        BY <1>2 DEF IngestBatch
  <2>2. request[j] \in Request
        BY <2>1 DEF RowsInv, JobsOK
  <2>3. p \in Providers
        BY <2>2 DEF Request
  <2>4. carried[j].records \in Seq(NodeOf(p))
        BY <2>1 DEF RowsInv, JobsOK
  <2>5. batch \in Seq(NodeOf(p)) /\ ~DuplicateNodeIds(batch)
        BY <2>1, <2>4, BatchShape
  <2> HIDE DEF batch
  <2>6. ToSet(batch) \subseteq NodeOf(p)
        BY <2>5, ToSetFinite
  <2>7. /\ IsFiniteSet(table') /\ \A r, s \in table' : r.id = s.id => r = s
        /\ table' \subseteq table \cup ToSet(batch)
        BY <2>1, <2>5, UpsertShape DEF RowsInv, TableOK
  <2>8. \A r \in table' : r.prov \in Providers /\ r \in NodeOf(r.prov)
    <3>1. \A r \in ToSet(batch) : r.prov = p /\ r \in NodeOf(p)
          BY <2>3, <2>6, NodeOfIsNode
    <3> QED BY <2>3, <2>7, <3>1 DEF RowsInv, TableOK
  <2> QED BY <2>7, <2>8 DEF TableOK
<1>3. ASSUME NEW j \in Jobs,
             \/ Ingest(j) \/ Start(j) \/ Extract(j) \/ ExtractExits(j) \/ Chunk(j)
             \/ StoreNodes(j) \/ Embed(j) \/ StoreEmbeddings(j) \/ LoadEmbeddings(j)
             \/ Complete(j) \/ ParityFails(j) \/ Raise(j)
      PROVE TableOK'
  <2>1. table' = table
        BY <1>3 DEF Ingest, Start, Extract, ExtractExits, Chunk, StoreNodes, Embed,
                    StoreEmbeddings, LoadEmbeddings, Complete, ParityFails, Raise, End
  <2> QED BY <2>1, FewerRows DEF RowsInv
<1>4. ASSUME Restart \/ UNCHANGED vars PROVE TableOK'
  <2>1. table' = table
        BY <1>4 DEF Restart, vars
  <2> QED BY <2>1, FewerRows DEF RowsInv
<1> QED BY <1>1, <1>2, <1>3, <1>4 DEF Next, Work

(* Records, files and rows stay in order for ever: whatever the schedule,   *)
(* the failures and the restarts, no supplier's records reach the thread,   *)
(* the files or the rows of another, and no node_id is in the table twice.  *)
THEOREM RowsAlwaysInOrder == Spec => []RowsInv
<1>1. RowsInv /\ [Next]_vars => RowsInv'
      BY NextStatusFollowsThread, JobsNext, FilesNext, TableNext DEF RowsInv
<1> QED BY <1>1, InitRows, PTL DEF Spec

-----------------------------------------------------------------------------

(* The flags of the run.                                                   *)
FlagsOK == apiKey \in BOOLEAN /\ alone \in [Jobs -> BOOLEAN] /\ restarts \in 0..MaxRestarts

(* The flags of the run keep their types.                                   *)
LEMMA FlagsNext == FlagsOK /\ [Next]_vars => FlagsOK'
<1> SUFFICES ASSUME FlagsOK, [Next]_vars PROVE FlagsOK'
    OBVIOUS
<1>1. ASSUME NEW j \in Jobs, Start(j) PROVE FlagsOK'
  <2>1. UNCHANGED << apiKey, restarts >>
        BY <1>1 DEF Start
  <2>2. alone' \in [Jobs -> BOOLEAN]
        BY <1>1 DEF Start, FlagsOK
  <2> QED BY <2>1, <2>2 DEF FlagsOK
<1>2. ASSUME NEW j \in Jobs,
             \/ Ingest(j) \/ Extract(j) \/ ExtractExits(j) \/ Chunk(j) \/ StoreNodes(j)
             \/ Embed(j) \/ StoreEmbeddings(j) \/ LoadEmbeddings(j) \/ InitSchema(j)
             \/ DeletePrevious(j) \/ IngestBatch(j) \/ Complete(j) \/ ParityFails(j) \/ Raise(j)
      PROVE FlagsOK'
  <2>1. UNCHANGED << apiKey, alone, restarts >>
        BY <1>2 DEF Ingest, Extract, ExtractExits, Chunk, StoreNodes, Embed, StoreEmbeddings,
                    LoadEmbeddings, InitSchema, DeletePrevious, IngestBatch, Complete,
                    ParityFails, Raise, End
  <2> QED BY <2>1 DEF FlagsOK
<1>3. ASSUME Restart PROVE FlagsOK'
      BY <1>3, IngestionAssumption DEF Restart, FlagsOK
<1>4. ASSUME UNCHANGED vars PROVE FlagsOK'
      BY <1>4 DEF vars, FlagsOK
<1> QED BY <1>1, <1>2, <1>3, <1>4 DEF Next, Work

(* Type correctness, with the key of the table: one row for a node_id.     *)
THEOREM IngestionTypeCorrect == Spec => []TypeOK
<1>1. Init => FlagsOK
      BY IngestionAssumption DEF Init, FlagsOK
<1>2. RowsInv /\ FlagsOK => TypeOK
  <2> SUFFICES ASSUME RowsInv, FlagsOK PROVE TypeOK
      OBVIOUS
  <2>1. /\ status \in [Jobs -> Board!JobStatus]
        /\ pc \in [Jobs -> Phases \cup {"idle", "queued", "over"}]
        BY DEF RowsInv, StatusFollowsThread
  <2>2. \A j \in Jobs : request[j] \in Request \cup {NoRequest}
        BY DEF RowsInv, JobsOK
  <2>3. ASSUME NEW j \in Jobs
        PROVE  ToSet(carried[j].records) \subseteq Node /\ carried[j].expected \in Nat
    <3>1. CASE pc[j] = "idle"
      <4>1. carried[j].records = <<>>
            BY <3>1 DEF RowsInv, JobsOK
      <4>2. <<>> \in Seq(Node)
            BY EmptySeq
      <4>3. ToSet(carried[j].records) \subseteq Node
            BY <4>1, <4>2, ToSetFinite
      <4> QED BY <4>3 DEF RowsInv, JobsOK
    <3>2. CASE pc[j] # "idle"
      <4>1. request[j] \in Request /\ carried[j].records \in Seq(NodeOf(request[j].prov))
            BY <3>2 DEF RowsInv, JobsOK
      <4>2. request[j].prov \in Providers
            BY <4>1 DEF Request
      <4>3. ToSet(carried[j].records) \subseteq NodeOf(request[j].prov)
            BY <4>1, ToSetFinite
      <4> QED BY <4>2, <4>3, NodeOfIsNode DEF RowsInv, JobsOK
    <3> QED BY <3>1, <3>2
  <2>4. ASSUME NEW p \in Providers
        PROVE  ToSet(files[p].nodes) \cup ToSet(files[p].embeddings) \subseteq Node
    <3>1. files[p].nodes \in Seq(Node) /\ files[p].embeddings \in Seq(Node)
          BY DEF RowsInv, FilesOK
    <3> QED BY <3>1, ToSetFinite
  <2>5. table \subseteq Node /\ \A r, s \in table : r.id = s.id => r = s
        BY NodeOfIsNode DEF RowsInv, TableOK
  <2> QED BY <2>1, <2>2, <2>3, <2>4, <2>5 DEF TypeOK, FlagsOK
<1> QED BY <1>1, <1>2, FlagsNext, RowsAlwaysInOrder, PTL DEF Spec

-----------------------------------------------------------------------------

(* An upsert of a job leaves the rows of every other supplier as they are. *)
LEMMA BatchKeepsOthers ==
  ASSUME RowsInv, NEW j \in Jobs, IngestBatch(j), NEW p \in Providers, request[j].prov # p
  PROVE  RowsOf(p)' = RowsOf(p)
<1> DEFINE batch == Batch(carried[j].records)
           q == request[j].prov
<1>1. pc[j] # "idle" /\ ~DuplicateNodeIds(carried[j].records) /\ table' = Upsert(table, batch)
      BY DEF IngestBatch
<1>2. q \in Providers /\ carried[j].records \in Seq(NodeOf(q))
      BY <1>1 DEF RowsInv, JobsOK, Request
<1>3. batch \in Seq(NodeOf(q)) /\ ~DuplicateNodeIds(batch)
      BY <1>1, <1>2, BatchShape
<1> HIDE DEF batch
<1>4. \A n \in ToSet(batch) : n.prov = q /\ n.id[1] = q
      BY <1>2, <1>3, ToSetFinite, NodeOfIsNode
<1>5. \A r \in RowsOf(p) : r \in table /\ r.prov = p /\ r.id[1] = p
      BY NodeOfIsNode DEF RowsOf, RowsInv, TableOK
<1>6. /\ table' \subseteq table \cup ToSet(batch)
      /\ \A r \in table : (\A n \in ToSet(batch) : n.id # r.id) => r \in table'
      BY <1>1, <1>3, UpsertShape DEF RowsInv, TableOK
<1>7. RowsOf(p)' = {r \in table' : r.prov = p} /\ RowsOf(p) = {r \in table : r.prov = p}
      BY DEF RowsOf
<1>8. \A r \in RowsOf(p) : r \in table'
      BY <1>4, <1>5, <1>6
<1> QED BY <1>4, <1>5, <1>6, <1>7, <1>8

(* Suppliers share the table but no row.                                   *)
THEOREM SuppliersShareNoRow == Spec => OthersKeepTheirRows
<1>1. RowsInv /\ [Next]_vars =>
        [\A p \in Providers :
           RowsOf(p)' # RowsOf(p)
           => \E j \in Jobs : /\ pc'[j] # pc[j] \/ carried'[j] # carried[j]
                              /\ request[j].prov = p \/ request[j].recreate]_vars
  <2> SUFFICES ASSUME RowsInv, [Next]_vars, NEW p \in Providers, RowsOf(p)' # RowsOf(p)
               PROVE  \E j \in Jobs : /\ pc'[j] # pc[j] \/ carried'[j] # carried[j]
                                      /\ request[j].prov = p \/ request[j].recreate
      OBVIOUS
  <2>0. table' # table
        BY DEF RowsOf
  <2>1. ASSUME NEW j \in Jobs, InitSchema(j)
        PROVE  pc'[j] # pc[j] /\ request[j].recreate
    <3>1. pc[j] = "schema" /\ table' = IF request[j].recreate THEN {} ELSE table
          BY <2>1 DEF InitSchema
    <3>2. pc' = [pc EXCEPT ![j] = IF request[j].recreate THEN "upsert" ELSE "delete"]
          BY <2>1 DEF InitSchema, Goto
    <3> QED BY <2>0, <3>1, <3>2 DEF RowsInv, StatusFollowsThread
  <2>2. ASSUME NEW j \in Jobs, DeletePrevious(j)
        PROVE  pc'[j] # pc[j] /\ request[j].prov = p
    <3>1. pc[j] = "delete" /\ pc' = [pc EXCEPT ![j] = "upsert"]
          BY <2>2 DEF DeletePrevious, Goto
    <3>2. table' \subseteq table /\ \A r \in table : r.prov # request[j].prov => r \in table'
          BY <2>2 DEF DeletePrevious, RowsOf, RowsOfDocument
    <3>3. request[j].prov # p => RowsOf(p)' = RowsOf(p)
          BY <3>2 DEF RowsOf
    <3> QED BY <3>1, <3>3 DEF RowsInv, StatusFollowsThread
  <2>3. ASSUME NEW j \in Jobs, IngestBatch(j)
        PROVE  (pc'[j] # pc[j] \/ carried'[j] # carried[j]) /\ request[j].prov = p
    <3> DEFINE left == AfterBatch(carried[j].records)
    <3>1. request[j].prov = p
          BY <2>3, BatchKeepsOthers
    <3>2. /\ pc[j] = "upsert"
          /\ carried' = [carried EXCEPT ![j].records = left]
          /\ IF left = <<>> THEN pc' = [pc EXCEPT ![j] = "qa"] ELSE UNCHANGED pc
          BY <2>3 DEF IngestBatch, Goto
    <3>3. carried[j].records \in Seq(NodeOf(request[j].prov))
          BY <3>2 DEF RowsInv, JobsOK
    <3>4. carried[j].records # <<>> => left # carried[j].records
          BY <3>3, BatchShape
    <3> HIDE DEF left
    <3>5. CASE left = <<>>
          BY <3>1, <3>2, <3>5 DEF RowsInv, StatusFollowsThread
    <3>6. CASE left # <<>>
      <4>1. carried'[j].records = left
            BY <3>2 DEF RowsInv, JobsOK
      <4>2. left # carried[j].records
            BY <3>4, <3>6
      <4> QED BY <3>1, <4>1, <4>2
    <3> QED BY <3>5, <3>6
  <2>4. ASSUME NEW j \in Jobs,
               \/ Ingest(j) \/ Start(j) \/ Extract(j) \/ ExtractExits(j) \/ Chunk(j)
               \/ StoreNodes(j) \/ Embed(j) \/ StoreEmbeddings(j) \/ LoadEmbeddings(j)
               \/ Complete(j) \/ ParityFails(j) \/ Raise(j)
        PROVE FALSE
    <3>1. table' = table
          BY <2>4 DEF Ingest, Start, Extract, ExtractExits, Chunk, StoreNodes, Embed,
                      StoreEmbeddings, LoadEmbeddings, Complete, ParityFails, Raise, End
    <3> QED BY <2>0, <3>1
  <2>5. ASSUME Restart \/ UNCHANGED vars PROVE FALSE
        BY <2>0, <2>5 DEF Restart, vars
  <2> QED BY <2>1, <2>2, <2>3, <2>4, <2>5 DEF Next, Work
<1> QED BY <1>1, RowsAlwaysInOrder, PTL DEF Spec, OthersKeepTheirRows

-----------------------------------------------------------------------------

(* The records job j makes of what it read.                                *)
OwnRecords(j) == NodesOf(read[j], request[j].prov, request[j].doc)

Undisturbed(j) == alone[j] /\ pc[j] \in Phases

(* While a job runs alone, no other of its supplier and none that recreates *)
(* the table runs.                                                         *)
NoCompany ==
    \A j \in Jobs : Undisturbed(j) =>
        \A i \in Jobs \ {j} :
            pc[i] \in Phases => request[i].prov # request[j].prov /\ ~request[i].recreate

(* How far an undisturbed job has brought its records, at each phase.      *)
HandedOver(j) ==
    LET own == OwnRecords(j)
        kept == files[request[j].prov]
    IN  /\ pc[j] = "chunk" => kept.ingestion = read[j]
        /\ pc[j] \in Phases \ {"extract", "chunk"} => read[j] # <<>>
        /\ pc[j] \in {"store_nodes", "store_embeddings", "schema", "delete"}
           => carried[j].records = own
        /\ pc[j] = "embed" => kept.nodes = own
        /\ pc[j] = "load" => kept.embeddings = own
        /\ pc[j] \in {"schema", "delete", "upsert", "qa"} => carried[j].expected = Len(own)
        /\ pc[j] = "upsert"
           => /\ ToSet(carried[j].records) \subseteq ToSet(own)
              /\ ToSet(own) \subseteq table \cup ToSet(carried[j].records)
        /\ pc[j] = "qa" => ToSet(own) \subseteq table

AloneInv ==
    /\ RowsInv /\ FlagsOK
    /\ NoCompany
    /\ \A j \in Jobs : Undisturbed(j) => HandedOver(j)

(* Who else starts while a job runs alone ends its being alone.            *)
LEMMA StartKeepsNoCompany ==
  ASSUME RowsInv, FlagsOK, NoCompany, NEW k \in Jobs, Start(k)
  PROVE  NoCompany'
<1> DEFINE beside == {i \in Jobs : Running(i) /\ request[i].prov = request[k].prov}
           dropped == {i \in Jobs : Running(i) /\ (request[i].recreate \/ request[k].recreate)}
           met == beside \cup dropped
<1>1. /\ UNCHANGED request /\ pc' = [pc EXCEPT ![k] = "extract"]
      /\ alone' = [i \in Jobs |-> IF i \in met \/ (i = k /\ met # {}) THEN FALSE ELSE alone[i]]
      BY DEF Start
<1>2. \A i \in Jobs : i \in met <=> /\ pc[i] \in Phases
                                   /\ \/ request[i].prov = request[k].prov
                                      \/ request[i].recreate \/ request[k].recreate
      BY DEF Running
<1>3. \A i \in Jobs : i # k => pc'[i] = pc[i]
      BY <1>1 DEF RowsInv, StatusFollowsThread
<1>4. \A i \in Jobs : alone'[i] => alone[i] /\ i \notin met /\ (i = k => met = {})
      BY <1>1
<1> HIDE DEF met
<1> SUFFICES ASSUME NEW j \in Jobs, Undisturbed(j)', NEW i \in Jobs \ {j}, pc'[i] \in Phases
             PROVE  request'[i].prov # request'[j].prov /\ ~request'[i].recreate
    BY DEF NoCompany
<1>5. CASE j = k
  <2>1. i \notin met /\ pc[i] \in Phases
        BY <1>3, <1>4, <1>5 DEF Undisturbed
  <2> QED BY <1>1, <1>2, <1>5, <2>1
<1>6. CASE j # k /\ i = k
  <2>1. j \notin met /\ pc[j] \in Phases
        BY <1>3, <1>4, <1>6 DEF Undisturbed
  <2> QED BY <1>1, <1>2, <1>6, <2>1
<1>7. CASE j # k /\ i # k
  <2>1. Undisturbed(j) /\ pc[i] \in Phases
        BY <1>3, <1>4, <1>7 DEF Undisturbed
  <2> QED BY <1>1, <2>1 DEF NoCompany
<1> QED BY <1>5, <1>6, <1>7

(* A step after which nobody else runs, and no flag has changed.           *)
LEMMA NobodyStarts ==
  ASSUME NoCompany, UNCHANGED alone,
         \A i \in Jobs : pc'[i] \in Phases => pc[i] \in Phases /\ request'[i] = request[i]
  PROVE  NoCompany'
  BY DEF NoCompany, Undisturbed

(* A job that still runs alone has no company after any step.               *)
LEMMA NoCompanyNext ==
  ASSUME RowsInv, FlagsOK, NoCompany, [Next]_vars PROVE NoCompany'
<1>1. ASSUME NEW j \in Jobs, Start(j) PROVE NoCompany'
      BY <1>1, StartKeepsNoCompany
<1>2. ASSUME NEW j \in Jobs, Ingest(j) PROVE NoCompany'
  <2>1. PICK new : request' = [request EXCEPT ![j] = new]
        BY <1>2 DEF Ingest
  <2>2. UNCHANGED alone /\ pc' = [pc EXCEPT ![j] = "queued"]
        BY <1>2 DEF Ingest
  <2> QED BY <2>1, <2>2, NobodyStarts DEF RowsInv, StatusFollowsThread, JobsOK
<1>3. ASSUME NEW j \in Jobs,
             \/ Extract(j) \/ ExtractExits(j) \/ Chunk(j) \/ StoreNodes(j)
             \/ Embed(j) \/ StoreEmbeddings(j) \/ LoadEmbeddings(j) \/ InitSchema(j)
             \/ DeletePrevious(j) \/ IngestBatch(j) \/ Complete(j) \/ ParityFails(j) \/ Raise(j)
      PROVE NoCompany'
  <2>1. UNCHANGED << alone, request >>
        BY <1>3 DEF Extract, ExtractExits, Chunk, StoreNodes, Embed, StoreEmbeddings,
                    LoadEmbeddings, InitSchema, DeletePrevious, IngestBatch, Complete,
                    ParityFails, Raise, End
  <2>2. pc[j] \in Phases
        BY <1>3 DEF Extract, ExtractExits, Chunk, StoreNodes, Embed, StoreEmbeddings,
                    LoadEmbeddings, InitSchema, DeletePrevious, IngestBatch, Complete,
                    ParityFails, Raise, Running
  <2>3. \A i \in Jobs : i # j => pc'[i] = pc[i]
        BY <1>3 DEF Extract, ExtractExits, Chunk, StoreNodes, Embed, StoreEmbeddings,
                    LoadEmbeddings, InitSchema, DeletePrevious, IngestBatch, Complete,
                    ParityFails, Raise, End, Goto, RowsInv, StatusFollowsThread
  <2> QED BY <2>1, <2>2, <2>3, NobodyStarts
<1>4. ASSUME Restart PROVE NoCompany'
      BY <1>4, NobodyStarts DEF Restart
<1>5. ASSUME UNCHANGED vars PROVE NoCompany'
      BY <1>5, NobodyStarts DEF vars
<1> QED BY <1>1, <1>2, <1>3, <1>4, <1>5 DEF Next, Work

(* What job j holds is left alone, in its thread, its files and its rows.  *)
Untouched(j) ==
    LET p == request[j].prov
    IN  /\ request'[j] = request[j] /\ pc'[j] = pc[j] /\ carried'[j] = carried[j]
        /\ read'[j] = read[j] /\ files'[p] = files[p]
        /\ \A r \in table : r.prov = p => r \in table'

(* The records of a job are rows of its supplier.                          *)
LEMMA OwnRecordsShape ==
  ASSUME RowsInv, NEW j \in Jobs, pc[j] # "idle"
  PROVE  /\ request[j].prov \in Providers /\ request[j].doc \in Documents
         /\ read[j] \in Seq(CatalogProduct)
         /\ OwnRecords(j) \in Seq(NodeOf(request[j].prov))
         /\ Len(OwnRecords(j)) = Len(read[j])
         /\ \A k \in 1 .. Len(read[j]) : /\ OwnRecords(j)[k].product = read[j][k]
                                        /\ OwnRecords(j)[k].doc = request[j].doc
         /\ ~DuplicateNodeIds(OwnRecords(j))
         /\ \A r \in ToSet(OwnRecords(j)) : r \in NodeOf(request[j].prov) /\ r.prov = request[j].prov
<1>1. request[j] \in Request /\ read[j] \in Seq(CatalogProduct)
      BY DEF RowsInv, JobsOK, FilesOK
<1>2. request[j].prov \in Providers /\ request[j].doc \in Documents
      BY <1>1 DEF Request
<1>3. /\ OwnRecords(j) \in Seq(NodeOf(request[j].prov))
      /\ Len(OwnRecords(j)) = Len(read[j])
      /\ \A k \in 1 .. Len(read[j]) : /\ OwnRecords(j)[k].product = read[j][k]
                                     /\ OwnRecords(j)[k].doc = request[j].doc
      /\ ~DuplicateNodeIds(OwnRecords(j))
      BY <1>1, <1>2, NodesOfShape DEF OwnRecords
<1>4. ToSet(OwnRecords(j)) \subseteq NodeOf(request[j].prov)
      BY <1>3, ToSetFinite
<1> QED BY <1>1, <1>2, <1>3, <1>4, NodeOfIsNode

(* A step that leaves what a job holds alone leaves its progress alone.     *)
LEMMA UntouchedKeepsHandedOver ==
  ASSUME RowsInv, NEW j \in Jobs, pc[j] \in Phases, HandedOver(j), Untouched(j)
  PROVE  HandedOver(j)'
<1>1. OwnRecords(j)' = OwnRecords(j)
      BY DEF OwnRecords, Untouched, NodesOf, NodeId, Occurrence
<1>2. ASSUME ToSet(OwnRecords(j)) \subseteq table \cup ToSet(carried[j].records)
      PROVE  ToSet(OwnRecords(j)) \subseteq table' \cup ToSet(carried[j].records)
  <2>1. \A r \in ToSet(OwnRecords(j)) : r.prov = request[j].prov
        BY OwnRecordsShape
  <2> QED BY <1>2, <2>1 DEF Untouched
<1>3. ASSUME ToSet(OwnRecords(j)) \subseteq table
      PROVE  ToSet(OwnRecords(j)) \subseteq table'
  <2>1. \A r \in ToSet(OwnRecords(j)) : r.prov = request[j].prov
        BY OwnRecordsShape
  <2> QED BY <1>3, <2>1 DEF Untouched
<1> QED BY <1>1, <1>2, <1>3 DEF HandedOver, Untouched

(* A step of another job leaves an undisturbed one untouched.              *)
LEMMA OthersLeaveUntouched ==
  ASSUME RowsInv, NoCompany, NEW j \in Jobs, Undisturbed(j),
         NEW i \in Jobs, i # j, Ingest(i) \/ Work(i)
  PROVE  Untouched(j)
<1> DEFINE p == request[j].prov
<1>0. pc[j] # "idle" /\ request[j].prov \in Providers
      BY OwnRecordsShape DEF Undisturbed
<1>1. CASE Ingest(i)
  <2>1. PICK new : request' = [request EXCEPT ![i] = new]
        BY <1>1 DEF Ingest
  <2>2. /\ UNCHANGED << carried, files, table, read >>
        /\ pc' = [pc EXCEPT ![i] = "queued"]
        BY <1>1 DEF Ingest
  <2> QED BY <2>1, <2>2 DEF Untouched, RowsInv, StatusFollowsThread, JobsOK
<1>2. CASE Start(i)
  <2>1. /\ UNCHANGED << request, carried, files, table, read >>
        /\ pc' = [pc EXCEPT ![i] = "extract"]
        BY <1>2 DEF Start
  <2> QED BY <2>1 DEF Untouched, RowsInv, StatusFollowsThread
<1> DEFINE Runs == \/ Extract(i) \/ ExtractExits(i) \/ Chunk(i) \/ StoreNodes(i)
                   \/ Embed(i) \/ StoreEmbeddings(i) \/ LoadEmbeddings(i) \/ InitSchema(i)
                   \/ DeletePrevious(i) \/ IngestBatch(i) \/ Complete(i) \/ ParityFails(i)
                   \/ Raise(i)
<1>3. CASE Runs
  <2>1. UNCHANGED request /\ pc[i] \in Phases
        BY <1>3 DEF Extract, ExtractExits, Chunk, StoreNodes, Embed, StoreEmbeddings,
                    LoadEmbeddings, InitSchema, DeletePrevious, IngestBatch, Complete,
                    ParityFails, Raise, End, Running
  <2>2. request[i].prov # p /\ ~request[i].recreate
        BY <2>1 DEF NoCompany
  <2>3. pc'[j] = pc[j]
        BY <1>3 DEF Extract, ExtractExits, Chunk, StoreNodes, Embed, StoreEmbeddings,
                    LoadEmbeddings, InitSchema, DeletePrevious, IngestBatch, Complete,
                    ParityFails, Raise, End, Goto, RowsInv, StatusFollowsThread
  <2>4. carried'[j] = carried[j]
        BY <1>3 DEF Extract, ExtractExits, Chunk, StoreNodes, Embed, StoreEmbeddings,
                    LoadEmbeddings, InitSchema, DeletePrevious, IngestBatch, Complete,
                    ParityFails, Raise, End, Carry, RowsInv, JobsOK
  <2>5. read'[j] = read[j]
        BY <1>3 DEF Extract, ExtractExits, Chunk, StoreNodes, Embed, StoreEmbeddings,
                    LoadEmbeddings, InitSchema, DeletePrevious, IngestBatch, Complete,
                    ParityFails, Raise, End, RowsInv, FilesOK
  <2>6. files'[p] = files[p]
    <3>1. CASE Extract(i)
      <4>1. PICK new : files' = [files EXCEPT ![request[i].prov].ingestion = new]
            BY <3>1 DEF Extract
      <4> QED BY <1>0, <2>2, <4>1 DEF RowsInv, FilesOK
    <3>2. CASE StoreNodes(i) \/ StoreEmbeddings(i)
          BY <1>0, <2>2, <3>2 DEF StoreNodes, StoreEmbeddings, RowsInv, FilesOK
    <3>3. CASE ~(Extract(i) \/ StoreNodes(i) \/ StoreEmbeddings(i))
          BY <1>3, <3>3 DEF ExtractExits, Chunk, Embed, LoadEmbeddings, InitSchema,
                            DeletePrevious, IngestBatch, Complete, ParityFails, Raise, End
    <3> QED BY <3>1, <3>2, <3>3
  <2>7. \A r \in table : r.prov = p => r \in table'
    <3>1. CASE InitSchema(i)
          BY <2>2, <3>1 DEF InitSchema
    <3>2. CASE DeletePrevious(i)
          BY <2>2, <3>2 DEF DeletePrevious, RowsOf, RowsOfDocument
    <3>3. CASE IngestBatch(i)
      <4>1. PICK q \in Providers : q = p
            BY <1>0
      <4>2. RowsOf(q)' = RowsOf(q)
            BY <2>2, <3>3, <4>1, BatchKeepsOthers
      <4> QED BY <4>1, <4>2 DEF RowsOf
    <3>4. CASE ~(InitSchema(i) \/ DeletePrevious(i) \/ IngestBatch(i))
      <4>1. table' = table
            BY <1>3, <3>4 DEF Extract, ExtractExits, Chunk, StoreNodes, Embed,
                      StoreEmbeddings, LoadEmbeddings, Complete, ParityFails, Raise, End
      <4> QED BY <4>1
    <3> QED BY <3>1, <3>2, <3>3, <3>4
  <2> QED BY <2>1, <2>3, <2>4, <2>5, <2>6, <2>7 DEF Untouched
<1> QED BY <1>1, <1>2, <1>3 DEF Work


(* A step of an undisturbed job brings its own records one phase further.  *)
LEMMA OwnStepKeepsHandedOver ==
  ASSUME RowsInv, NEW j \in Jobs, pc[j] \in Phases, HandedOver(j), Work(j)
  PROVE  pc'[j] \in Phases => HandedOver(j)'
<1> DEFINE p == request[j].prov
           own == OwnRecords(j)
<1>0. /\ pc[j] # "idle" /\ p \in Providers /\ request[j].doc \in Documents
      /\ own \in Seq(NodeOf(p)) /\ Len(own) = Len(read[j]) /\ ~DuplicateNodeIds(own)
      /\ read[j] \in Seq(CatalogProduct)
      /\ carried[j].records \in Seq(NodeOf(p))
      BY OwnRecordsShape DEF RowsInv, JobsOK
<1>1. DOMAIN pc = Jobs /\ DOMAIN carried = Jobs /\ DOMAIN files = Providers /\ DOMAIN read = Jobs
      BY DEF RowsInv, StatusFollowsThread, JobsOK, FilesOK
<1>2. ASSUME UNCHANGED << request, read >> PROVE OwnRecords(j)' = own
      BY <1>2 DEF OwnRecords, NodesOf, NodeId, Occurrence
<1>3. CASE Start(j)
      BY <1>3 DEF Start, Phases
<1>4. CASE Extract(j)
  <2>1. PICK pages \in SUBSET PagesOf(request[j].pdf) :
          LET products == ProcessCatalog(request[j].pdf, pages)
          IN  /\ files' = [files EXCEPT ![p].ingestion = products]
              /\ read' = [read EXCEPT ![j] = products]
        BY <1>4 DEF Extract
  <2>2. UNCHANGED request /\ pc'[j] = "chunk"
        BY <1>1, <1>4 DEF Extract, Goto
  <2>3. files'[p].ingestion = read'[j]
        BY <1>0, <1>1, <2>1 DEF RowsInv, FilesOK
  <2> QED BY <2>2, <2>3 DEF HandedOver
<1>5. CASE Chunk(j)
  <2>1. /\ UNCHANGED << request, read >> /\ pc[j] = "chunk" /\ pc'[j] = "store_nodes"
        /\ files[p].ingestion # <<>>
        BY <1>1, <1>5 DEF Chunk, Goto
  <2>2. files[p].ingestion = read[j]
        BY <2>1 DEF HandedOver
  <2>3. carried'[j].records = own
        BY <1>1, <1>5, <2>2 DEF Chunk, Carry, OwnRecords
  <2> QED BY <1>2, <2>1, <2>2, <2>3 DEF HandedOver
<1>6. CASE StoreNodes(j)
  <2>1. /\ UNCHANGED << request, read >> /\ pc[j] = "store_nodes" /\ pc'[j] = "embed"
        /\ files' = [files EXCEPT ![p].nodes = carried[j].records]
        BY <1>1, <1>6 DEF StoreNodes, Goto
  <2>2. files'[p].nodes = carried[j].records
        BY <1>0, <1>1, <2>1 DEF RowsInv, FilesOK
  <2>3. carried[j].records = own /\ read[j] # <<>>
        BY <2>1 DEF HandedOver
  <2> QED BY <1>2, <2>1, <2>2, <2>3 DEF HandedOver
<1>7. CASE Embed(j)
  <2>1. /\ UNCHANGED << request, read >> /\ pc[j] = "embed" /\ pc'[j] = "store_embeddings"
        /\ carried'[j].records = files[p].nodes
        BY <1>1, <1>7 DEF Embed, Goto, Carry
  <2>2. files[p].nodes = own /\ read[j] # <<>>
        BY <2>1 DEF HandedOver
  <2> QED BY <1>2, <2>1, <2>2 DEF HandedOver
<1>8. CASE StoreEmbeddings(j)
  <2>1. /\ UNCHANGED << request, read >> /\ pc[j] = "store_embeddings" /\ pc'[j] = "load"
        /\ files' = [files EXCEPT ![p].embeddings = carried[j].records]
        BY <1>1, <1>8 DEF StoreEmbeddings, Goto
  <2>2. files'[p].embeddings = carried[j].records
        BY <1>0, <1>1, <2>1 DEF RowsInv, FilesOK
  <2>3. carried[j].records = own /\ read[j] # <<>>
        BY <2>1 DEF HandedOver
  <2> QED BY <1>2, <2>1, <2>2, <2>3 DEF HandedOver
<1>9. CASE LoadEmbeddings(j)
  <2>1. /\ UNCHANGED << request, read >> /\ pc[j] = "load" /\ pc'[j] = "schema"
        /\ carried'[j].records = files[p].embeddings
        /\ carried'[j].expected = Len(files[p].embeddings)
        BY <1>1, <1>9 DEF LoadEmbeddings, Goto, Carry
  <2>2. files[p].embeddings = own /\ read[j] # <<>>
        BY <2>1 DEF HandedOver
  <2> QED BY <1>2, <2>1, <2>2 DEF HandedOver
<1>10. CASE InitSchema(j) \/ DeletePrevious(j)
  <2>1. /\ UNCHANGED << request, read, carried >> /\ pc[j] \in {"schema", "delete"}
        /\ pc'[j] \in {"delete", "upsert"}
    <3>1. CASE InitSchema(j)
          BY <1>1, <3>1 DEF InitSchema, Goto
    <3>2. CASE DeletePrevious(j)
          BY <1>1, <3>2 DEF DeletePrevious, Goto
    <3> QED BY <1>10, <3>1, <3>2
  <2>2. carried[j].records = own /\ carried[j].expected = Len(own) /\ read[j] # <<>>
        BY <2>1 DEF HandedOver
  <2> QED BY <1>2, <2>1, <2>2 DEF HandedOver
<1>11. CASE IngestBatch(j)
  <2> DEFINE records == carried[j].records
             batch == Batch(records)
             left == AfterBatch(records)
  <2>1. /\ UNCHANGED << request, read >> /\ pc[j] = "upsert"
        /\ ~DuplicateNodeIds(records)
        /\ table' = Upsert(table, batch)
        /\ carried'[j].records = left /\ carried'[j].expected = carried[j].expected
        /\ pc'[j] = IF left = <<>> THEN "qa" ELSE "upsert"
        BY <1>0, <1>1, <1>11 DEF IngestBatch, Goto
  <2>2. /\ read[j] # <<>> /\ carried[j].expected = Len(own)
        /\ ToSet(records) \subseteq ToSet(own)
        /\ ToSet(own) \subseteq table \cup ToSet(records)
        BY <2>1 DEF HandedOver
  <2>3. /\ batch \in Seq(NodeOf(p)) /\ left \in Seq(NodeOf(p))
        /\ ToSet(records) = ToSet(batch) \cup ToSet(left)
        /\ ~DuplicateNodeIds(batch)
        BY <1>0, <2>1, BatchShape
  <2>4. \A r, s \in ToSet(own) : r.id = s.id => r = s
    <3>1. ToSet(own) = {own[k] : k \in 1 .. Len(own)}
          BY <1>0, ToSetFinite
    <3> QED BY <1>0, <3>1 DEF DuplicateNodeIds
  <2> HIDE DEF records, batch, left, own, p
  <2>5. /\ ToSet(batch) \subseteq table'
        /\ \A r \in table : (\A n \in ToSet(batch) : n.id # r.id) => r \in table'
        BY <2>1, <2>3, UpsertShape DEF RowsInv, TableOK
  <2>6. ToSet(own) \subseteq table' \cup ToSet(left)
    <3> SUFFICES ASSUME NEW r \in ToSet(own), r \notin ToSet(batch), r \notin ToSet(left)
                 PROVE  r \in table'
        BY <2>5
    <3>1. r \in table
          BY <2>2, <2>3
    <3>2. \A n \in ToSet(batch) : n.id # r.id
          BY <2>2, <2>3, <2>4
    <3> QED BY <2>5, <3>1, <3>2
  <2>7. left = <<>> => ToSet(left) = {}
    <3>1. ToSet(left) = {left[i] : i \in 1 .. Len(left)}
          BY <2>3, ToSetFinite
    <3>2. left = <<>> => 1 .. Len(left) = {}
          OBVIOUS
    <3> QED BY <3>1, <3>2
  <2>8. OwnRecords(j)' = own
        BY <1>2, <2>1
  <2> QED BY <2>1, <2>2, <2>3, <2>6, <2>7, <2>8 DEF HandedOver
<1>12. CASE ExtractExits(j) \/ Complete(j) \/ ParityFails(j) \/ Raise(j)
       BY <1>1, <1>12 DEF ExtractExits, Complete, ParityFails, Raise, End, Goto
<1> QED BY <1>3, <1>4, <1>5, <1>6, <1>7, <1>8, <1>9, <1>10, <1>11, <1>12 DEF Work

(* How far an undisturbed job has come is kept by every step of anybody.   *)
LEMMA AloneNext == AloneInv /\ [Next]_vars => AloneInv'
<1> SUFFICES ASSUME AloneInv, [Next]_vars PROVE AloneInv'
    OBVIOUS
<1>1. RowsInv' /\ FlagsOK' /\ NoCompany'
  <2>1. RowsInv'
        BY NextStatusFollowsThread, JobsNext, FilesNext, TableNext DEF AloneInv, RowsInv
  <2> QED BY <2>1, FlagsNext, NoCompanyNext DEF AloneInv
<1>2. ASSUME NEW j \in Jobs, Undisturbed(j)' PROVE HandedOver(j)'
  <2>1. CASE UNCHANGED vars
    <3>1. Undisturbed(j) /\ HandedOver(j) /\ Untouched(j)
          BY <1>2, <2>1 DEF AloneInv, Undisturbed, Untouched, vars
    <3> QED BY <3>1, UntouchedKeepsHandedOver DEF AloneInv, Undisturbed
  <2>2. CASE Restart
        BY <1>2, <2>2 DEF Restart, Undisturbed, Phases
  <2>3. ASSUME NEW i \in Jobs, Ingest(i) \/ Work(i) PROVE HandedOver(j)'
    <3>1. alone[j]
      <4>1. CASE Start(i)
            BY <1>2, <4>1 DEF Start, Undisturbed, AloneInv, FlagsOK
      <4>2. CASE ~Start(i)
        <5>1. UNCHANGED alone
              BY <2>3, <4>2 DEF Work, Ingest, Extract, ExtractExits, Chunk, StoreNodes, Embed,
                    StoreEmbeddings, LoadEmbeddings, InitSchema, DeletePrevious, IngestBatch,
                    Complete, ParityFails, Raise, End
        <5> QED BY <1>2, <5>1 DEF Undisturbed
      <4> QED BY <4>1, <4>2
    <3>2. CASE pc[j] \in Phases /\ i # j
      <4>1. Undisturbed(j) /\ HandedOver(j)
            BY <3>1, <3>2 DEF AloneInv, Undisturbed
      <4>2. Untouched(j)
            BY <2>3, <3>2, <4>1, OthersLeaveUntouched DEF AloneInv
      <4> QED BY <3>2, <4>1, <4>2, UntouchedKeepsHandedOver DEF AloneInv
    <3>3. CASE pc[j] \in Phases /\ i = j
      <4>1. HandedOver(j)
            BY <3>1, <3>3 DEF AloneInv, Undisturbed
      <4>2. Work(j)
        <5>1. ~Ingest(j)
              BY <3>3 DEF Ingest, AloneInv, RowsInv, StatusFollowsThread, Phases
        <5> QED BY <2>3, <3>3, <5>1
      <4> QED BY <1>2, <3>3, <4>1, <4>2, OwnStepKeepsHandedOver DEF AloneInv, Undisturbed
    <3>4. CASE pc[j] \notin Phases
      <4>1. pc'[j] = "extract"
        <5>1. Start(j)
          <6>1. pc'[j] # pc[j] /\ pc'[j] \in Phases
                BY <1>2, <3>4 DEF Undisturbed
          <6>2. i = j
                BY <2>3, <6>1 DEF Work, Ingest, Start, Extract, ExtractExits, Chunk, StoreNodes,
                    Embed, StoreEmbeddings, LoadEmbeddings, InitSchema, DeletePrevious,
                    IngestBatch, Complete, ParityFails, Raise, End, Goto, AloneInv, RowsInv,
                    StatusFollowsThread
          <6>3. ~Ingest(j)
                BY <6>1 DEF Ingest, AloneInv, RowsInv, StatusFollowsThread
          <6> QED BY <2>3, <3>4, <6>2, <6>3 DEF Work, Extract, ExtractExits, Chunk, StoreNodes,
                    Embed, StoreEmbeddings, LoadEmbeddings, InitSchema, DeletePrevious,
                    IngestBatch, Complete, ParityFails, Raise, Running
        <5> QED BY <5>1 DEF Start, AloneInv, RowsInv, StatusFollowsThread
      <4> QED BY <4>1 DEF HandedOver
    <3> QED BY <3>2, <3>3, <3>4
  <2> QED BY <2>1, <2>2, <2>3 DEF Next
<1> QED BY <1>1, <1>2 DEF AloneInv

(* What the parity check tells a job whose records are all in the table:   *)
(* the supplier has no other row.                                          *)
LEMMA ParityMeansIndexed ==
  ASSUME RowsInv, NEW j \in Jobs, pc[j] = "qa", HandedOver(j), ParityHolds(j)
  PROVE  /\ {r.product : r \in {x \in table : x.prov = request[j].prov}} = ToSet(read[j])
         /\ ListCatalogs(table, request[j].prov) = Len(read[j])
         /\ ListDocuments(table, request[j].prov) = {request[j].doc}
<1> DEFINE own == OwnRecords(j)
           rows == {x \in table : x.prov = request[j].prov}
<1>1. /\ own \in Seq(NodeOf(request[j].prov)) /\ ~DuplicateNodeIds(own)
      /\ Len(own) = Len(read[j])
      /\ \A k \in 1 .. Len(read[j]) : own[k].product = read[j][k] /\ own[k].doc = request[j].doc
      /\ \A r \in ToSet(own) : r.prov = request[j].prov
      /\ read[j] \in Seq(CatalogProduct)
      BY OwnRecordsShape
<1>2. ToSet(own) \subseteq table /\ carried[j].expected = Len(own) /\ read[j] # <<>>
      BY DEF HandedOver
<1>3. Cardinality(rows) = Len(own)
      BY <1>2 DEF ParityHolds, ListCatalogs
<1> HIDE DEF own
<1>4. IsFiniteSet(rows)
      BY FS_Subset DEF RowsInv, TableOK
<1>5. ToSet(own) \in SUBSET rows
      BY <1>1, <1>2
<1> HIDE DEF rows
<1>6. Cardinality(ToSet(own)) = Len(own)
      BY <1>1, ToSetCounts
<1>7. rows = ToSet(own)
      BY <1>3, <1>4, <1>5, <1>6, FS_Subset
<1>8. ToSet(own) = {own[k] : k \in 1 .. Len(read[j])}
      BY <1>1, ToSetFinite
<1>9. ToSet(read[j]) = {read[j][k] : k \in 1 .. Len(read[j])}
      BY <1>1, ToSetFinite
<1>10. {r.product : r \in rows} = ToSet(read[j])
       BY <1>1, <1>7, <1>8, <1>9
<1>11. {r.doc : r \in rows} = {request[j].doc}
  <2>1. 1 \in 1 .. Len(read[j])
        BY <1>1, <1>2
  <2> QED BY <1>1, <1>7, <1>8, <2>1
<1> QED BY <1>1, <1>3, <1>10, <1>11 DEF rows, ListCatalogs, ListDocuments

(* A job that ran with no other job of its supplier and reads COMPLETED    *)
(* left one row for each product it read, and no other row.                *)
THEOREM CompletedJobsAreIndexed == Spec => CompletedMeansIndexed
<1>1. Init => AloneInv
  <2>1. Init => FlagsOK
        BY IngestionAssumption DEF Init, FlagsOK
  <2>2. Init => \A j \in Jobs : ~Undisturbed(j)
        BY DEF Init, Undisturbed, Phases
  <2>3. (\A j \in Jobs : ~Undisturbed(j)) => NoCompany
        BY DEF NoCompany
  <2> QED BY <2>1, <2>2, <2>3, InitRows DEF AloneInv
<1>2. AloneInv /\ [Next]_vars =>
        [\A j \in Jobs :
           /\ status[j] = "RUNNING" /\ status'[j] = "COMPLETED"
           /\ alone[j]
           => LET p == request[j].prov
              IN  /\ {r.product : r \in {x \in table' : x.prov = p}} = ToSet(read[j])
                  /\ ListCatalogs(table', p) = Len(read[j])
                  /\ ListDocuments(table', p) = {request[j].doc}]_vars
  <2> SUFFICES ASSUME AloneInv, [Next]_vars, NEW j \in Jobs,
                      status[j] = "RUNNING", status'[j] = "COMPLETED", alone[j]
               PROVE  /\ {r.product : r \in {x \in table' : x.prov = request[j].prov}}
                           = ToSet(read[j])
                      /\ ListCatalogs(table', request[j].prov) = Len(read[j])
                      /\ ListDocuments(table', request[j].prov) = {request[j].doc}
      OBVIOUS
  <2>1. Complete(j)
    <3>1. ~UNCHANGED vars
          BY DEF vars
    <3>2. ~Restart
          BY DEF Restart, Board!Forgotten
    <3>3. PICK i \in Jobs : Ingest(i) \/ Work(i)
          BY <3>1, <3>2 DEF Next
    <3>4. DOMAIN status = Jobs
          BY DEF AloneInv, RowsInv, StatusFollowsThread
    <3>5. Complete(i) /\ i = j
          BY <3>3, <3>4 DEF Work, Ingest, Start, Extract, ExtractExits, Chunk, StoreNodes,
               Embed, StoreEmbeddings, LoadEmbeddings, InitSchema, DeletePrevious, IngestBatch,
               Complete, ParityFails, Raise, End
    <3> QED BY <3>5
  <2>2. pc[j] = "qa" /\ ParityHolds(j) /\ table' = table
        BY <2>1 DEF Complete, End
  <2>3. RowsInv /\ HandedOver(j)
        BY <2>2 DEF AloneInv, Undisturbed, Phases
  <2> QED BY <2>2, <2>3, ParityMeansIndexed
<1> QED BY <1>1, <1>2, AloneNext, PTL DEF Spec, CompletedMeansIndexed

-----------------------------------------------------------------------------
(* Retrieval: the rankings, their fusion, and the order of the prompt.     *)

HIDE DEF Board!JobStatus, Board!Shown, Board!Ended, Phases

(* The first n of a sequence.                                              *)
LEMMA TakeShape ==
  ASSUME NEW S, NEW s \in Seq(S), NEW n \in Nat
  PROVE  LET t == Take(s, n)
         IN  /\ t \in Seq(S) /\ Len(t) <= n /\ DOMAIN t \subseteq DOMAIN s
             /\ \A i \in DOMAIN t : t[i] = s[i]
             /\ IsInjective(s) => IsInjective(t)
             /\ n > 0 /\ 1 \in DOMAIN s => 1 \in DOMAIN t
<1> DEFINE m == IF Len(s) < n THEN Len(s) ELSE n
           t == Take(s, n)
<1>1. Len(s) \in Nat /\ DOMAIN s = 1..Len(s) /\ \A i \in DOMAIN s : s[i] \in S
  BY LenProperties, ElementOfSeq
<1>2. m \in Nat /\ m <= n /\ m <= Len(s) /\ (n > 0 /\ Len(s) >= 1 => m >= 1)
  BY <1>1
<1>3. t = SubSeq(s, 1, m)
  BY DEF Take
<1> HIDE DEF m, t
<1>4. \A i \in 1..m : s[i] \in S
  BY <1>1, <1>2
<1>5. /\ t \in Seq(S) /\ Len(t) = IF 1 <= m THEN m - 1 + 1 ELSE 0
      /\ \A i \in 1 .. m - 1 + 1 : t[i] = s[1 + i - 1]
  BY <1>2, <1>3, <1>4, SubSeqProperties
<1>6. Len(t) = m /\ DOMAIN t = 1..m
  <2>1. Len(t) = m
    BY <1>2, <1>5
  <2> QED BY <1>5, <2>1, LenProperties
<1>7. \A i \in DOMAIN t : i \in DOMAIN s /\ t[i] = s[i]
  <2> SUFFICES ASSUME NEW i \in 1..m PROVE i \in DOMAIN s /\ t[i] = s[i]
    BY <1>6
  <2>1. i \in 1 .. m - 1 + 1 /\ 1 + i - 1 = i /\ i \in 1..Len(s)
    BY <1>1, <1>2
  <2> QED BY <1>1, <1>5, <2>1
<1>8. IsInjective(s) => IsInjective(t)
  BY <1>7 DEF IsInjective
<1>9. n > 0 /\ 1 \in DOMAIN s => 1 \in DOMAIN t
  BY <1>1, <1>2, <1>6
<1>10. Len(t) <= n
  BY <1>2, <1>6
<1> QED BY <1>5, <1>7, <1>8, <1>9, <1>10 DEF t

(* The place of an id in a ranking, and none.                              *)
LEMMA RankShape ==
  ASSUME NEW S, NEW s \in Seq(S), NEW id
  PROVE  /\ Rank(s, id) \in Nat
         /\ Rank(s, id) = 0 <=> ~Contains(s, id)
         /\ Contains(s, id) => Rank(s, id) \in DOMAIN s /\ s[Rank(s, id)] = id
<1>1. Len(s) \in Nat /\ DOMAIN s = 1..Len(s)
  BY LenProperties
<1>2. CASE Contains(s, id)
  <2>1. \E i \in DOMAIN s : s[i] = id
    BY <1>1, <1>2 DEF Contains
  <2>2. Rank(s, id) = CHOOSE i \in DOMAIN s : s[i] = id
    BY <1>2 DEF Rank
  <2>3. Rank(s, id) \in DOMAIN s /\ s[Rank(s, id)] = id
    BY <2>1, <2>2
  <2>4. Rank(s, id) \in Nat /\ Rank(s, id) # 0
    BY <1>1, <2>3
  <2> QED BY <1>2, <2>3, <2>4
<1>3. CASE ~Contains(s, id)
  BY <1>3 DEF Rank
<1> QED BY <1>2, <1>3

LEMMA ContainsPlace ==
  ASSUME NEW S, NEW s \in Seq(S), NEW id
  PROVE  Contains(s, id) <=> \E i \in DOMAIN s : s[i] = id
<1>1. DOMAIN s = 1..Len(s)
  BY LenProperties
<1> QED BY <1>1 DEF Contains

(* What arrives from the two searches, once each.                          *)
LEMMA ArrivalShape ==
  ASSUME NEW S, NEW f, f.dense \in Seq(S), f.sparse \in Seq(S),
         IsInjective(f.dense), IsInjective(f.sparse)
  PROVE  LET a == Arrival(f)
         IN  /\ a \in Seq(S) /\ IsInjective(a)
             /\ \A i \in DOMAIN a : Contains(f.dense, a[i]) \/ Contains(f.sparse, a[i])
<1> DEFINE d == f.dense
           s == f.sparse
           I == {n \in DOMAIN s : ~Contains(d, s[n])}
           c == Chosen(s, I)
           a == Arrival(f)
<1>1. a = d \o c
  BY DEF Arrival
<1> HIDE DEF d, a
<1>2. d \in Seq(S) /\ IsInjective(d)
  BY DEF d
<1> HIDE DEF s, I, c
<1>3. s \in Seq(S) /\ IsInjective(s) /\ I \in SUBSET DOMAIN s
  BY DEF s, I
<1>4. /\ c \in Seq(S) /\ IsInjective(c)
      /\ \A n \in DOMAIN c : \E i \in I : c[n] = s[i]
  BY <1>3, ChosenShape, ChosenInjective DEF c
<1>5. \A n \in DOMAIN c : ~Contains(d, c[n]) /\ Contains(s, c[n])
  <2> SUFFICES ASSUME NEW n \in DOMAIN c PROVE ~Contains(d, c[n]) /\ Contains(s, c[n])
    OBVIOUS
  <2>1. PICK i \in I : c[n] = s[i]
    BY <1>4
  <2>2. i \in DOMAIN s /\ ~Contains(d, s[i])
    BY DEF I
  <2> QED BY <1>3, <2>1, <2>2, ContainsPlace
<1> DEFINE L == Len(d)
           M == Len(c)
<1>6. L \in Nat /\ DOMAIN d = 1..L /\ M \in Nat /\ DOMAIN c = 1..M
  BY <1>2, <1>4, LenProperties
<1>7. /\ a \in Seq(S) /\ Len(a) = L + M
      /\ \A i \in 1 .. L + M : a[i] = IF i <= L THEN d[i] ELSE c[i - L]
  BY <1>1, <1>2, <1>4, ConcatProperties
<1> HIDE DEF L, M
<1>8. DOMAIN a = 1 .. L + M
  BY <1>7, LenProperties
<1>9. ASSUME NEW i \in DOMAIN a
      PROVE  \/ i \in DOMAIN d /\ a[i] = d[i] /\ Contains(d, a[i])
             \/ i - L \in DOMAIN c /\ a[i] = c[i - L] /\ ~Contains(d, a[i]) /\ Contains(s, a[i])
  <2>1. CASE i <= L
    <3>1. i \in DOMAIN d /\ a[i] = d[i]
      BY <1>6, <1>7, <1>8, <2>1
    <3> QED BY <1>2, <3>1, ContainsPlace
  <2>2. CASE ~ (i <= L)
    <3>1. i - L \in DOMAIN c /\ a[i] = c[i - L]
      BY <1>6, <1>7, <1>8, <2>2
    <3> QED BY <1>5, <3>1
  <2> QED BY <2>1, <2>2
<1>10. IsInjective(a)
  <2> SUFFICES ASSUME NEW i \in DOMAIN a, NEW k \in DOMAIN a, a[i] = a[k] PROVE i = k
    BY DEF IsInjective
  <2>1. i \in Int /\ k \in Int
    BY <1>6, <1>8
  <2>2. CASE Contains(d, a[i])
    <3>1. i \in DOMAIN d /\ k \in DOMAIN d /\ d[i] = d[k]
      BY <1>9, <2>2
    <3> QED BY <1>2, <3>1 DEF IsInjective
  <2>3. CASE ~Contains(d, a[i])
    <3>1. i - L \in DOMAIN c /\ k - L \in DOMAIN c /\ c[i - L] = c[k - L]
      BY <1>9, <2>3
    <3>2. i - L = k - L
      BY <1>4, <3>1 DEF IsInjective
    <3> QED BY <1>6, <2>1, <3>2
  <2> QED BY <2>2, <2>3
<1>11. \A i \in DOMAIN a : Contains(d, a[i]) \/ Contains(s, a[i])
  BY <1>9
<1> QED BY <1>7, <1>10, <1>11 DEF a, d, s

(* The sum of the reciprocal ranks is a fraction above zero.               *)
LEMMA RankSumPositive ==
  ASSUME NEW S, NEW f, f.dense \in Seq(S), f.sparse \in Seq(S), NEW id,
         Contains(f.dense, id) \/ Contains(f.sparse, id)
  PROVE  LET r == RankSum(f, id)
         IN  r = <<r[1], r[2]>> /\ r[1] \in Nat \ {0} /\ r[2] \in Nat \ {0}
<1> DEFINE d == Rank(f.dense, id)
           s == Rank(f.sparse, id)
<1>1. d \in Nat /\ s \in Nat /\ (d # 0 \/ s # 0)
  BY RankShape
<1>2. RrfK \in Nat
  BY QueryAssumption
<1>3. RankSum(f, id) = CASE s = 0 -> <<1, RrfK + d>>
                         [] d = 0 -> <<1, RrfK + s>>
                         [] OTHER -> <<2 * RrfK + d + s, (RrfK + d) * (RrfK + s)>>
  BY DEF RankSum
<1> HIDE DEF d, s
<1>4. CASE s = 0
  BY <1>1, <1>2, <1>3, <1>4
<1>5. CASE s # 0 /\ d = 0
  BY <1>1, <1>2, <1>3, <1>5
<1>6. CASE s # 0 /\ d # 0
  <2>1. RankSum(f, id) = <<2 * RrfK + d + s, (RrfK + d) * (RrfK + s)>>
    BY <1>3, <1>6
  <2> DEFINE x == RrfK + d
             y == RrfK + s
  <2>2. x \in Nat /\ x > 0 /\ y \in Nat /\ y > 0 /\ 2 * RrfK + d + s \in Nat \ {0}
    BY <1>1, <1>2, <1>6
  <2>3. x * y \in Nat /\ x * y > 0
    <3> HIDE DEF x, y
    <3> QED BY <2>2
  <2> QED BY <2>1, <2>2, <2>3
<1> QED BY <1>4, <1>5, <1>6

(* Fractions are compared crosswise.                                       *)
LEMMA CancelFactor ==
  ASSUME NEW a \in Int, NEW b \in Int, NEW c \in Nat \ {0}
  PROVE  /\ a * c > b * c <=> a > b
         /\ a * c = b * c <=> a = b
<1>1. a > b => a * c > b * c
  <2> SUFFICES ASSUME a > b PROVE a * c > b * c
    OBVIOUS
  <2>1. (a - b) * c > 0 /\ (a - b) * c = a * c - b * c
    OBVIOUS
  <2>2. a * c \in Int /\ b * c \in Int
    OBVIOUS
  <2> QED BY <2>1, <2>2
<1>2. b > a => b * c > a * c
  <2> SUFFICES ASSUME b > a PROVE b * c > a * c
    OBVIOUS
  <2>1. (b - a) * c > 0 /\ (b - a) * c = b * c - a * c
    OBVIOUS
  <2>2. a * c \in Int /\ b * c \in Int
    OBVIOUS
  <2> QED BY <2>1, <2>2
<1>3. a = b => a * c = b * c
  OBVIOUS
<1>4. a * c \in Int /\ b * c \in Int
  OBVIOUS
<1> QED BY <1>1, <1>2, <1>3, <1>4

LEMMA FractionsTransitive ==
  ASSUME NEW a \in Nat \ {0}, NEW b \in Nat \ {0}, NEW c \in Nat \ {0}, NEW d \in Nat \ {0},
         NEW e \in Nat \ {0}, NEW g \in Nat \ {0},
         a * d >= c * b, c * g >= e * d
  PROVE  /\ a * g >= e * b
         /\ a * g = e * b => a * d = c * b /\ c * g = e * d
<1> DEFINE x == a * d
           y == c * b
           z == c * g
           w == e * d
           u == a * g
           v == e * b
<1>1. x \in Int /\ y \in Int /\ z \in Int /\ w \in Int /\ u \in Int /\ v \in Int
  OBVIOUS
<1>2. x * g = u * d /\ w * b = v * d /\ y * g = z * b
  OBVIOUS
<1>3. x >= y /\ z >= w
  OBVIOUS
<1> HIDE DEF x, y, z, w, u, v
<1>4. (x > y => x * g > y * g) /\ (x = y => x * g = y * g)
  BY <1>1, CancelFactor
<1>5. (z > w => z * b > w * b) /\ (z = w => z * b = w * b)
  BY <1>1, CancelFactor
<1>6. /\ x * g \in Int /\ y * g \in Int /\ z * b \in Int /\ w * b \in Int
      /\ u * d \in Int /\ v * d \in Int
  BY <1>1
<1>7. (v > u => v * d > u * d) /\ (u = v => u * d = v * d)
  BY <1>1, CancelFactor
<1> DEFINE xg == x * g
           yg == y * g
           zb == z * b
           wb == w * b
           ud == u * d
           vd == v * d
<1> HIDE DEF xg, yg, zb, wb, ud, vd
<1>8. /\ xg \in Int /\ yg \in Int /\ zb \in Int /\ wb \in Int /\ ud \in Int /\ vd \in Int
      /\ xg = ud /\ wb = vd /\ yg = zb
      /\ (x > y => xg > yg) /\ (x = y => xg = yg)
      /\ (z > w => zb > wb) /\ (z = w => zb = wb)
      /\ (v > u => vd > ud) /\ (u = v => ud = vd)
  BY <1>2, <1>4, <1>5, <1>6, <1>7 DEF xg, yg, zb, wb, ud, vd
<1>9. u >= v /\ (u = v => x = y /\ z = w)
  BY <1>1, <1>3, <1>8
<1> QED BY <1>9 DEF u, v, x, y, z, w

(* Descending fractions num[i]/den[i], ties in the order of the places.    *)
LEMMA FractionsOrdered ==
  ASSUME NEW D \in SUBSET Nat, NEW num \in [D -> Nat \ {0}], NEW den \in [D -> Nat \ {0}],
         NEW ahead,
         \A i, k \in D : <<i, k>> \in ahead <=>
            \/ num[i] * den[k] > num[k] * den[i]
            \/ num[i] * den[k] = num[k] * den[i] /\ i < k
  PROVE  StrictOrder(D, ahead)
<1>1. \A i, k \in D : num[i] * den[k] \in Int
  OBVIOUS
<1>2. \A a \in D : <<a, a>> \notin ahead
  BY <1>1
<1>3. \A a, b \in D : a # b => <<a, b>> \in ahead \/ <<b, a>> \in ahead
  BY <1>1
<1>4. ASSUME NEW a \in D, NEW b \in D, NEW c \in D, <<a, b>> \in ahead, <<b, c>> \in ahead
      PROVE  <<a, c>> \in ahead
  <2> DEFINE ab == num[a] * den[b]
             ba == num[b] * den[a]
             bc == num[b] * den[c]
             cb == num[c] * den[b]
             ac == num[a] * den[c]
             ca == num[c] * den[a]
  <2>1. /\ ab \in Int /\ ba \in Int /\ bc \in Int /\ cb \in Int /\ ac \in Int /\ ca \in Int
        /\ a \in Int /\ b \in Int /\ c \in Int
    BY <1>1
  <2>2. /\ ab > ba \/ (ab = ba /\ a < b)
        /\ bc > cb \/ (bc = cb /\ b < c)
    BY <1>4
  <2>3. /\ num[a] \in Nat \ {0} /\ num[b] \in Nat \ {0} /\ num[c] \in Nat \ {0}
        /\ den[a] \in Nat \ {0} /\ den[b] \in Nat \ {0} /\ den[c] \in Nat \ {0}
    OBVIOUS
  <2>4. num[a] * den[b] >= num[b] * den[a] /\ num[b] * den[c] >= num[c] * den[b]
    <3> HIDE DEF ab, ba, bc, cb
    <3>1. ab >= ba /\ bc >= cb
      BY <2>1, <2>2
    <3> QED BY <3>1 DEF ab, ba, bc, cb
  <2>5. ac >= ca /\ (ac = ca => ab = ba /\ bc = cb)
    BY <2>3, <2>4, FractionsTransitive
  <2> HIDE DEF ab, ba, bc, cb, ac, ca
  <2>6. ac > ca \/ (ac = ca /\ a < c)
    BY <2>1, <2>2, <2>5
  <2> QED BY <2>6 DEF ac, ca
<1> QED BY <1>2, <1>3, <1>4 DEF StrictOrder

(* Which of two arrived ids the sum of the reciprocal ranks puts ahead.    *)
Above(f, x, y) == RankSum(f, x)[1] * RankSum(f, y)[2] > RankSum(f, y)[1] * RankSum(f, x)[2]
Level(f, x, y) == RankSum(f, x)[1] * RankSum(f, y)[2] = RankSum(f, y)[1] * RankSum(f, x)[2]

(* The fusion has every id that arrived once, highest sum first.           *)
LEMMA FuseShape ==
  ASSUME NEW S, NEW f, f.dense \in Seq(S), f.sparse \in Seq(S),
         IsInjective(f.dense), IsInjective(f.sparse)
  PROVE  LET u == Fuse(f)
         IN  /\ u \in Seq(S) /\ IsInjective(u)
             /\ \A i \in DOMAIN u : Contains(f.dense, u[i]) \/ Contains(f.sparse, u[i])
             /\ \A i, k \in DOMAIN u : i < k => Above(f, u[i], u[k]) \/ Level(f, u[i], u[k])
<1> DEFINE a == Arrival(f)
           D == DOMAIN a
           Ahead(i, k) == Above(f, a[i], a[k]) \/ (Level(f, a[i], a[k]) /\ i < k)
           ahead == {o \in D \X D : Ahead(o[1], o[2])}
           at == InOrder(D, ahead)
           u == Fuse(f)
<1>1. /\ a \in Seq(S) /\ IsInjective(a)
      /\ \A i \in D : Contains(f.dense, a[i]) \/ Contains(f.sparse, a[i])
  BY ArrivalShape
<1>2. u = Arranged(a, ahead)
  <2> DEFINE sorted == {o \in D \X D :
                          LET x == RankSum(f, a[o[1]])
                              y == RankSum(f, a[o[2]])
                          IN  \/ x[1] * y[2] > y[1] * x[2]
                              \/ x[1] * y[2] = y[1] * x[2] /\ o[1] < o[2]}
  <2>1. u = Arranged(a, sorted)
    BY DEF Fuse
  <2>2. sorted = ahead
    <3> HIDE DEF a
    <3> QED BY DEF Above, Level
  <2> QED BY <2>1, <2>2
<1> HIDE DEF a, u
<1>3. D = 1..Len(a) /\ Len(a) \in Nat
  BY <1>1, LenProperties
<1> DEFINE num == [i \in D |-> RankSum(f, a[i])[1]]
           den == [i \in D |-> RankSum(f, a[i])[2]]
<1>4. num \in [D -> Nat \ {0}] /\ den \in [D -> Nat \ {0}]
  BY <1>1, RankSumPositive
<1>5. \A i, k \in D : <<i, k>> \in ahead <=> Ahead(i, k)
  OBVIOUS
<1>6. \A i, k \in D : Ahead(i, k) <=> \/ num[i] * den[k] > num[k] * den[i]
                                      \/ num[i] * den[k] = num[k] * den[i] /\ i < k
  <2> SUFFICES ASSUME NEW i \in D, NEW k \in D
               PROVE  Ahead(i, k) <=> \/ num[i] * den[k] > num[k] * den[i]
                                      \/ num[i] * den[k] = num[k] * den[i] /\ i < k
    OBVIOUS
  <2>1. /\ num[i] = RankSum(f, a[i])[1] /\ den[i] = RankSum(f, a[i])[2]
        /\ num[k] = RankSum(f, a[k])[1] /\ den[k] = RankSum(f, a[k])[2]
    OBVIOUS
  <2> HIDE DEF num, den
  <2> QED BY <2>1 DEF Above, Level
<1>7. D \in SUBSET Nat
  BY <1>3
<1>8. StrictOrder(D, ahead)
  <2> HIDE DEF num, den, ahead, Ahead, D
  <2> QED BY <1>4, <1>5, <1>6, <1>7, FractionsOrdered
<1> HIDE DEF ahead, at
<1>9. /\ u \in Seq(S) /\ DOMAIN u = D
      /\ at \in [D -> D]
      /\ \A i, k \in D : i # k => at[i] # at[k]
      /\ \A i, k \in D : i < k => <<at[i], at[k]>> \in ahead
      /\ \A n \in D : u[n] = a[at[n]]
  BY <1>1, <1>2, <1>8, ArrangedShape DEF at
<1> HIDE DEF D
<1>10. IsInjective(u)
  <2> SUFFICES ASSUME NEW i \in D, NEW k \in D, u[i] = u[k] PROVE i = k
    BY <1>9 DEF IsInjective
  <2>1. a[at[i]] = a[at[k]] /\ at[i] \in D /\ at[k] \in D
    BY <1>9
  <2>2. at[i] = at[k]
    BY <1>1, <2>1 DEF IsInjective, D
  <2> QED BY <1>9, <2>2
<1>11. \A i \in DOMAIN u : Contains(f.dense, u[i]) \/ Contains(f.sparse, u[i])
  BY <1>1, <1>9
<1>12. ASSUME NEW i \in DOMAIN u, NEW k \in DOMAIN u, i < k
       PROVE  Above(f, u[i], u[k]) \/ Level(f, u[i], u[k])
  <2>1. <<at[i], at[k]>> \in ahead /\ at[i] \in D /\ at[k] \in D /\ u[i] = a[at[i]] /\ u[k] = a[at[k]]
    BY <1>9, <1>12
  <2>2. Ahead(at[i], at[k])
    BY <1>5, <2>1
  <2> HIDE DEF Ahead
  <2> QED BY <2>1, <2>2 DEF Ahead
<1> QED BY <1>9, <1>10, <1>11, <1>12 DEF u

LEMMA OneFractionAbove ==
  ASSUME NEW x \in Nat \ {0}, NEW y \in Nat \ {0}, NEW p \in Nat \ {0}, x < p
  PROVE  (x + y) * p > x * y /\ (y + x) * p > y * x
<1>1. p * y > x * y
  BY CancelFactor
<1>2. (x + y) * p = x * p + p * y /\ (y + x) * p = x * p + p * y /\ y * x = x * y
  OBVIOUS
<1>3. x * p \in Nat /\ p * y \in Nat /\ x * y \in Nat
  OBVIOUS
<1> QED BY <1>1, <1>2, <1>3

LEMMA BothFractionsAbove ==
  ASSUME NEW x \in Nat \ {0}, NEW y \in Nat \ {0}, NEW p \in Nat \ {0}, NEW q \in Nat \ {0},
         x < p, y < q
  PROVE  (x + y) * (p * q) > (p + q) * (x * y)
<1> DEFINE xp == x * p
           yq == y * q
<1>1. xp \in Nat \ {0} /\ yq \in Nat \ {0}
  OBVIOUS
<1> HIDE DEF xp, yq
<1>2. q * xp > y * xp /\ p * yq > x * yq
  BY <1>1, CancelFactor
<1> DEFINE a == q * xp
           b == y * xp
           c == p * yq
           d == x * yq
<1>3. a \in Nat /\ b \in Nat /\ c \in Nat /\ d \in Nat
  BY <1>1
<1>4. (x + y) * (p * q) = a + c /\ (p + q) * (x * y) = b + d
  BY DEF xp, yq
<1>5. a > b /\ c > d
  BY <1>2
<1> HIDE DEF a, b, c, d
<1> QED BY <1>3, <1>4, <1>5

(* An id that no search ranks below another, and one ranks above it, has   *)
(* the greater sum.                                                        *)
LEMMA AgreementWins ==
  ASSUME NEW S, NEW f, f.dense \in Seq(S), f.sparse \in Seq(S),
         NEW x, NEW y, x # y,
         Contains(f.dense, y) \/ Contains(f.sparse, y),
         Rank(f.dense, y) = 0 \/ (Rank(f.dense, x) # 0 /\ Rank(f.dense, x) <= Rank(f.dense, y)),
         Rank(f.sparse, y) = 0 \/ (Rank(f.sparse, x) # 0 /\ Rank(f.sparse, x) <= Rank(f.sparse, y))
  PROVE  Above(f, x, y)
<1> DEFINE dx == Rank(f.dense, x)
           dy == Rank(f.dense, y)
           sx == Rank(f.sparse, x)
           sy == Rank(f.sparse, y)
           X == RrfK + dx
           P == RrfK + dy
           Y == RrfK + sx
           Q == RrfK + sy
<1>1. dx \in Nat /\ dy \in Nat /\ sx \in Nat /\ sy \in Nat /\ (dy # 0 \/ sy # 0)
  BY RankShape
<1>2. dy = 0 \/ (dx # 0 /\ dx < dy)
  <2>1. dy # 0 => dx # dy
    BY RankShape
  <2> HIDE DEF dx, dy
  <2>2. dy = 0 \/ (dx # 0 /\ dx <= dy)
    BY DEF dx, dy
  <2> QED BY <1>1, <2>1, <2>2
<1>3. sy = 0 \/ (sx # 0 /\ sx < sy)
  <2>1. sy # 0 => sx # sy
    BY RankShape
  <2> HIDE DEF sx, sy
  <2>2. sy = 0 \/ (sx # 0 /\ sx <= sy)
    BY DEF sx, sy
  <2> QED BY <1>1, <2>1, <2>2
<1>4. RrfK \in Nat
  BY QueryAssumption
<1>5. RankSum(f, x) = CASE sx = 0 -> <<1, X>>
                        [] dx = 0 -> <<1, Y>>
                        [] OTHER -> <<2 * RrfK + dx + sx, X * Y>>
  BY DEF RankSum
<1>6. RankSum(f, y) = CASE sy = 0 -> <<1, P>>
                        [] dy = 0 -> <<1, Q>>
                        [] OTHER -> <<2 * RrfK + dy + sy, P * Q>>
  BY DEF RankSum
<1> HIDE DEF dx, dy, sx, sy
<1>7. /\ X \in Nat /\ Y \in Nat /\ P \in Nat /\ Q \in Nat
      /\ (dx # 0 => X # 0) /\ (dy # 0 => P # 0) /\ (sx # 0 => Y # 0) /\ (sy # 0 => Q # 0)
      /\ (dx < dy => X < P) /\ (sx < sy => Y < Q)
      /\ 2 * RrfK + dx + sx = X + Y /\ 2 * RrfK + dy + sy = P + Q
  BY <1>1, <1>4
<1> HIDE DEF X, Y, P, Q
<1>8. CASE sy = 0
  <2>1. dy # 0 /\ dx # 0 /\ X < P /\ RankSum(f, y) = <<1, P>>
    BY <1>1, <1>2, <1>6, <1>7, <1>8
  <2>2. CASE sx = 0
    <3>1. RankSum(f, x) = <<1, X>>
      BY <1>5, <2>1, <2>2
    <3>2. 1 * P > 1 * X
      BY <1>7, <2>1
    <3> QED BY <2>1, <3>1, <3>2 DEF Above
  <2>3. CASE sx # 0
    <3>1. RankSum(f, x) = <<X + Y, X * Y>>
      BY <1>5, <1>7, <2>1, <2>3
    <3>2. (X + Y) * P > X * Y
      BY <1>7, <2>1, <2>3, OneFractionAbove
    <3>3. X * Y \in Nat
      BY <1>7
    <3>4. (X + Y) * P > 1 * (X * Y)
      BY <3>2, <3>3
    <3> QED BY <2>1, <3>1, <3>4 DEF Above
  <2> QED BY <2>2, <2>3
<1>9. CASE sy # 0 /\ dy = 0
  <2>1. sx # 0 /\ Y < Q /\ RankSum(f, y) = <<1, Q>>
    BY <1>1, <1>3, <1>6, <1>7, <1>9
  <2>2. CASE dx = 0
    <3>1. RankSum(f, x) = <<1, Y>>
      BY <1>5, <2>1, <2>2
    <3>2. 1 * Q > 1 * Y
      BY <1>7, <2>1
    <3> QED BY <2>1, <3>1, <3>2 DEF Above
  <2>3. CASE dx # 0
    <3>1. RankSum(f, x) = <<X + Y, X * Y>>
      BY <1>5, <1>7, <2>1, <2>3
    <3>2. (X + Y) * Q > X * Y
      BY <1>7, <2>1, <2>3, OneFractionAbove
    <3>3. X * Y \in Nat
      BY <1>7
    <3>4. (X + Y) * Q > 1 * (X * Y)
      BY <3>2, <3>3
    <3> QED BY <2>1, <3>1, <3>4 DEF Above
  <2> QED BY <2>2, <2>3
<1>10. CASE sy # 0 /\ dy # 0
  <2>1. sx # 0 /\ dx # 0 /\ X < P /\ Y < Q
    BY <1>1, <1>2, <1>3, <1>7, <1>10
  <2>2. RankSum(f, x) = <<X + Y, X * Y>> /\ RankSum(f, y) = <<P + Q, P * Q>>
    BY <1>5, <1>6, <1>7, <1>10, <2>1
  <2>3. (X + Y) * (P * Q) > (P + Q) * (X * Y)
    BY <1>7, <1>10, <2>1, BothFractionsAbove
  <2> QED BY <2>2, <2>3 DEF Above
<1> QED BY <1>8, <1>9, <1>10

(* An agreement of the two searches survives their fusion.                 *)
LEMMA FusionAgrees ==
  ASSUME NEW S, NEW f, f.dense \in Seq(S), f.sparse \in Seq(S),
         IsInjective(f.dense), IsInjective(f.sparse)
  PROVE  LET u == Fuse(f)
             NotBelow(s, a, b) == Rank(s, b) = 0 \/ (Rank(s, a) # 0 /\ Rank(s, a) <= Rank(s, b))
         IN  \A i, k \in DOMAIN u :
               (i # k /\ NotBelow(f.dense, u[i], u[k]) /\ NotBelow(f.sparse, u[i], u[k])) => i < k
<1> DEFINE u == Fuse(f)
           NotBelow(s, a, b) == Rank(s, b) = 0 \/ (Rank(s, a) # 0 /\ Rank(s, a) <= Rank(s, b))
<1>1. /\ u \in Seq(S) /\ IsInjective(u)
      /\ \A i \in DOMAIN u : Contains(f.dense, u[i]) \/ Contains(f.sparse, u[i])
      /\ \A i, k \in DOMAIN u : i < k => Above(f, u[i], u[k]) \/ Level(f, u[i], u[k])
  BY FuseShape
<1> HIDE DEF u
<1>2. ASSUME NEW i \in DOMAIN u, NEW k \in DOMAIN u, i # k,
             NotBelow(f.dense, u[i], u[k]), NotBelow(f.sparse, u[i], u[k])
      PROVE  i < k
  <2> DEFINE x == u[i]
             y == u[k]
  <2>1. x # y
    BY <1>1, <1>2 DEF IsInjective
  <2>2. Contains(f.dense, y) \/ Contains(f.sparse, y)
    BY <1>1
  <2>3. /\ NotBelow(f.dense, x, y) /\ NotBelow(f.sparse, x, y)
    BY <1>2
  <2>4. Above(f, x, y)
    <3> HIDE DEF x, y
    <3> QED BY <2>1, <2>2, <2>3, AgreementWins
  <2>5. i \in Int /\ k \in Int
    <3>1. DOMAIN u = 1..Len(u)
      BY <1>1, LenProperties
    <3> QED BY <3>1
  <2>6. ~ (k < i)
    <3> SUFFICES ASSUME k < i PROVE FALSE
      OBVIOUS
    <3>1. Above(f, y, x) \/ Level(f, y, x)
      BY <1>1
    <3> DEFINE p == RankSum(f, x)[1] * RankSum(f, y)[2]
               q == RankSum(f, y)[1] * RankSum(f, x)[2]
    <3>2. p \in Int /\ q \in Int
      <4>1. Contains(f.dense, x) \/ Contains(f.sparse, x)
        BY <1>1
      <4> HIDE DEF x, y
      <4>2. /\ RankSum(f, x)[1] \in Nat \ {0} /\ RankSum(f, x)[2] \in Nat \ {0}
            /\ RankSum(f, y)[1] \in Nat \ {0} /\ RankSum(f, y)[2] \in Nat \ {0}
        BY <2>2, <4>1, RankSumPositive
      <4> QED BY <4>2
    <3>3. p > q /\ (q > p \/ q = p)
      BY <2>4, <3>1 DEF Above, Level
    <3> HIDE DEF p, q
    <3> QED BY <3>2, <3>3
  <2> QED BY <1>2, <2>5, <2>6
<1> QED BY <1>2 DEF u

(* Sorted by score, each candidate is there and the scores descend.        *)
LEMMA ByScoreShape ==
  ASSUME NEW S, NEW c \in Seq(S), \A i \in DOMAIN c : c[i].score \in Nat
  PROVE  LET b == ByScore(c)
         IN  /\ b \in Seq(S) /\ DOMAIN b = DOMAIN c
             /\ \A n \in DOMAIN b : \E i \in DOMAIN c : b[n] = c[i]
             /\ \A i \in DOMAIN c : \E n \in DOMAIN b : b[n] = c[i]
             /\ \A i, k \in DOMAIN b : i < k => b[i].score >= b[k].score
<1> DEFINE D == DOMAIN c
           Ahead(i, k) == c[i].score > c[k].score \/ (c[i].score = c[k].score /\ i < k)
           ahead == {o \in D \X D : Ahead(o[1], o[2])}
           at == InOrder(D, ahead)
           b == ByScore(c)
<1>1. b = Arranged(c, ahead)
  BY DEF ByScore
<1>2. D = 1..Len(c) /\ Len(c) \in Nat
  BY LenProperties
<1>3. \A i, k \in D : <<i, k>> \in ahead <=> Ahead(i, k)
  OBVIOUS
<1>4. \A i \in D : i \in Nat /\ c[i].score \in Nat
  BY <1>2
<1> HIDE DEF b, ahead, at
<1>5. StrictOrder(D, ahead)
  <2> DEFINE score == [i \in D |-> c[i].score]
  <2>1. \A i \in D : score[i] = c[i].score
    OBVIOUS
  <2> HIDE DEF score, D
  <2>2. \A i, k \in D : <<i, k>> \in ahead <=> score[i] > score[k] \/ (score[i] = score[k] /\ i < k)
    BY <1>3, <2>1
  <2>3. \A i \in D : i \in Nat /\ score[i] \in Nat
    BY <1>4, <2>1
  <2> QED BY <2>2, <2>3 DEF StrictOrder
<1>6. /\ b \in Seq(S) /\ DOMAIN b = D
      /\ at \in [D -> D]
      /\ \A i \in D : \E n \in D : at[n] = i
      /\ \A i, k \in D : i < k => <<at[i], at[k]>> \in ahead
      /\ \A n \in D : b[n] = c[at[n]]
  BY <1>1, <1>5, ArrangedShape DEF at
<1>7. \A n \in DOMAIN b : \E i \in DOMAIN c : b[n] = c[i]
  BY <1>6
<1>8. \A i \in DOMAIN c : \E n \in DOMAIN b : b[n] = c[i]
  BY <1>6
<1>9. ASSUME NEW i \in DOMAIN b, NEW k \in DOMAIN b, i < k PROVE b[i].score >= b[k].score
  <2>1. Ahead(at[i], at[k]) /\ at[i] \in D /\ at[k] \in D /\ b[i] = c[at[i]] /\ b[k] = c[at[k]]
    BY <1>3, <1>6, <1>9
  <2> QED BY <1>4, <2>1
<1> QED BY <1>6, <1>7, <1>8, <1>9 DEF b

(* What is best stays first above the threshold.                           *)
LEMMA ThresholdKeepsFirst ==
  ASSUME NEW S, NEW s \in Seq(S), NEW I \in SUBSET DOMAIN s, 1 \in I
  PROVE  1 \in DOMAIN Chosen(s, I) /\ Chosen(s, I)[1] = s[1]
<1> DEFINE at == Ascending(I)
           N == Cardinality(I)
           c == Chosen(s, I)
<1>1. Len(s) \in Nat /\ DOMAIN s = 1..Len(s)
  BY LenProperties
<1>2. IsFiniteSet(I)
  <2>1. IsFiniteSet(DOMAIN s)
    BY <1>1, CountTo
  <2> QED BY <2>1, FS_Subset
<1>3. I \in SUBSET Nat /\ \A i \in I : i >= 1
  BY <1>1
<1>4. /\ N \in Nat
      /\ at \in [1..N -> I]
      /\ \A d \in I : \E n \in 1..N : at[n] = d
      /\ \A i, k \in 1..N : i < k => at[i] < at[k]
  BY <1>2, <1>3, AscendingPlaces
<1>5. c = [n \in DOMAIN at |-> s[at[n]]]
  BY DEF Chosen
<1> HIDE DEF at, N, c
<1>6. PICK n \in 1..N : at[n] = 1
  BY <1>4
<1>7. 1 \in 1..N /\ at[1] = 1
  <2>1. 1 \in 1..N /\ (n # 1 => 1 < n)
    BY <1>4, <1>6
  <2>2. n # 1 => at[1] < 1 /\ at[1] \in I
    BY <1>4, <1>6, <2>1
  <2>3. n = 1
    BY <1>3, <2>2
  <2> QED BY <1>6, <2>1, <2>3
<1>8. 1 \in DOMAIN c /\ c[1] = s[1]
  BY <1>4, <1>5, <1>7
<1> QED BY <1>8 DEF c

LEMMA Halves ==
  ASSUME NEW i \in Nat
  PROVE  /\ i % 2 = 1 => 2 * ((i + 1) \div 2) = i + 1 /\ (i + 1) \div 2 \in Nat
         /\ i % 2 # 1 => 2 * (i \div 2) = i /\ i \div 2 \in Nat
OBVIOUS

LEMMA OddAndEven ==
  ASSUME NEW i \in Nat
  PROVE  /\ (2 * i + 1) % 2 = 1 /\ ((2 * i + 1) + 1) \div 2 = i + 1
         /\ (2 * i) % 2 = 0 /\ (2 * i) \div 2 = i
OBVIOUS

(* The prompt's order loses nothing and begins with the best.              *)
LEMMA ReorderShape ==
  ASSUME NEW S, NEW s \in Seq(S)
  PROVE  LET r == ApplySerialPositionReorder(s)
         IN  /\ r \in Seq(S) /\ DOMAIN r = DOMAIN s /\ Len(r) = Len(s)
             /\ \A n \in DOMAIN r : \E i \in DOMAIN s : r[n] = s[i]
             /\ 1 \in DOMAIN s => r[1] = s[1]
<1> DEFINE L == Len(s)
           D == DOMAIN s
           Place(i) == IF i % 2 = 1 THEN (i + 1) \div 2 ELSE L + 1 - i \div 2
           r == ApplySerialPositionReorder(s)
           from == [n \in D |-> CHOOSE i \in D : Place(i) = n]
<1>1. L \in Nat /\ D = 1..L /\ \A i \in D : s[i] \in S
  BY LenProperties, ElementOfSeq
<1>2. r = [n \in D |-> s[CHOOSE i \in D : Place(i) = n]]
  BY DEF ApplySerialPositionReorder
<1> HIDE DEF L, D, r
<1>3. ASSUME NEW n \in D PROVE \E i \in D : Place(i) = n
  <2>1. n \in Nat /\ n >= 1 /\ n <= L
    BY <1>1
  <2>2. CASE 2 * n - 1 <= L
    <3> DEFINE m == n - 1
               i == 2 * m + 1
    <3>1. m \in Nat /\ i \in D /\ m + 1 = n
      BY <1>1, <2>1, <2>2
    <3>2. i % 2 = 1 /\ (i + 1) \div 2 = m + 1
      BY <3>1, OddAndEven
    <3> HIDE DEF i, m
    <3>3. Place(i) = n
      BY <3>1, <3>2
    <3> HIDE DEF Place
    <3> QED BY <3>1, <3>3
  <2>3. CASE ~ (2 * n - 1 <= L)
    <3> DEFINE m == L + 1 - n
               i == 2 * m
    <3>1. m \in Nat /\ i \in D /\ L + 1 - m = n
      BY <1>1, <2>1, <2>3
    <3>2. i % 2 = 0 /\ i \div 2 = m
      BY <3>1, OddAndEven
    <3> HIDE DEF i, m
    <3>3. Place(i) = n
      BY <3>1, <3>2
    <3> HIDE DEF Place
    <3> QED BY <3>1, <3>3
  <2> QED BY <2>2, <2>3
<1>4. \A i \in D : Place(i) = 1 => i = 1
  <2> SUFFICES ASSUME NEW i \in D, Place(i) = 1 PROVE i = 1
    OBVIOUS
  <2>1. i \in Nat /\ i >= 1 /\ i <= L
    BY <1>1
  <2>2. CASE i % 2 = 1
    <3>1. 2 * ((i + 1) \div 2) = i + 1 /\ (i + 1) \div 2 = 1
      BY <2>1, <2>2, Halves
    <3> QED BY <2>1, <3>1
  <2>3. CASE i % 2 # 1
    <3> DEFINE h == i \div 2
    <3>1. h \in Nat /\ 2 * h = i /\ L + 1 - h = 1
      BY <2>1, <2>3, Halves
    <3> HIDE DEF h
    <3> QED BY <1>1, <2>1, <3>1
  <2> QED BY <2>2, <2>3
<1>5. \A n \in D : from[n] \in D /\ Place(from[n]) = n
  <2> SUFFICES ASSUME NEW n \in D PROVE from[n] \in D /\ Place(from[n]) = n
    OBVIOUS
  <2>1. from[n] = CHOOSE i \in D : Place(i) = n
    OBVIOUS
  <2> HIDE DEF from, Place
  <2> QED BY <1>3, <2>1
<1>6. r = [n \in D |-> s[from[n]]]
  BY <1>2
<1> HIDE DEF from, Place
<1>7. r = [n \in 1..L |-> s[from[n]]] /\ \A n \in 1..L : s[from[n]] \in S
  BY <1>1, <1>5, <1>6
<1>8. r \in Seq(S) /\ Len(r) = L
  BY <1>1, <1>7, IsASeq
<1>9. \A n \in DOMAIN r : \E i \in D : r[n] = s[i]
  BY <1>5, <1>6
<1>10. 1 \in D => r[1] = s[1]
  BY <1>4, <1>5, <1>6
<1> QED BY <1>6, <1>8, <1>9, <1>10 DEF r, D, L

(* What the model is shown: at most top_n candidates, none under the       *)
(* threshold, and one above it if there is one.                            *)
LEMMA RerankShape ==
  ASSUME NEW S, NEW c \in Seq(S), \A i \in DOMAIN c : c[i].score \in Nat
  PROVE  LET r == Rerank(c)
         IN  /\ r \in Seq(S) /\ Len(r) <= TopN
             /\ \A n \in DOMAIN r : r[n].score >= Threshold /\ \E i \in DOMAIN c : r[n] = c[i]
             /\ (\E i \in DOMAIN c : c[i].score > Threshold)
                  => \E n \in DOMAIN r : r[n].score > Threshold
<1> DEFINE b == ByScore(c)
           I == {n \in DOMAIN b : b[n].score >= Threshold}
           h == Chosen(b, I)
           t == Take(h, TopN)
           r == ApplySerialPositionReorder(t)
<1>1. TopN \in Nat /\ TopN > 0 /\ Threshold \in Nat
  BY QueryAssumption
<1>2. /\ b \in Seq(S) /\ DOMAIN b = DOMAIN c
      /\ \A n \in DOMAIN b : \E i \in DOMAIN c : b[n] = c[i]
      /\ \A i \in DOMAIN c : \E n \in DOMAIN b : b[n] = c[i]
      /\ \A i, k \in DOMAIN b : i < k => b[i].score >= b[k].score
  BY ByScoreShape
<1>3. Rerank(c) = r
  BY DEF Rerank, ApplyScoreThreshold
<1> HIDE DEF b
<1>4. I \in SUBSET DOMAIN b
  OBVIOUS
<1> HIDE DEF I
<1>5. /\ h \in Seq(S) /\ \A n \in DOMAIN h : \E i \in I : h[n] = b[i]
      /\ 1 \in I => 1 \in DOMAIN h /\ h[1] = b[1]
  BY <1>2, <1>4, ChosenShape, ThresholdKeepsFirst
<1> HIDE DEF h
<1>6. /\ t \in Seq(S) /\ Len(t) <= TopN
      /\ \A n \in DOMAIN t : n \in DOMAIN h /\ t[n] = h[n]
      /\ 1 \in DOMAIN h => 1 \in DOMAIN t
  BY <1>1, <1>5, TakeShape
<1> HIDE DEF t
<1>7. /\ r \in Seq(S) /\ Len(r) = Len(t) /\ DOMAIN r = DOMAIN t
      /\ \A n \in DOMAIN r : \E i \in DOMAIN t : r[n] = t[i]
      /\ 1 \in DOMAIN t => r[1] = t[1]
  BY <1>6, ReorderShape
<1> HIDE DEF r
<1>8. ASSUME NEW n \in DOMAIN r
      PROVE  r[n].score >= Threshold /\ \E i \in DOMAIN c : r[n] = c[i]
  <2>1. PICK k \in DOMAIN t : r[n] = t[k]
    BY <1>7
  <2>2. PICK m \in I : t[k] = b[m]
    BY <1>5, <1>6
  <2>3. m \in DOMAIN b /\ b[m].score >= Threshold
    BY DEF I
  <2> QED BY <1>2, <2>1, <2>2, <2>3
<1>9. ASSUME NEW i \in DOMAIN c, c[i].score > Threshold
      PROVE  \E n \in DOMAIN r : r[n].score > Threshold
  <2>1. PICK n \in DOMAIN b : b[n] = c[i]
    BY <1>2
  <2>2. DOMAIN b = 1..Len(b) /\ Len(b) \in Nat
    BY <1>2, LenProperties
  <2>3. 1 \in DOMAIN b /\ n \in Nat /\ (n # 1 => 1 < n)
    BY <2>2
  <2>4. b[1].score \in Nat /\ b[n].score \in Nat
    BY <1>2, <2>3
  <2>5. b[1].score >= b[n].score
    <3>1. n # 1 => b[1].score >= b[n].score
      BY <1>2, <2>3
    <3>2. n = 1 => b[1].score >= b[n].score
      BY <2>4
    <3> QED BY <3>1, <3>2
  <2>6. b[1].score > Threshold
    BY <1>1, <1>9, <2>1, <2>4, <2>5
  <2>7. 1 \in I
    BY <1>1, <2>3, <2>4, <2>6 DEF I
  <2>8. 1 \in DOMAIN r /\ r[1] = b[1]
    BY <1>5, <1>6, <1>7, <2>7
  <2> QED BY <2>6, <2>8
<1> QED BY <1>3, <1>6, <1>7, <1>8, <1>9

-----------------------------------------------------------------------------
(* The queries beside the ingestion.                                       *)

(* What the queries keep: node ids, rows as they are read or made up,      *)
(* fragments of the prompt and the products the client makes of them.      *)
IdType == Providers \X Codes \X Nat
AnyRow == Node \cup {Nothing, SampleRow} \cup {Invented(p) : p \in Providers}
Fragment == [id : IdType \cup {Sample}, row : Node \cup {Nothing, SampleRow}, score : Nat]
Sources == {"none", "LOCAL", "ERROR", "NONE", "RAG", "OFFERS", "SQL", "GRID"}
Hit == [row : AnyRow, node : IdType \cup {Sample, Nothing}]

StateTypes ==
    /\ step \in [Queries -> AtServer \cup {"idle", "reply", "over"}]
    /\ found \in [Queries -> [dense : Seq(IdType), sparse : Seq(IdType)]]
    /\ shortlist \in [Queries -> Seq(IdType)]
    /\ context \in [Queries -> Seq(Fragment)]
    /\ reply \in [Queries -> [kind : {"none", "error", "products"}, products : Seq(Hit)]]
    /\ result \in [Queries -> [source : Sources, hits : Seq(Hit)]]
    /\ healthy \in [Queries -> BOOLEAN]
    /\ during \in [Queries -> SUBSET Node]
    /\ throughout \in [Queries -> SUBSET Node]

(* Rankings repeat no id, and the prompt is cut.                           *)
ListsOK(q) ==
    /\ IsInjective(found[q].dense) /\ IsInjective(found[q].sparse)
    /\ IsInjective(shortlist[q]) /\ Len(shortlist[q]) <= KInput
    /\ Len(context[q]) <= TopN
    /\ \A n \in DOMAIN context[q] : context[q][n].score >= Threshold

(* While a query runs, the table is between its two histories.             *)
HistoryOK(q) ==
    /\ throughout[q] \subseteq during[q]
    /\ Asked(q) => throughout[q] \subseteq table /\ table \subseteq during[q]

(* A row is the one its node id named when it was read.                    *)
Genuine(row, id, q) ==
    \/ row = Nothing \/ row.id = Nothing
    \/ row.id = id /\ row \in during[q]

TracedOK(q) ==
    /\ step[q] = "idle" => /\ context[q] = <<>> /\ reply[q].products = <<>>
                           /\ result[q].hits = <<>>
    /\ healthy[q] =>
         /\ \A n \in DOMAIN context[q] : Genuine(context[q][n].row, context[q][n].id, q)
         /\ \A n \in DOMAIN reply[q].products :
              Genuine(reply[q].products[n].row, reply[q].products[n].node, q)
         /\ \A n \in DOMAIN result[q].hits :
              Genuine(result[q].hits[n].row, result[q].hits[n].node, q)

(* Evidence that stayed is among what the model is shown.                  *)
EvidenceOK(q) ==
    step[q] = "generate" /\ healthy[q] =>
      \A r \in throughout[q] :
        Contains(shortlist[q], r.id) /\ Relevance[r.product.code] > Threshold
        => ShouldFallbackToRetrieval(context[q])

QueryInv == StateTypes /\ \A q \in Queries : ListsOK(q) /\ HistoryOK(q) /\ TracedOK(q) /\ EvidenceOK(q)

LEMMA TableRows == TableOK => table \subseteq Node
BY NodeOfIsNode DEF TableOK

(* Both searches rank ids of rows that are there.                          *)
LEMMA RankingsShape ==
  ASSUME TableOK, NEW rows \in SUBSET table, NEW s \in Rankings(rows)
  PROVE  s \in Seq(IdType) /\ IsInjective(s)
<1> DEFINE ids == Ids(rows)
           N == Cardinality(ids)
<1>1. IsFiniteSet(rows)
  BY FS_Subset DEF TableOK
<1>2. IsFiniteSet(ids) /\ ids \subseteq IdType
  <2> DEFINE idOf == [r \in rows |-> r.id]
  <2>1. idOf \in Surjection(rows, ids)
    BY DEF Surjection, Ids
  <2>2. IsFiniteSet(ids)
    BY <1>1, <2>1, FS_Surjection
  <2>3. ids \subseteq IdType
    BY TableRows DEF Ids, Node, IdType
  <2> QED BY <2>2, <2>3
<1> HIDE DEF ids
<1>3. N \in Nat
  BY <1>2, FS_CardinalityType
<1>4. PICK f \in SetToSeqs(ids) : s = Take(f, KInput)
  BY DEF Rankings, ids
<1>5. f \in [1..N -> ids] /\ \A i, k \in 1..N : i # k => f[i] # f[k]
  BY <1>4 DEF SetToSeqs
<1> HIDE DEF N
<1>6. f \in Seq(IdType) /\ IsInjective(f)
  <2>1. f = [i \in 1..N |-> f[i]] /\ \A i \in 1..N : f[i] \in IdType
    BY <1>2, <1>5
  <2>2. f \in Seq(IdType)
    BY <1>3, <2>1, IsASeq
  <2> QED BY <1>5, <2>2 DEF IsInjective
<1>7. KInput \in Nat
  BY QueryAssumption
<1> QED BY <1>4, <1>6, <1>7, TakeShape

(* A node id names the row that has it, or none.                           *)
LEMMA CandidateShape ==
  ASSUME TableOK, NEW id \in IdType
  PROVE  LET c == Candidate(id)
         IN  /\ c \in Fragment /\ c.id = id /\ c.score \in Nat
             /\ c.row = Nothing \/ (c.row.id = id /\ c.row \in table)
             /\ \A r \in table : r.id = id => c.row = r /\ c.score = Relevance[r.product.code]
<1> DEFINE c == Candidate(id)
           row == CHOOSE r \in table : r.id = id
<1>1. table \subseteq Node
  BY TableRows
<1>2. Relevance \in [Codes \cup {Sample} -> Nat]
  BY QueryAssumption
<1>3. CASE id \in Ids(table)
  <2>1. \E r \in table : r.id = id
    BY <1>3 DEF Ids
  <2>2. row \in table /\ row.id = id
    BY <2>1
  <2>3. c = [id |-> id, row |-> row, score |-> Relevance[row.product.code]]
    BY <1>3 DEF Candidate
  <2>4. \A r \in table : r.id = id => row = r
    BY <2>2 DEF TableOK
  <2> HIDE DEF row, c
  <2>5. row \in Node /\ Relevance[row.product.code] \in Nat
    BY <1>1, <1>2, <2>2 DEF Node, CatalogProduct
  <2>6. c.id = id /\ c.row = row /\ c.score = Relevance[row.product.code] /\ c \in Fragment
    BY <2>3, <2>5 DEF Fragment
  <2> QED BY <2>2, <2>4, <2>5, <2>6 DEF c
<1>4. CASE id \notin Ids(table)
  <2>1. c = [id |-> id, row |-> Nothing, score |-> 0]
    BY <1>4 DEF Candidate
  <2>2. \A r \in table : r.id # id
    BY <1>4 DEF Ids
  <2> HIDE DEF c
  <2>3. c.id = id /\ c.row = Nothing /\ c.score = 0 /\ c \in Fragment
    BY <2>1 DEF Fragment
  <2> QED BY <2>2, <2>3 DEF c
<1> QED BY <1>3, <1>4

(* What the model is shown in place of a failed retrieval.                 *)
LEMMA SampleShape ==
  LET r == Rerank(SamplePool)
  IN  /\ r \in Seq(Fragment) /\ Len(r) <= TopN
      /\ \A n \in DOMAIN r : r[n].score >= Threshold
<1> DEFINE e == [id |-> Sample, row |-> SampleRow, score |-> Relevance[Sample]]
           c == SamplePool
<1>1. e \in Fragment /\ e.score \in Nat
  <2>1. Relevance[Sample] \in Nat
    BY QueryAssumption
  <2> QED BY <2>1 DEF Fragment
<1>2. c = <<e>>
  BY DEF SamplePool
<1> HIDE DEF e, c
<1>3. c \in Seq(Fragment) /\ \A i \in DOMAIN c : c[i].score \in Nat
  BY <1>1, <1>2
<1>4. /\ Rerank(c) \in Seq(Fragment) /\ Len(Rerank(c)) <= TopN
      /\ \A n \in DOMAIN Rerank(c) : Rerank(c)[n].score >= Threshold
  BY <1>3, RerankShape
<1> QED BY <1>4 DEF c

(* The fragments listed as products, all or some of them.                  *)
Listed(ctx, ps) ==
    /\ ps \in Seq([row : AnyRow, fragment : Nat])
    /\ \A i \in DOMAIN ps : \/ ps[i].row.id = Nothing
                            \/ ps[i].fragment \in DOMAIN ctx /\ ps[i].row = ctx[ps[i].fragment].row

LEMMA EverythingListed ==
  ASSUME NEW ctx \in Seq(Fragment)
  PROVE  Listed(ctx, Everything(ctx)) /\ DOMAIN Everything(ctx) = DOMAIN ctx
<1> DEFINE e == Everything(ctx)
           P == [row : AnyRow, fragment : Nat]
<1>1. Len(ctx) \in Nat /\ DOMAIN ctx = 1..Len(ctx) /\ \A n \in DOMAIN ctx : ctx[n] \in Fragment
  BY LenProperties, ElementOfSeq
<1>2. e = [n \in DOMAIN ctx |-> [row |-> ctx[n].row, fragment |-> n]]
  BY DEF Everything, Product
<1> HIDE DEF e
<1>3. \A n \in 1..Len(ctx) : [row |-> ctx[n].row, fragment |-> n] \in P
  BY <1>1 DEF Fragment, AnyRow
<1>4. e = [n \in 1..Len(ctx) |-> [row |-> ctx[n].row, fragment |-> n]]
  BY <1>1, <1>2
<1>5. e \in Seq(P)
  <2> HIDE DEF P
  <2> QED BY <1>1, <1>3, <1>4, IsASeq
<1>6. DOMAIN e = DOMAIN ctx /\ \A n \in DOMAIN e : e[n].fragment = n /\ e[n].row = ctx[n].row
  BY <1>2
<1>7. Listed(ctx, e)
  BY <1>5, <1>6 DEF Listed
<1> QED BY <1>6, <1>7 DEF e

LEMMA ChosenListed ==
  ASSUME NEW ctx, NEW ps, Listed(ctx, ps), NEW I \in SUBSET DOMAIN ps
  PROVE  Listed(ctx, Chosen(ps, I))
<1> DEFINE c == Chosen(ps, I)
           P == [row : AnyRow, fragment : Nat]
<1>1. ps \in Seq(P)
  BY DEF Listed
<1>2. c \in Seq(P) /\ \A n \in DOMAIN c : \E i \in I : c[n] = ps[i]
  <2> HIDE DEF P
  <2> QED BY <1>1, ChosenShape
<1> HIDE DEF c
<1>3. Listed(ctx, c)
  BY <1>2 DEF Listed
<1> QED BY <1>3 DEF c

(* Every answer lists fragments or says what the model made up.            *)
LEMMA AnswersListed ==
  ASSUME NEW ctx \in Seq(Fragment), NEW answer \in Answers(ctx)
  PROVE  Listed(ctx, answer.products) /\ answer.answered \in BOOLEAN
<1> DEFINE all == Everything(ctx)
           P == [row : AnyRow, fragment : Nat]
<1>1. Listed(ctx, all) /\ DOMAIN all = DOMAIN ctx
  BY EverythingListed
<1> HIDE DEF all
<1>2. Listed(ctx, <<>>)
  <2>1. <<>> \in Seq(P) /\ DOMAIN <<>> = {}
    BY EmptySeq
  <2> QED BY <2>1 DEF Listed
<1>3. CASE answer = Refusal
  BY <1>2, <1>3 DEF Refusal
<1>4. CASE answer = OfflineSynthesis(ctx)
  <2> DEFINE I == {n \in DOMAIN ctx : /\ ctx[n].row # Nothing
                                      /\ ctx[n].row.product.code \in Worded}
             hits == Chosen(all, I)
  <2>1. answer = [answered |-> hits # <<>>, products |-> hits]
    BY <1>4 DEF OfflineSynthesis, all
  <2>2. I \in SUBSET DOMAIN all
    BY <1>1
  <2> HIDE DEF I
  <2>3. Listed(ctx, hits)
    BY <1>1, <2>2, ChosenListed
  <2> HIDE DEF hits
  <2> QED BY <2>1, <2>3
<1>5. CASE answer = NarrativeAnswer(ctx)
  BY <1>1, <1>2, <1>5 DEF NarrativeAnswer, Refusal, all
<1>6. CASE answer \in JsonAnswers(ctx)
  <2> DEFINE own == {<<>>} \cup {<<[row |-> Invented(p), fragment |-> n]>> :
                                   p \in Providers, n \in 1..(Len(ctx) + 1)}
  <2> DEFINE Made(a, S, e) == [answered |-> a, products |-> Chosen(all, S) \o e]
             choices == SUBSET DOMAIN ctx
  <2>0. JsonAnswers(ctx) = {Made(a, S, e) : a \in BOOLEAN, S \in choices, e \in own}
    BY DEF JsonAnswers, all
  <2>11. \A e \in own : \/ e = <<>>
                        \/ \E p \in Providers, n \in 1..(Len(ctx) + 1) :
                             e = <<[row |-> Invented(p), fragment |-> n]>>
    OBVIOUS
  <2> HIDE DEF own, Made, choices
  <2>12. PICK a \in BOOLEAN, I \in choices, e \in own : answer = Made(a, I, e)
    BY <1>6, <2>0
  <2>1. I \in SUBSET DOMAIN ctx /\ answer = [answered |-> a, products |-> Chosen(all, I) \o e]
    BY <2>12 DEF Made, choices
  <2> DEFINE c == Chosen(all, I)
  <2>2. Listed(ctx, c)
    BY <1>1, <2>1, ChosenListed
  <2> HIDE DEF c
  <2>3. e \in Seq(P) /\ \A i \in DOMAIN e : e[i].row.id = Nothing
    <3>1. CASE e = <<>>
      BY <1>2, <3>1, EmptySeq DEF Listed
    <3>2. ASSUME NEW p \in Providers, NEW n \in 1..(Len(ctx) + 1),
                 e = <<[row |-> Invented(p), fragment |-> n]>>
          PROVE  e \in Seq(P) /\ \A i \in DOMAIN e : e[i].row.id = Nothing
      <4> DEFINE x == [row |-> Invented(p), fragment |-> n]
      <4>1. n \in Nat
        BY LenProperties
      <4>2. x \in P /\ x.row.id = Nothing
        BY <4>1 DEF AnyRow, Invented
      <4>3. e = <<x>>
        BY <3>2
      <4> HIDE DEF x, P
      <4> QED BY <4>2, <4>3
    <3> QED BY <2>11, <3>1, <3>2
  <2> DEFINE ps == c \o e
             L == Len(c)
             M == Len(e)
  <2>4. c \in Seq(P)
    BY <2>2 DEF Listed
  <2>5. /\ ps \in Seq(P) /\ Len(ps) = L + M
        /\ \A i \in 1..(L + M) : ps[i] = IF i <= L THEN c[i] ELSE e[i - L]
    <3> HIDE DEF P
    <3> QED BY <2>3, <2>4, ConcatProperties
  <2>6. L \in Nat /\ M \in Nat /\ DOMAIN c = 1..L /\ DOMAIN e = 1..M
    BY <2>3, <2>4, LenProperties
  <2>7. DOMAIN ps = 1..(L + M)
    BY <2>5, LenProperties
  <2> HIDE DEF ps, L, M
  <2>8. ASSUME NEW i \in DOMAIN ps
        PROVE  \/ ps[i].row.id = Nothing
               \/ ps[i].fragment \in DOMAIN ctx /\ ps[i].row = ctx[ps[i].fragment].row
    <3>1. CASE i <= L
      <4>1. i \in DOMAIN c /\ ps[i] = c[i]
        BY <2>5, <2>6, <2>7, <3>1
      <4> QED BY <2>2, <4>1 DEF Listed
    <3>2. CASE ~ (i <= L)
      <4>1. i - L \in DOMAIN e /\ ps[i] = e[i - L]
        BY <2>5, <2>6, <2>7, <3>2
      <4> QED BY <2>3, <4>1
    <3> QED BY <3>1, <3>2
  <2>9. Listed(ctx, ps)
    BY <2>5, <2>8 DEF Listed
  <2>10. answer = [answered |-> a, products |-> ps]
    BY <2>1 DEF ps, c
  <2> QED BY <2>9, <2>10
<1> QED BY <1>3, <1>4, <1>5, <1>6 DEF Answers

(* The client's products are those of a response: each has the node of its *)
(* own fragment.                                                           *)
LEMMA MappedShape ==
  ASSUME NEW ctx \in Seq(Fragment), NEW answer \in Answers(ctx)
  PROVE  LET ps == MapProducts(ctx, Response(ctx, answer))
         IN  /\ ps \in Seq(Hit)
             /\ \A i \in DOMAIN ps :
                  \/ ps[i].row.id = Nothing
                  \/ \E n \in DOMAIN ctx : ps[i].row = ctx[n].row /\ ps[i].node = ctx[n].id
<1> DEFINE response == Response(ctx, answer)
           rs == response.products
           ps == MapProducts(ctx, response)
           hit == [i \in DOMAIN rs |-> [row |-> rs[i].row, node |-> FragmentNode(ctx, rs[i].fragment)]]
<1>1. Listed(ctx, rs)
  BY AnswersListed, EverythingListed DEF Response
<1>2. ps = IF response.refused THEN <<>> ELSE hit
  BY DEF MapProducts
<1> HIDE DEF response, rs, ps
<1>3. Len(rs) \in Nat /\ DOMAIN rs = 1..Len(rs) /\ \A i \in DOMAIN rs : rs[i] \in [row : AnyRow, fragment : Nat]
  BY <1>1, LenProperties, ElementOfSeq DEF Listed
<1>4. ASSUME NEW n \in Nat
      PROVE  /\ FragmentNode(ctx, n) \in IdType \cup {Sample, Nothing}
             /\ n \in DOMAIN ctx => FragmentNode(ctx, n) = ctx[n].id
  <2>1. n \in DOMAIN ctx => ctx[n] \in Fragment
    BY ElementOfSeq, LenProperties
  <2> QED BY <2>1 DEF FragmentNode, Fragment
<1>5. \A i \in DOMAIN rs : /\ hit[i] \in Hit
                           /\ hit[i].row = rs[i].row
                           /\ hit[i].node = FragmentNode(ctx, rs[i].fragment)
  BY <1>3, <1>4 DEF Hit
<1>6. hit = [i \in 1..Len(rs) |-> hit[i]]
  BY <1>3
<1>7. DOMAIN hit = DOMAIN rs
  OBVIOUS
<1> HIDE DEF hit
<1>8. hit \in Seq(Hit)
  BY <1>3, <1>5, <1>6, IsASeq
<1>9. ASSUME NEW i \in DOMAIN hit
      PROVE  \/ hit[i].row.id = Nothing
             \/ \E n \in DOMAIN ctx : hit[i].row = ctx[n].row /\ hit[i].node = ctx[n].id
  <2>1. i \in DOMAIN rs /\ rs[i].fragment \in Nat
    BY <1>3, <1>7
  <2>2. CASE rs[i].row.id = Nothing
    BY <1>5, <2>1, <2>2
  <2>3. CASE rs[i].fragment \in DOMAIN ctx /\ rs[i].row = ctx[rs[i].fragment].row
    BY <1>4, <1>5, <2>1, <2>3
  <2> QED BY <1>1, <2>1, <2>2, <2>3 DEF Listed
<1>10. <<>> \in Seq(Hit) /\ DOMAIN <<>> = {}
  BY EmptySeq
<1>11. /\ ps \in Seq(Hit)
       /\ \A i \in DOMAIN ps :
            \/ ps[i].row.id = Nothing
            \/ \E n \in DOMAIN ctx : ps[i].row = ctx[n].row /\ ps[i].node = ctx[n].id
  <2>1. CASE response.refused
    BY <1>2, <1>10, <2>1
  <2>2. CASE ~response.refused
    <3>1. ps = hit
      BY <1>2, <2>2
    <3> QED BY <1>8, <1>9, <3>1
  <2> QED BY <2>1, <2>2
<1> QED BY <1>11 DEF ps, response

(* What a fetch puts in the prompt, and what it cannot leave out.          *)
LEMMA FetchShape ==
  ASSUME TableOK, NEW f, f.dense \in Seq(IdType), f.sparse \in Seq(IdType),
         IsInjective(f.dense), IsInjective(f.sparse)
  PROVE  LET ids == Take(Fuse(f), KInput)
             r == Rerank([n \in DOMAIN ids |-> Candidate(ids[n])])
         IN  /\ ids \in Seq(IdType) /\ IsInjective(ids) /\ Len(ids) <= KInput
             /\ r \in Seq(Fragment) /\ Len(r) <= TopN
             /\ \A n \in DOMAIN r :
                  /\ r[n].score >= Threshold
                  /\ r[n].row = Nothing \/ (r[n].row.id = r[n].id /\ r[n].row \in table)
             /\ \A x \in table : Contains(ids, x.id) /\ Relevance[x.product.code] > Threshold
                                 => ShouldFallbackToRetrieval(r)
<1> DEFINE u == Fuse(f)
           ids == Take(u, KInput)
           c == [n \in DOMAIN ids |-> Candidate(ids[n])]
           r == Rerank(c)
<1>1. u \in Seq(IdType) /\ IsInjective(u)
  BY FuseShape
<1>2. KInput \in Nat
  BY QueryAssumption
<1> HIDE DEF u
<1>3. ids \in Seq(IdType) /\ IsInjective(ids) /\ Len(ids) <= KInput
  BY <1>1, <1>2, TakeShape
<1> HIDE DEF ids
<1>4. Len(ids) \in Nat /\ DOMAIN ids = 1..Len(ids) /\ \A n \in DOMAIN ids : ids[n] \in IdType
  BY <1>3, LenProperties, ElementOfSeq
<1>5. DOMAIN c = DOMAIN ids /\ \A n \in DOMAIN ids : c[n] = Candidate(ids[n])
  OBVIOUS
<1>6. c = [n \in 1..Len(ids) |-> c[n]]
  BY <1>4
<1> HIDE DEF c
<1>7. \A n \in DOMAIN ids :
        /\ c[n] \in Fragment /\ c[n].id = ids[n] /\ c[n].score \in Nat
        /\ c[n].row = Nothing \/ (c[n].row.id = ids[n] /\ c[n].row \in table)
        /\ \A x \in table : x.id = ids[n] => c[n].score = Relevance[x.product.code]
  BY <1>4, <1>5, CandidateShape
<1>8. c \in Seq(Fragment)
  <2>1. \A n \in 1..Len(ids) : c[n] \in Fragment
    BY <1>4, <1>7
  <2> QED BY <1>4, <1>6, <2>1, IsASeq
<1>9. /\ r \in Seq(Fragment) /\ Len(r) <= TopN
      /\ \A n \in DOMAIN r : r[n].score >= Threshold /\ \E i \in DOMAIN c : r[n] = c[i]
      /\ (\E i \in DOMAIN c : c[i].score > Threshold) => \E n \in DOMAIN r : r[n].score > Threshold
  BY <1>5, <1>7, <1>8, RerankShape
<1> HIDE DEF r
<1>10. \A n \in DOMAIN r : r[n].row = Nothing \/ (r[n].row.id = r[n].id /\ r[n].row \in table)
  BY <1>5, <1>7, <1>9
<1>11. ASSUME NEW x \in table, Contains(ids, x.id), Relevance[x.product.code] > Threshold
       PROVE  ShouldFallbackToRetrieval(r)
  <2>1. PICK i \in DOMAIN ids : ids[i] = x.id
    BY <1>3, <1>11, ContainsPlace
  <2>2. i \in DOMAIN c /\ c[i].score > Threshold
    BY <1>5, <1>7, <1>11, <2>1
  <2> QED BY <1>9, <2>2 DEF ShouldFallbackToRetrieval
<1> QED BY <1>3, <1>9, <1>10, <1>11 DEF r, c, ids, u

(* The products read straight from the table.                              *)
LEMMA SetListed ==
  ASSUME NEW S, IsFiniteSet(S)
  PROVE  SetToSeq(S) \in Seq(S)
<1> DEFINE N == Cardinality(S)
           f == SetToSeq(S)
<1>1. N \in Nat /\ \E g \in [1..N -> S] : IsInjective(g)
  <2>1. N \in Nat /\ ExistsBijection(1..N, S)
    BY FS_CardinalityType
  <2> QED BY <2>1 DEF ExistsBijection, Bijection, Injection
<1>2. f \in [1..N -> S]
  BY <1>1 DEF SetToSeq
<1> HIDE DEF f, N
<1>3. f = [i \in 1..N |-> f[i]] /\ \A i \in 1..N : f[i] \in S
  BY <1>2
<1>4. f \in Seq(S)
  BY <1>1, <1>3, IsASeq
<1> QED BY <1>4 DEF f

LEMMA TableListed ==
  ASSUME TableOK, NEW rows \in SUBSET table
  PROVE  LET hits == SetToSeq({[row |-> r, node |-> r.id] : r \in rows})
         IN  /\ hits \in Seq(Hit)
             /\ \A n \in DOMAIN hits : hits[n].row \in table /\ hits[n].row.id = hits[n].node
<1> DEFINE S == {[row |-> r, node |-> r.id] : r \in rows}
           hits == SetToSeq(S)
           told == [r \in rows |-> [row |-> r, node |-> r.id]]
<1>1. IsFiniteSet(rows)
  BY FS_Subset DEF TableOK
<1>2. told \in Surjection(rows, S)
  BY DEF Surjection
<1>3. IsFiniteSet(S)
  <2> HIDE DEF S, told
  <2> QED BY <1>1, <1>2, FS_Surjection
<1>4. \A h \in S : h \in Hit /\ h.row \in table /\ h.row.id = h.node
  BY TableRows DEF Hit, AnyRow, Node, IdType
<1> HIDE DEF S
<1>5. hits \in Seq(S)
  BY <1>3, SetListed
<1> HIDE DEF hits
<1>6. \A n \in DOMAIN hits : hits[n] \in S
  BY <1>5, ElementOfSeq, LenProperties
<1>7. hits \in Seq(Hit)
  <2>1. Len(hits) \in Nat /\ DOMAIN hits = 1..Len(hits) /\ hits = [n \in 1..Len(hits) |-> hits[n]]
    BY <1>5, LenProperties, SeqDef
  <2>2. \A n \in 1..Len(hits) : hits[n] \in Hit
    BY <1>4, <1>6, <2>1
  <2> QED BY <2>1, <2>2, IsASeq
<1>8. \A n \in DOMAIN hits : hits[n].row \in table /\ hits[n].row.id = hits[n].node
  BY <1>4, <1>6
<1> QED BY <1>7, <1>8 DEF hits, S

-----------------------------------------------------------------------------
(* One query moves at a time.                                              *)

QueryOK(q) == ListsOK(q) /\ HistoryOK(q) /\ TracedOK(q) /\ EvidenceOK(q)

LEMMA OneQueryMoves ==
  ASSUME QueryInv, NEW q \in Queries, table' = table, StateTypes', QueryOK(q)',
         \A r \in Queries \ {q} :
            /\ step'[r] = step[r] /\ found'[r] = found[r] /\ shortlist'[r] = shortlist[r]
            /\ context'[r] = context[r] /\ reply'[r] = reply[r] /\ result'[r] = result[r]
            /\ healthy'[r] = healthy[r] /\ during'[r] = during[r]
            /\ throughout'[r] = throughout[r]
  PROVE  QueryInv'
<1>1. ASSUME NEW r \in Queries, r # q
      PROVE  ListsOK(r)' /\ HistoryOK(r)' /\ TracedOK(r)' /\ EvidenceOK(r)'
  <2>1. /\ step'[r] = step[r] /\ found'[r] = found[r] /\ shortlist'[r] = shortlist[r]
        /\ context'[r] = context[r] /\ reply'[r] = reply[r] /\ result'[r] = result[r]
        /\ healthy'[r] = healthy[r] /\ during'[r] = during[r]
        /\ throughout'[r] = throughout[r]
    BY <1>1
  <2>2. ListsOK(r) /\ HistoryOK(r) /\ TracedOK(r) /\ EvidenceOK(r)
    BY DEF QueryInv
  <2>3. ListsOK(r)'
    BY <2>1, <2>2 DEF ListsOK
  <2>4. HistoryOK(r)'
    BY <2>1, <2>2 DEF HistoryOK, Asked
  <2>5. TracedOK(r)'
    BY <2>1, <2>2 DEF TracedOK, Genuine
  <2>6. EvidenceOK(r)'
    BY <2>1, <2>2 DEF EvidenceOK
  <2> QED BY <2>3, <2>4, <2>5, <2>6
<1> QED BY <1>1 DEF QueryInv, QueryOK

LEMMA BeginKeeps ==
  ASSUME QueryInv, TableOK, NEW q \in Queries,
         AnswerLocally(q) \/ Ask(q) \/ Connect(q) \/ Emulate(q), UNCHANGED vars
  PROVE  QueryInv'
<1>1. table' = table /\ table \subseteq Node
  BY TableRows DEF vars
<1>2. StateTypes /\ QueryOK(q)
  BY DEF QueryInv, QueryOK
<1>3. <<>> \in Seq(Hit) /\ DOMAIN <<>> = {}
  BY EmptySeq
<1>4. CASE AnswerLocally(q)
  <2>1. StateTypes'
    <3>1. step' \in [Queries -> AtServer \cup {"idle", "reply", "over"}]
      BY <1>2, <1>4 DEF AnswerLocally, GoTo, StateTypes
    <3>2. result' \in [Queries -> [source : Sources, hits : Seq(Hit)]]
      <4> DEFINE told == [source |-> "LOCAL", hits |-> <<>>]
                 T == [source : Sources, hits : Seq(Hit)]
      <4>1. told \in T
        BY <1>3 DEF Sources
      <4>2. result' = [result EXCEPT ![q] = told] /\ result \in [Queries -> T]
        BY <1>2, <1>4 DEF AnswerLocally, StateTypes
      <4> HIDE DEF told, T
      <4>3. result' \in [Queries -> T]
        BY <4>1, <4>2
      <4> QED BY <4>3 DEF T
    <3> QED BY <1>2, <1>4, <3>1, <3>2 DEF AnswerLocally, history, StateTypes
  <2>2. /\ \A r \in Queries \ {q} : step'[r] = step[r] /\ result'[r] = result[r]
        /\ step[q] = "idle" /\ step'[q] = "over" /\ result'[q].hits = <<>>
        /\ UNCHANGED <<found, shortlist, context, reply, healthy, during, throughout>>
    BY <1>2, <1>4 DEF AnswerLocally, GoTo, history, StateTypes
  <2>3. QueryOK(q)'
    BY <1>1, <1>2, <1>3, <2>2 DEF QueryOK, ListsOK, HistoryOK, Asked, TracedOK, Genuine, EvidenceOK
  <2> QED BY <1>1, <2>1, <2>2, <2>3, OneQueryMoves
<1>5. CASE Ask(q)
  <2>1. StateTypes'
    <3>1. step' \in [Queries -> AtServer \cup {"idle", "reply", "over"}]
      BY <1>2, <1>5 DEF Ask, GoTo, StateTypes, AtServer
    <3>2. during' \in [Queries -> SUBSET Node] /\ throughout' \in [Queries -> SUBSET Node]
      BY <1>1, <1>2, <1>5 DEF Ask, StateTypes
    <3> QED BY <1>2, <1>5, <3>1, <3>2 DEF Ask, local, StateTypes
  <2>2. /\ \A r \in Queries \ {q} : /\ step'[r] = step[r] /\ during'[r] = during[r]
                                    /\ throughout'[r] = throughout[r]
        /\ step[q] = "idle" /\ step'[q] = "connect" /\ during'[q] = table /\ throughout'[q] = table
        /\ UNCHANGED <<found, shortlist, context, reply, result, healthy>>
    BY <1>2, <1>5 DEF Ask, GoTo, local, StateTypes
  <2>3. context[q] = <<>> /\ reply[q].products = <<>> /\ result[q].hits = <<>>
    BY <1>2, <2>2 DEF QueryOK, TracedOK
  <2>4. QueryOK(q)'
    BY <1>1, <1>2, <1>3, <2>2, <2>3 DEF QueryOK, ListsOK, HistoryOK, Asked, TracedOK, Genuine, EvidenceOK
  <2> QED BY <1>1, <2>1, <2>2, <2>4, OneQueryMoves
<1>6. CASE Connect(q) \/ Emulate(q)
  <2>1. StateTypes'
    <3>1. step' \in [Queries -> AtServer \cup {"idle", "reply", "over"}]
      BY <1>2, <1>6 DEF Connect, Emulate, GoTo, StateTypes, AtServer
    <3>2. healthy' \in [Queries -> BOOLEAN]
      BY <1>2, <1>6 DEF Connect, Emulate, history, StateTypes
    <3> QED BY <1>2, <1>6, <3>1, <3>2 DEF Connect, Emulate, local, history, StateTypes
  <2>2. /\ \A r \in Queries \ {q} : step'[r] = step[r] /\ healthy'[r] = healthy[r]
        /\ step[q] = "connect" /\ step'[q] \in {"dense", "generate"}
        /\ step'[q] = "generate" => ~healthy'[q]
        /\ healthy'[q] => healthy[q]
        /\ UNCHANGED <<found, shortlist, context, reply, result, during, throughout>>
    BY <1>2, <1>6 DEF Connect, Emulate, GoTo, local, history, StateTypes
  <2>3. QueryOK(q)'
    BY <1>1, <1>2, <2>2 DEF QueryOK, ListsOK, HistoryOK, Asked, TracedOK, Genuine, EvidenceOK
  <2> QED BY <1>1, <2>1, <2>2, <2>3, OneQueryMoves
<1> QED BY <1>4, <1>5, <1>6

LEMMA SearchKeeps ==
  ASSUME QueryInv, TableOK, NEW q \in Queries,
         SearchDense(q) \/ SearchSparse(q), UNCHANGED vars
  PROVE  QueryInv'
<1>1. table' = table
  BY DEF vars
<1>2. StateTypes /\ QueryOK(q)
  BY DEF QueryInv, QueryOK
<1>3. found[q] \in [dense : Seq(IdType), sparse : Seq(IdType)]
  BY <1>2 DEF StateTypes
<1>4. PICK s : /\ s \in Seq(IdType) /\ IsInjective(s)
               /\ \/ found' = [found EXCEPT ![q].dense = s]
                  \/ found' = [found EXCEPT ![q].sparse = s]
  <2>1. CASE SearchDense(q)
    BY <2>1, RankingsShape DEF SearchDense, DenseRankings
  <2>2. CASE SearchSparse(q)
    <3>1. {r \in table : r.product.code \in Worded} \in SUBSET table
      OBVIOUS
    <3> QED BY <2>2, <3>1, RankingsShape DEF SearchSparse, SparseRankings
  <2> QED BY <2>1, <2>2
<1>5. /\ found' \in [Queries -> [dense : Seq(IdType), sparse : Seq(IdType)]]
      /\ \A r \in Queries \ {q} : found'[r] = found[r]
      /\ found'[q] \in {[found[q] EXCEPT !.dense = s], [found[q] EXCEPT !.sparse = s]}
  <2>1. DOMAIN found = Queries /\ found \in [Queries -> [dense : Seq(IdType), sparse : Seq(IdType)]]
    BY <1>2 DEF StateTypes
  <2>2. PICK v \in {[found[q] EXCEPT !.dense = s], [found[q] EXCEPT !.sparse = s]} :
          found' = [found EXCEPT ![q] = v]
    BY <1>4
  <2>3. v \in [dense : Seq(IdType), sparse : Seq(IdType)]
    BY <1>3, <1>4
  <2> QED BY <2>1, <2>2, <2>3
<1>6. IsInjective(found'[q].dense) /\ IsInjective(found'[q].sparse)
  <2>1. IsInjective(found[q].dense) /\ IsInjective(found[q].sparse)
    BY <1>2 DEF QueryOK, ListsOK
  <2>2. \/ found'[q].dense = s /\ found'[q].sparse = found[q].sparse
        \/ found'[q].sparse = s /\ found'[q].dense = found[q].dense
    BY <1>3, <1>5
  <2> QED BY <1>4, <2>1, <2>2
<1>7. /\ step[q] \in {"dense", "sparse"} /\ step'[q] \in {"sparse", "fetch"}
      /\ step' \in [Queries -> AtServer \cup {"idle", "reply", "over"}]
      /\ \A r \in Queries \ {q} : step'[r] = step[r]
      /\ UNCHANGED <<shortlist, context, reply, result, healthy, during, throughout>>
  BY <1>2 DEF SearchDense, SearchSparse, GoTo, history, StateTypes, AtServer
<1>8. StateTypes'
  BY <1>2, <1>5, <1>7 DEF StateTypes
<1>9. QueryOK(q)'
  BY <1>1, <1>2, <1>6, <1>7 DEF QueryOK, ListsOK, HistoryOK, Asked, TracedOK, Genuine, EvidenceOK
<1> QED BY <1>1, <1>5, <1>7, <1>8, <1>9, OneQueryMoves

LEMMA NoneFoundShape ==
  /\ NoneFound \in [dense : Seq(IdType), sparse : Seq(IdType)]
  /\ IsInjective(NoneFound.dense) /\ IsInjective(NoneFound.sparse)
<1>1. <<>> \in Seq(IdType) /\ DOMAIN <<>> = {}
  BY EmptySeq
<1> QED BY <1>1 DEF NoneFound, IsInjective

LEMMA FetchKeeps ==
  ASSUME QueryInv, TableOK, NEW q \in Queries, Fetch(q), UNCHANGED vars
  PROVE  QueryInv'
<1> DEFINE f == found[q]
           ids == Take(Fuse(f), KInput)
           prompt == Rerank([n \in DOMAIN ids |-> Candidate(ids[n])])
<1>1. table' = table
  BY DEF vars
<1>2. StateTypes /\ QueryOK(q)
  BY DEF QueryInv, QueryOK
<1>3. f.dense \in Seq(IdType) /\ f.sparse \in Seq(IdType) /\ IsInjective(f.dense) /\ IsInjective(f.sparse)
  BY <1>2 DEF StateTypes, QueryOK, ListsOK
<1>4. /\ step[q] = "fetch" /\ step' = [step EXCEPT ![q] = "generate"]
      /\ shortlist' = [shortlist EXCEPT ![q] = ids]
      /\ context' = [context EXCEPT ![q] = prompt]
      /\ found' = [found EXCEPT ![q] = NoneFound]
      /\ UNCHANGED <<reply, result, healthy, during, throughout>>
  BY DEF Fetch, GoTo, history
<1> HIDE DEF f
<1>5. /\ ids \in Seq(IdType) /\ IsInjective(ids) /\ Len(ids) <= KInput
      /\ prompt \in Seq(Fragment) /\ Len(prompt) <= TopN
      /\ \A n \in DOMAIN prompt :
           /\ prompt[n].score >= Threshold
           /\ prompt[n].row = Nothing \/ (prompt[n].row.id = prompt[n].id /\ prompt[n].row \in table)
      /\ \A x \in table : Contains(ids, x.id) /\ Relevance[x.product.code] > Threshold
                          => ShouldFallbackToRetrieval(prompt)
  BY <1>3, FetchShape
<1> HIDE DEF ids, prompt
<1>6. /\ shortlist'[q] = ids /\ context'[q] = prompt /\ found'[q] = NoneFound /\ step'[q] = "generate"
      /\ \A r \in Queries \ {q} : /\ step'[r] = step[r] /\ found'[r] = found[r]
                                  /\ shortlist'[r] = shortlist[r] /\ context'[r] = context[r]
  BY <1>2, <1>4 DEF StateTypes
<1>7. StateTypes'
  BY <1>2, <1>4, <1>5, NoneFoundShape DEF StateTypes, AtServer
<1>8. throughout[q] \subseteq table /\ table \subseteq during[q] /\ throughout[q] \subseteq during[q]
  BY <1>2, <1>4 DEF QueryOK, HistoryOK, Asked
<1>9. ListsOK(q)'
  BY <1>5, <1>6, NoneFoundShape DEF ListsOK
<1>10. HistoryOK(q)'
  BY <1>1, <1>4, <1>8 DEF HistoryOK
<1>11. TracedOK(q)'
  <2>1. TracedOK(q)
    BY <1>2 DEF QueryOK
  <2>2. \A n \in DOMAIN prompt :
           prompt[n].row = Nothing \/ (prompt[n].row.id = prompt[n].id /\ prompt[n].row \in during'[q])
    <3>1. during'[q] = during[q]
      BY <1>4
    <3> QED BY <1>5, <1>8, <3>1
  <2> QED BY <1>4, <1>6, <2>1, <2>2 DEF TracedOK, Genuine
<1>12. EvidenceOK(q)'
  BY <1>4, <1>5, <1>6, <1>8 DEF EvidenceOK
<1>13. QueryOK(q)'
  BY <1>9, <1>10, <1>11, <1>12 DEF QueryOK
<1> QED BY <1>1, <1>4, <1>6, <1>7, <1>13, OneQueryMoves

LEMMA FailureKeeps ==
  ASSUME QueryInv, NEW q \in Queries, RetrievalFails(q), UNCHANGED vars
  PROVE  QueryInv'
<1> DEFINE prompt == Rerank(SamplePool)
<1>1. table' = table
  BY DEF vars
<1>2. StateTypes /\ QueryOK(q)
  BY DEF QueryInv, QueryOK
<1>3. /\ step[q] \in {"dense", "sparse", "fetch"} /\ step' = [step EXCEPT ![q] = "generate"]
      /\ context' = [context EXCEPT ![q] = prompt]
      /\ found' = [found EXCEPT ![q] = NoneFound]
      /\ healthy' = [healthy EXCEPT ![q] = FALSE]
      /\ UNCHANGED <<shortlist, reply, result, during, throughout>>
  BY DEF RetrievalFails, GoTo
<1>4. /\ prompt \in Seq(Fragment) /\ Len(prompt) <= TopN
      /\ \A n \in DOMAIN prompt : prompt[n].score >= Threshold
  BY SampleShape
<1> HIDE DEF prompt
<1>5. /\ context'[q] = prompt /\ found'[q] = NoneFound /\ step'[q] = "generate" /\ ~healthy'[q]
      /\ \A r \in Queries \ {q} : /\ step'[r] = step[r] /\ found'[r] = found[r]
                                  /\ context'[r] = context[r] /\ healthy'[r] = healthy[r]
  BY <1>2, <1>3 DEF StateTypes
<1>6. StateTypes'
  BY <1>2, <1>3, <1>4, NoneFoundShape DEF StateTypes, AtServer
<1>7. QueryOK(q)'
  BY <1>1, <1>2, <1>3, <1>4, <1>5, NoneFoundShape
     DEF QueryOK, ListsOK, HistoryOK, Asked, TracedOK, EvidenceOK
<1> QED BY <1>1, <1>3, <1>5, <1>6, <1>7, OneQueryMoves

LEMMA ReplyKeeps ==
  ASSUME QueryInv, NEW q \in Queries, NEW kind \in {"error", "products"}, NEW ps \in Seq(Hit),
         step[q] \in AtServer, Receive(q, [kind |-> kind, products |-> ps]),
         found' = found \/ found' = [found EXCEPT ![q] = NoneFound],
         UNCHANGED context, UNCHANGED vars,
         healthy[q] => \A n \in DOMAIN ps : Genuine(ps[n].row, ps[n].node, q)
  PROVE  QueryInv'
<1> DEFINE told == [kind |-> kind, products |-> ps]
           T == [kind : {"none", "error", "products"}, products : Seq(Hit)]
<1>1. table' = table
  BY DEF vars
<1>2. StateTypes /\ QueryOK(q)
  BY DEF QueryInv, QueryOK
<1>3. /\ step' = [step EXCEPT ![q] = "reply"] /\ reply' = [reply EXCEPT ![q] = told]
      /\ UNCHANGED <<shortlist, result, healthy, during, throughout>>
  BY DEF Receive, GoTo, history
<1>4. told \in T /\ told.products = ps
  OBVIOUS
<1> HIDE DEF told, T
<1>5. /\ step' \in [Queries -> AtServer \cup {"idle", "reply", "over"}]
      /\ step'[q] = "reply" /\ \A r \in Queries \ {q} : step'[r] = step[r]
  BY <1>2, <1>3 DEF StateTypes
<1>6. reply' \in [Queries -> T] /\ reply'[q] = told /\ \A r \in Queries \ {q} : reply'[r] = reply[r]
  <2>1. reply \in [Queries -> T]
    BY <1>2 DEF StateTypes, T
  <2> QED BY <1>3, <1>4, <2>1
<1>7. /\ found' \in [Queries -> [dense : Seq(IdType), sparse : Seq(IdType)]]
      /\ found'[q] = found[q] \/ found'[q] = NoneFound
      /\ \A r \in Queries \ {q} : found'[r] = found[r]
  <2>1. found \in [Queries -> [dense : Seq(IdType), sparse : Seq(IdType)]]
    BY <1>2 DEF StateTypes
  <2> QED BY <2>1, NoneFoundShape
<1>8. StateTypes'
  BY <1>2, <1>3, <1>5, <1>6, <1>7 DEF StateTypes, T
<1>9. ListsOK(q)'
  BY <1>2, <1>3, <1>7, NoneFoundShape DEF QueryOK, ListsOK
<1>10. HistoryOK(q)'
  BY <1>1, <1>2, <1>3 DEF QueryOK, HistoryOK, Asked, AtServer
<1>11. TracedOK(q)'
  BY <1>2, <1>3, <1>4, <1>5, <1>6 DEF QueryOK, TracedOK, Genuine
<1>12. EvidenceOK(q)'
  BY <1>5 DEF EvidenceOK
<1>13. QueryOK(q)'
  BY <1>9, <1>10, <1>11, <1>12 DEF QueryOK
<1> QED BY <1>1, <1>3, <1>5, <1>6, <1>7, <1>8, <1>13, OneQueryMoves

LEMMA GenerateKeeps ==
  ASSUME QueryInv, NEW q \in Queries, Generate(q), UNCHANGED vars
  PROVE  QueryInv'
<1> DEFINE ctx == context[q]
<1>1. PICK answer \in Answers(ctx) :
        Receive(q, [kind |-> "products", products |-> MapProducts(ctx, Response(ctx, answer))])
  BY DEF Generate
<1>2. step[q] \in AtServer /\ UNCHANGED <<found, context>>
  BY DEF Generate, AtServer
<1>3. ctx \in Seq(Fragment)
  BY DEF QueryInv, StateTypes
<1>4. healthy[q] => \A n \in DOMAIN ctx : Genuine(ctx[n].row, ctx[n].id, q)
  BY DEF QueryInv, TracedOK
<1> HIDE DEF ctx
<1> DEFINE ps == MapProducts(ctx, Response(ctx, answer))
<1>5. /\ ps \in Seq(Hit)
      /\ \A i \in DOMAIN ps :
           \/ ps[i].row.id = Nothing
           \/ \E n \in DOMAIN ctx : ps[i].row = ctx[n].row /\ ps[i].node = ctx[n].id
  BY <1>3, MappedShape
<1> HIDE DEF ps
<1>6. healthy[q] => \A i \in DOMAIN ps : Genuine(ps[i].row, ps[i].node, q)
  <2> SUFFICES ASSUME healthy[q], NEW i \in DOMAIN ps PROVE Genuine(ps[i].row, ps[i].node, q)
    OBVIOUS
  <2>1. CASE ps[i].row.id = Nothing
    BY <2>1 DEF Genuine
  <2>2. CASE \E n \in DOMAIN ctx : ps[i].row = ctx[n].row /\ ps[i].node = ctx[n].id
    BY <1>4, <2>2
  <2> QED BY <1>5, <2>1, <2>2
<1>7. Receive(q, [kind |-> "products", products |-> ps])
  BY <1>1 DEF ps
<1> QED BY <1>2, <1>5, <1>6, <1>7, ReplyKeeps

LEMMA TimeOutKeeps ==
  ASSUME QueryInv, NEW q \in Queries, TimeOut(q), UNCHANGED vars
  PROVE  QueryInv'
<1>1. <<>> \in Seq(Hit) /\ DOMAIN <<>> = {}
  BY EmptySeq
<1>2. /\ step[q] \in AtServer /\ Receive(q, [kind |-> "error", products |-> <<>>])
      /\ found' = [found EXCEPT ![q] = NoneFound] /\ UNCHANGED context
  BY DEF TimeOut, ErrorReply
<1> QED BY <1>1, <1>2, ReplyKeeps

LEMMA TellKeeps ==
  ASSUME QueryInv, NEW q \in Queries, NEW source \in Sources, NEW hits \in Seq(Hit),
         Tell(q, source, hits), UNCHANGED vars,
         healthy[q] => \A n \in DOMAIN hits : Genuine(hits[n].row, hits[n].node, q)
  PROVE  QueryInv'
<1> DEFINE told == [source |-> source, hits |-> hits]
           T == [source : Sources, hits : Seq(Hit)]
<1>1. table' = table
  BY DEF vars
<1>2. StateTypes /\ QueryOK(q)
  BY DEF QueryInv, QueryOK
<1>3. /\ step' = [step EXCEPT ![q] = "over"] /\ result' = [result EXCEPT ![q] = told]
      /\ UNCHANGED <<found, shortlist, context, reply, healthy, during, throughout>>
  BY DEF Tell, GoTo, history
<1>4. told \in T /\ told.hits = hits
  OBVIOUS
<1> HIDE DEF told, T
<1>5. /\ step' \in [Queries -> AtServer \cup {"idle", "reply", "over"}]
      /\ step'[q] = "over" /\ \A r \in Queries \ {q} : step'[r] = step[r]
  BY <1>2, <1>3 DEF StateTypes
<1>6. result' \in [Queries -> T] /\ result'[q] = told /\ \A r \in Queries \ {q} : result'[r] = result[r]
  <2>1. result \in [Queries -> T]
    BY <1>2 DEF StateTypes, T
  <2> QED BY <1>3, <1>4, <2>1
<1>7. StateTypes'
  BY <1>2, <1>3, <1>5, <1>6 DEF StateTypes, T
<1>8. ListsOK(q)'
  BY <1>2, <1>3 DEF QueryOK, ListsOK
<1>9. HistoryOK(q)'
  BY <1>2, <1>3, <1>5 DEF QueryOK, HistoryOK, Asked
<1>10. TracedOK(q)'
  BY <1>2, <1>3, <1>4, <1>5, <1>6 DEF QueryOK, TracedOK, Genuine
<1>11. EvidenceOK(q)'
  BY <1>5 DEF EvidenceOK
<1>12. QueryOK(q)'
  BY <1>8, <1>9, <1>10, <1>11 DEF QueryOK
<1> QED BY <1>1, <1>3, <1>5, <1>6, <1>7, <1>12, OneQueryMoves

LEMMA SomeToldKeeps ==
  ASSUME QueryInv, NEW q \in Queries, NEW source \in Sources,
         NEW I \in SUBSET DOMAIN reply[q].products,
         Tell(q, source, Chosen(reply[q].products, I)), UNCHANGED vars
  PROVE  QueryInv'
<1> DEFINE ps == reply[q].products
           hits == Chosen(ps, I)
<1>1. ps \in Seq(Hit)
  BY DEF QueryInv, StateTypes
<1>2. healthy[q] => \A n \in DOMAIN ps : Genuine(ps[n].row, ps[n].node, q)
  BY DEF QueryInv, TracedOK
<1>3. Tell(q, source, hits) /\ I \in SUBSET DOMAIN ps
  OBVIOUS
<1> HIDE DEF ps
<1>4. hits \in Seq(Hit) /\ \A n \in DOMAIN hits : \E i \in I : hits[n] = ps[i]
  BY <1>1, <1>3, ChosenShape
<1> HIDE DEF hits
<1>5. healthy[q] => \A n \in DOMAIN hits : Genuine(hits[n].row, hits[n].node, q)
  BY <1>2, <1>3, <1>4
<1> QED BY <1>3, <1>4, <1>5, TellKeeps

LEMMA CallerKeeps ==
  ASSUME QueryInv, TableOK, NEW q \in Queries,
         ToChat(q) \/ ToSupplierSearch(q) \/ ToGrid(q), UNCHANGED vars
  PROVE  QueryInv'
<1> DEFINE ps == reply[q].products
<1>1. ps \in Seq(Hit)
  BY DEF QueryInv, StateTypes
<1>2. healthy[q] => \A n \in DOMAIN ps : Genuine(ps[n].row, ps[n].node, q)
  BY DEF QueryInv, TracedOK
<1>3. CASE ToChat(q)
  <2> DEFINE source == CASE reply[q].kind = "error" -> "ERROR"
                         [] reply[q].products = <<>> -> "NONE"
                         [] OTHER -> "RAG"
  <2>1. Tell(q, source, ps)
    BY <1>3 DEF ToChat
  <2>2. source \in Sources
    BY DEF Sources
  <2> HIDE DEF source, ps
  <2> QED BY <1>1, <1>2, <2>1, <2>2, TellKeeps
<1>4. CASE ToSupplierSearch(q)
  <2>1. PICK active \in SUBSET Providers :
          LET products == ps
              offers == {i \in DOMAIN products : products[i].row # Nothing /\ products[i].row.prov \in active}
              Offer(i) == <<products[i].row.prov, products[i].row.product.code>>
          IN  Tell(q, "OFFERS", Chosen(products, {i \in offers : \A k \in offers : k < i => Offer(k) # Offer(i)}))
    BY <1>4 DEF ToSupplierSearch
  <2> DEFINE offers == {i \in DOMAIN ps : ps[i].row # Nothing /\ ps[i].row.prov \in active}
             Offer(i) == <<ps[i].row.prov, ps[i].row.product.code>>
             I == {i \in offers : \A k \in offers : k < i => Offer(k) # Offer(i)}
  <2>2. Tell(q, "OFFERS", Chosen(reply[q].products, I))
    BY <2>1
  <2>3. I \in SUBSET DOMAIN reply[q].products
    OBVIOUS
  <2> HIDE DEF I
  <2> QED BY <2>2, <2>3, SomeToldKeeps DEF Sources
<1>5. CASE ToGrid(q)
  <2>1. PICK proveedor \in Providers \cup {Nothing} :
          LET Matches(row) == row # Nothing /\ (proveedor = Nothing \/ row.prov = proveedor)
          IN  IF reply[q].kind = "error"
              THEN Tell(q, "SQL", SetToSeq({[row |-> r, node |-> r.id] :
                                              r \in {x \in table : Matches(x) /\ x.product.code \in Worded}}))
              ELSE Tell(q, "GRID", Chosen(reply[q].products,
                                          {n \in DOMAIN reply[q].products :
                                             proveedor = Nothing \/ Matches(reply[q].products[n].row)}))
    BY <1>5 DEF ToGrid
  <2> DEFINE Matches(row) == row # Nothing /\ (proveedor = Nothing \/ row.prov = proveedor)
             rows == {x \in table : Matches(x) /\ x.product.code \in Worded}
             hits == SetToSeq({[row |-> r, node |-> r.id] : r \in rows})
             I == {n \in DOMAIN reply[q].products : proveedor = Nothing \/ Matches(reply[q].products[n].row)}
  <2>2. CASE reply[q].kind = "error"
    <3>1. Tell(q, "SQL", hits)
      BY <2>1, <2>2
    <3>2. rows \in SUBSET table
      OBVIOUS
    <3> HIDE DEF rows
    <3>3. hits \in Seq(Hit) /\ \A n \in DOMAIN hits : hits[n].row \in table /\ hits[n].row.id = hits[n].node
      BY <3>2, TableListed
    <3> HIDE DEF hits
    <3>4. table \subseteq during[q]
      BY <3>1 DEF QueryInv, HistoryOK, Asked, Tell
    <3>5. \A n \in DOMAIN hits : Genuine(hits[n].row, hits[n].node, q)
      BY <3>3, <3>4 DEF Genuine
    <3> QED BY <3>1, <3>3, <3>5, TellKeeps DEF Sources
  <2>3. CASE reply[q].kind # "error"
    <3>1. Tell(q, "GRID", Chosen(reply[q].products, I))
      BY <2>1, <2>3
    <3>2. I \in SUBSET DOMAIN reply[q].products
      OBVIOUS
    <3> HIDE DEF I
    <3> QED BY <3>1, <3>2, SomeToldKeeps DEF Sources
  <2> QED BY <2>2, <2>3
<1> QED BY <1>3, <1>4, <1>5

(* A row that an ingestion writes joins what was indexed during a query,   *)
(* one that it removes leaves what was indexed throughout.                 *)
LEMMA IngestingKeeps ==
  ASSUME QueryInv, TableOK', Ingesting
  PROVE  QueryInv'
<1>1. table' \subseteq Node
  <2>1. \A r \in table' : r.prov \in Providers /\ r \in NodeOf(r.prov)
    BY DEF TableOK
  <2> QED BY <2>1, NodeOfIsNode
<1>2. UNCHANGED <<step, found, shortlist, context, reply, result, healthy>>
  BY DEF Ingesting, local
<1>3. /\ during' = [q \in Queries |-> IF Asked(q) THEN during[q] \cup table' ELSE during[q]]
      /\ throughout' = [q \in Queries |-> IF Asked(q) THEN throughout[q] \cap table' ELSE throughout[q]]
  BY DEF Ingesting
<1>4. StateTypes /\ StateTypes'
  <2>1. StateTypes
    BY DEF QueryInv
  <2>2. during' \in [Queries -> SUBSET Node] /\ throughout' \in [Queries -> SUBSET Node]
    BY <1>1, <1>3, <2>1 DEF StateTypes
  <2> QED BY <1>2, <2>1, <2>2 DEF StateTypes
<1>5. ASSUME NEW q \in Queries
      PROVE  ListsOK(q)' /\ HistoryOK(q)' /\ TracedOK(q)' /\ EvidenceOK(q)'
  <2>1. ListsOK(q) /\ HistoryOK(q) /\ TracedOK(q) /\ EvidenceOK(q)
    BY DEF QueryInv
  <2>2. /\ during[q] \subseteq during'[q] /\ throughout'[q] \subseteq throughout[q]
        /\ Asked(q) => table' \subseteq during'[q] /\ throughout'[q] \subseteq table'
    BY <1>3
  <2>3. ListsOK(q)'
    BY <1>2, <2>1 DEF ListsOK
  <2>4. HistoryOK(q)'
    <3>1. throughout'[q] \subseteq during'[q]
      BY <2>1, <2>2 DEF HistoryOK
    <3>2. Asked(q)' <=> Asked(q)
      BY <1>2 DEF Asked
    <3> QED BY <2>2, <3>1, <3>2 DEF HistoryOK
  <2>5. TracedOK(q)'
    BY <1>2, <2>1, <2>2 DEF TracedOK, Genuine
  <2>6. EvidenceOK(q)'
    BY <1>2, <2>1, <2>2 DEF EvidenceOK
  <2> QED BY <2>3, <2>4, <2>5, <2>6
<1> QED BY <1>4, <1>5 DEF QueryInv

LEMMA IdleKeeps ==
  ASSUME QueryInv, UNCHANGED service
  PROVE  QueryInv'
<1>1. UNCHANGED <<table, step, found, shortlist, context, reply, result, healthy, during, throughout>>
  BY DEF service, vars, local, history
<1>2. StateTypes'
  BY <1>1 DEF QueryInv, StateTypes
<1>3. ASSUME NEW q \in Queries
      PROVE  ListsOK(q)' /\ HistoryOK(q)' /\ TracedOK(q)' /\ EvidenceOK(q)'
  <2>1. ListsOK(q) /\ HistoryOK(q) /\ TracedOK(q) /\ EvidenceOK(q)
    BY DEF QueryInv
  <2> QED BY <1>1, <2>1 DEF ListsOK, HistoryOK, Asked, TracedOK, Genuine, EvidenceOK
<1> QED BY <1>2, <1>3 DEF QueryInv

LEMMA InitQueries == ServiceInit => QueryInv
<1> SUFFICES ASSUME ServiceInit PROVE QueryInv
  OBVIOUS
<1>1. <<>> \in Seq(IdType) /\ <<>> \in Seq(Fragment) /\ <<>> \in Seq(Hit)
  OBVIOUS
<1>2. DOMAIN <<>> = {} /\ Len(<<>>) = 0
  OBVIOUS
<1>3. /\ NoReply \in [kind : {"none", "error", "products"}, products : Seq(Hit)]
      /\ NoReply.products = <<>>
      /\ NoResult \in [source : Sources, hits : Seq(Hit)]
      /\ NoResult.hits = <<>>
  BY <1>1 DEF NoReply, NoResult, Sources
<1>4. StateTypes
  BY <1>1, <1>3, NoneFoundShape DEF ServiceInit, QueryInit, StateTypes
<1>5. ASSUME NEW q \in Queries
      PROVE  ListsOK(q) /\ HistoryOK(q) /\ TracedOK(q) /\ EvidenceOK(q)
  <2>1. /\ step[q] = "idle" /\ found[q] = NoneFound /\ shortlist[q] = <<>> /\ context[q] = <<>>
        /\ reply[q] = NoReply /\ result[q] = NoResult /\ during[q] = {} /\ throughout[q] = {}
    BY DEF ServiceInit, QueryInit
  <2>2. ListsOK(q)
    <3>1. IsInjective(<<>>)
      BY <1>2 DEF IsInjective
    <3>2. 0 <= KInput /\ 0 <= TopN
      BY QueryAssumption
    <3> QED BY <1>2, <2>1, <3>1, <3>2, NoneFoundShape DEF ListsOK
  <2>3. HistoryOK(q)
    BY <2>1 DEF HistoryOK, Asked
  <2>4. TracedOK(q)
    BY <1>2, <1>3, <2>1 DEF TracedOK
  <2>5. EvidenceOK(q)
    BY <2>1 DEF EvidenceOK
  <2> QED BY <2>2, <2>3, <2>4, <2>5
<1> QED BY <1>4, <1>5 DEF QueryInv

LEMMA NextQueries == QueryInv /\ TableOK /\ TableOK' /\ [ServiceNext]_service => QueryInv'
<1> SUFFICES ASSUME QueryInv, TableOK, TableOK', [ServiceNext]_service PROVE QueryInv'
  OBVIOUS
<1>1. ASSUME NEW q \in Queries, Query(q), UNCHANGED vars
      PROVE  QueryInv'
  <2>1. CASE AnswerLocally(q) \/ Ask(q) \/ Connect(q) \/ Emulate(q)
    BY <1>1, <2>1, BeginKeeps
  <2>2. CASE SearchDense(q) \/ SearchSparse(q)
    BY <1>1, <2>2, SearchKeeps
  <2>3. CASE Fetch(q)
    BY <1>1, <2>3, FetchKeeps
  <2>4. CASE RetrievalFails(q)
    BY <1>1, <2>4, FailureKeeps
  <2>5. CASE Generate(q)
    BY <1>1, <2>5, GenerateKeeps
  <2>6. CASE TimeOut(q)
    BY <1>1, <2>6, TimeOutKeeps
  <2>7. CASE ToChat(q) \/ ToSupplierSearch(q) \/ ToGrid(q)
    BY <1>1, <2>7, CallerKeeps
  <2> QED BY <1>1, <2>1, <2>2, <2>3, <2>4, <2>5, <2>6, <2>7 DEF Query, Answering, Calling
<1> QED BY <1>1, IngestingKeeps, IdleKeeps DEF ServiceNext

(* To the catalogs, a query is a step in which nothing happens: what they  *)
(* keep alone they keep beside the queries.                                *)
LEMMA RowsInOrderBesideQueries == ServiceSpec => []RowsInv
<1>1. ServiceInit => Init
  BY DEF ServiceInit
<1>2. [ServiceNext]_service => [Next]_vars
  BY DEF ServiceNext, Ingesting, service
<1> QED BY <1>1, <1>2, RowsAlwaysInOrder, PTL DEF ServiceSpec, Spec

LEMMA QueriesInOrder == ServiceSpec => []QueryInv
<1>1. RowsInv => TableOK
  BY DEF RowsInv
<1>2. RowsInv' => TableOK'
  BY DEF RowsInv
<1>3. QueryInv /\ RowsInv /\ RowsInv' /\ [ServiceNext]_service => QueryInv'
  BY <1>1, <1>2, NextQueries
<1> QED BY <1>3, InitQueries, RowsInOrderBesideQueries, PTL DEF ServiceSpec

(* The state of every query is what its step can have left: the rankings   *)
(* of the two searches and their fusion repeat no id and are cut, the      *)
(* prompt of Fase5RerankerCompressor.process is within top_n and at the    *)
(* threshold, whatever the table, the scores and the interleaving with the *)
(* ingestions.                                                             *)
THEOREM QueriesTyped == ServiceSpec => []QueriesTypeOK
<1>1. QueryInv => QueriesTypeOK
  <2> SUFFICES ASSUME QueryInv PROVE QueriesTypeOK
    OBVIOUS
  <2>1. StateTypes
    BY DEF QueryInv
  <2>2. ASSUME NEW q \in Queries
        PROVE  /\ IsInjective(found[q].dense) /\ IsInjective(found[q].sparse)
               /\ IsInjective(shortlist[q]) /\ Len(shortlist[q]) <= KInput
               /\ Len(context[q]) <= TopN
               /\ \A n \in DOMAIN context[q] :
                    /\ context[q][n].row \in Node \cup {Nothing, SampleRow}
                    /\ context[q][n].score >= Threshold
               /\ throughout[q] \subseteq during[q]
               /\ reply[q].kind \in {"none", "error", "products"}
    <3>1. ListsOK(q) /\ HistoryOK(q)
      BY DEF QueryInv
    <3>2. context[q] \in Seq(Fragment) /\ reply[q].kind \in {"none", "error", "products"}
      BY <2>1 DEF StateTypes
    <3>3. \A n \in DOMAIN context[q] : context[q][n].row \in Node \cup {Nothing, SampleRow}
      <4>1. \A n \in DOMAIN context[q] : context[q][n] \in Fragment
        BY <3>2, ElementOfSeq, LenProperties
      <4> QED BY <4>1 DEF Fragment
    <3> QED BY <3>1, <3>2, <3>3 DEF ListsOK, HistoryOK
  <2>3. step \in [Queries -> AtServer \cup {"idle", "reply", "over"}]
    BY <2>1 DEF StateTypes
  <2> QED BY <2>2, <2>3 DEF QueriesTypeOK
<1> QED BY <1>1, QueriesInOrder, PTL

(* Whatever a caller is told of a catalog, unless the model made it up,    *)
(* is a row that was indexed while the query ran, under its own node id:   *)
(* neither the order of the prompt, nor the fragment numbers the client    *)
(* resolves, nor a job that replaces rows between two statements mixes two *)
(* products up.                                                            *)
THEOREM AnswersWereIndexed == ServiceSpec => []ProductsWereIndexed
<1>1. QueryInv => ProductsWereIndexed
  <2> SUFFICES ASSUME QueryInv, NEW q \in Queries, healthy[q],
                      NEW p \in ToSet(reply[q].products) \cup ToSet(result[q].hits)
               PROVE  \/ p.row = Nothing \/ p.row.id = Nothing
                      \/ p.row.id = p.node /\ (p.row \in during[q] \/ p.row \in table)
    BY DEF ProductsWereIndexed
  <2>1. TracedOK(q)
    BY DEF QueryInv
  <2>2. Genuine(p.row, p.node, q)
    <3>1. CASE p \in ToSet(reply[q].products)
      <4>1. PICK n \in DOMAIN reply[q].products : p = reply[q].products[n]
        BY <3>1 DEF ToSet
      <4> QED BY <2>1, <4>1 DEF TracedOK
    <3>2. CASE p \in ToSet(result[q].hits)
      <4>1. PICK n \in DOMAIN result[q].hits : p = result[q].hits[n]
        BY <3>2 DEF ToSet
      <4> QED BY <2>1, <4>1 DEF TracedOK
    <3> QED BY <3>1, <3>2
  <2> QED BY <2>2 DEF Genuine
<1> QED BY <1>1, QueriesInOrder, PTL

(* run_rag_pipeline never lets a refusal of the model stand against a row  *)
(* that stayed indexed, was shortlisted and scores above the threshold:    *)
(* the best of the prompt survives the sort, the cut and the reordering.   *)
THEOREM EvidenceSurvives == ServiceSpec => []EvidenceIsNotDenied
<1>1. QueryInv => EvidenceIsNotDenied
  <2> SUFFICES ASSUME QueryInv, NEW q \in Queries, step[q] = "generate", healthy[q],
                      \E r \in throughout[q] :
                         Contains(shortlist[q], r.id) /\ Relevance[r.product.code] > Threshold,
                      NEW answer \in Answers(context[q])
               PROVE  ~Response(context[q], answer).refused
    BY DEF EvidenceIsNotDenied
  <2>1. ShouldFallbackToRetrieval(context[q])
    BY DEF QueryInv, EvidenceOK
  <2> QED BY <2>1 DEF Response
<1> QED BY <1>1, QueriesInOrder, PTL

(* reciprocal_rank_fusion respects what its two lists agree on, for every  *)
(* constant of the ranks and every pair of rankings.                       *)
THEOREM FusionKeepsAgreements == ServiceSpec => []FusionRespectsBoth
<1>1. QueryInv => FusionRespectsBoth
  <2> SUFFICES ASSUME QueryInv, NEW q \in Queries
               PROVE  LET f == found[q]
                          fused == Fuse(f)
                          NotBelow(s, a, b) == Rank(s, b) = 0 \/ (Rank(s, a) # 0 /\ Rank(s, a) <= Rank(s, b))
                      IN  \A i, k \in DOMAIN fused :
                            (i # k /\ NotBelow(f.dense, fused[i], fused[k]) /\ NotBelow(f.sparse, fused[i], fused[k]))
                            => i < k
    BY DEF FusionRespectsBoth
  <2>1. /\ found[q].dense \in Seq(IdType) /\ found[q].sparse \in Seq(IdType)
        /\ IsInjective(found[q].dense) /\ IsInjective(found[q].sparse)
    BY DEF QueryInv, StateTypes, ListsOK
  <2> QED BY <2>1, FusionAgrees
<1> QED BY <1>1, QueriesInOrder, PTL

=============================================================================
