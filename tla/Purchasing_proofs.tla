-------------------------- MODULE Purchasing_proofs --------------------------
(***************************************************************************)
(* The purchase orders, for any orders, SKUs, suppliers and bounds: a      *)
(* supplier has at most one OPEN, what has been asked for stays asked for, *)
(* receipts agree with the state, a cancellation takes off only its own    *)
(* and, where an order buys a SKU from one source, an item asks for the    *)
(* sum of the needs on it.                                                 *)
(*                                                                         *)
(* Three loops of the program (auto-sourcing, the needs of Case B, the     *)
(* supplier selection) rewrite the book SKU by SKU.  That an invariant of  *)
(* the book survives a loop of any length is an induction over the finite  *)
(* set of its SKUs, done here by the least set that would break it; each   *)
(* iteration is a function of the program, with a lemma of its own.        *)
(***************************************************************************)
EXTENDS OrderLifecycle_proofs

(* A property of the subsets of a finite set that each of them inherits    *)
(* from a subset with one element less holds of all; it is given as the    *)
(* set B of the subsets that have it.                                      *)
LEMMA FiniteInductiveSet ==
  ASSUME NEW S, IsFiniteSet(S), NEW B, {} \in B,
         \A K \in SUBSET S : K # {} => \E x \in K : K \ {x} \in B => K \in B
  PROVE  SUBSET S \subseteq B
<1> DEFINE Good == {n \in Nat : \A K \in SUBSET S : Cardinality(K) = n => K \in B}
<1>1. \A K \in SUBSET S : IsFiniteSet(K) /\ Cardinality(K) \in Nat
  BY FS_Subset, FS_CardinalityType
<1>2. 0 \in Good
  BY <1>1, FS_EmptySet
<1>3. ASSUME NEW n \in Nat, n \in Good PROVE n + 1 \in Good
  <2> SUFFICES ASSUME NEW K \in SUBSET S, Cardinality(K) = n + 1 PROVE K \in B
    OBVIOUS
  <2>1. K # {}
    <3>1. Cardinality({}) = 0
      BY FS_EmptySet
    <3> QED BY <3>1
  <2>2. PICK x \in K : K \ {x} \in B => K \in B
    BY <2>1
  <2>3. Cardinality(K \ {x}) = n
    <3>1. IsFiniteSet(K)
      BY <1>1
    <3>2. Cardinality(K \ {x}) = Cardinality(K) - 1
      BY <3>1, FS_RemoveElement
    <3> QED BY <3>2
  <2>4. K \ {x} \in B
    BY <1>3, <2>3
  <2> QED BY <2>2, <2>4
<1>4. Nat \subseteq Good
  <2> HIDE DEF Good
  <2> QED BY <1>2, <1>3, NatInductiveSet
<1> QED BY <1>1, <1>4

(* g[K] is what a loop over K that begins with base leaves behind, where   *)
(* op[<<x, b>>] is what its iteration for x makes of b: a fold of the library. *)
Loop(g, S, base, op) ==
  g = [K \in SUBSET S |->
         IF K = {} THEN base
         ELSE op[<<CHOOSE x \in K : TRUE, g[K \ {CHOOSE x \in K : TRUE}]>>]]

(* If the iterations lead from B to B, the loop has values, and in B.      *)
LEMMA LoopExists ==
  ASSUME NEW S, IsFiniteSet(S), NEW B, NEW base \in B,
         NEW op, \A x \in S, b \in B : op[<<x, b>>] \in B
  PROVE  \E g \in [SUBSET S -> B] : Loop(g, S, base, op)
<1> DEFINE pick == [K \in SUBSET S |-> CHOOSE x \in K : TRUE]
<1>a. \A K \in SUBSET S : pick[K] = (CHOOSE x \in K : TRUE) /\ (K # {} => pick[K] \in K)
  OBVIOUS
<1> HIDE DEF pick
<1> DEFINE upTo(n) == {K \in SUBSET S : Cardinality(K) <= n}
           step(g, K) == IF K = {} THEN base ELSE op[<<pick[K], g[K \ {pick[K]}]>>]
           Solved == {n \in Nat : \E g \in [upTo(n) -> B] : \A K \in upTo(n) : g[K] = step(g, K)}
<1>1. \A K \in SUBSET S : IsFiniteSet(K) /\ Cardinality(K) \in Nat
  BY FS_Subset, FS_CardinalityType
<1>2. ASSUME NEW K \in SUBSET S, K # {}
      PROVE  pick[K] \in S /\ K \ {pick[K]} \in SUBSET S /\ Cardinality(K \ {pick[K]}) = Cardinality(K) - 1
  BY <1>1, <1>2, <1>a, FS_RemoveElement
<1>3. 0 \in Solved
  <2>1. \A K \in upTo(0) : K = {}
    BY <1>1, FS_EmptySet
  <2> DEFINE g == [K \in upTo(0) |-> base]
  <2>2. g \in [upTo(0) -> B]
    OBVIOUS
  <2>3. \A K \in upTo(0) : g[K] = step(g, K)
    BY <2>1
  <2> QED BY <2>2, <2>3
<1>4. ASSUME NEW n \in Nat, n \in Solved PROVE n + 1 \in Solved
  <2>1. PICK g \in [upTo(n) -> B] : \A K \in upTo(n) : g[K] = step(g, K)
    BY <1>4
  <2> DEFINE h == [K \in upTo(n + 1) |-> IF K \in upTo(n) THEN g[K] ELSE step(g, K)]
  <2>2. upTo(n) \subseteq upTo(n + 1)
    BY <1>1
  <2>3. ASSUME NEW K \in upTo(n + 1), K # {}
        PROVE  K \ {pick[K]} \in upTo(n) /\ pick[K] \in S
    BY <1>1, <1>2, <2>3
  <2>4. \A K \in upTo(n + 1) : step(g, K) \in B
    BY <2>1, <2>3
  <2>5. h \in [upTo(n + 1) -> B]
    BY <2>1, <2>4
  <2>6. ASSUME NEW K \in upTo(n + 1) PROVE h[K] = step(h, K)
    <3>1. h[K] = step(g, K)
      BY <2>1
    <3>2. K # {} => h[K \ {pick[K]}] = g[K \ {pick[K]}]
      BY <2>2, <2>3
    <3> QED BY <3>1, <3>2
  <2>7. \E f \in [upTo(n + 1) -> B] : \A K \in upTo(n + 1) : f[K] = step(f, K)
    <3> HIDE DEF h, upTo, step
    <3> QED BY <2>5, <2>6
  <2>8. n + 1 \in Nat
    OBVIOUS
  <2> HIDE DEF upTo, step
  <2> QED BY <2>7, <2>8
<1>5. Cardinality(S) \in Solved
  <2> HIDE DEF Solved
  <2> QED BY <1>1, <1>3, <1>4, NatInductiveSet
<1>6. upTo(Cardinality(S)) = SUBSET S
  BY FS_Subset
<1>7. PICK g \in [SUBSET S -> B] : \A K \in SUBSET S : g[K] = step(g, K)
  <2> HIDE DEF upTo, step
  <2> QED BY <1>5, <1>6
<1>8. g = [K \in SUBSET S |-> step(g, K)]
  <2> HIDE DEF step
  <2> QED BY <1>7
<1>9. \A K \in SUBSET S :
        step(g, K) = IF K = {} THEN base
                     ELSE op[<<CHOOSE x \in K : TRUE, g[K \ {CHOOSE x \in K : TRUE}]>>]
  BY <1>a
<1>10. Loop(g, S, base, op)
  <2> HIDE DEF step
  <2> QED BY <1>8, <1>9 DEF Loop
<1> QED BY <1>10

-----------------------------------------------------------------------------
(* Books.                                                                  *)
BookType == [needs : [Orders -> [Skus -> Book!Need]],
             pos : [Suppliers -> Seq(Book!PurchaseOrder)]]

(* A purchase order's receipts and its state agree (ReceiptsAddUp).        *)
PurchaseOrderOK(po) ==
  LET due == { s \in Skus : po.received[s] < po.quantity[s] }
  IN  /\ \A s \in Skus : po.received[s] <= po.quantity[s]
      /\ po.estado = "FULLY_RECEIVED" => due = {}
      /\ po.estado = "PARTIALLY_RECEIVED" => due # {} /\ \E s \in Skus : po.received[s] > 0
      /\ po.estado \in {"OPEN", "SENT", "CANCELLED"} => \A s \in Skus : po.received[s] = 0

(* A link leads to a purchase order of the need's supplier.                *)
LinkOK(b, need) ==
  need.link # 0 => need.supplier \in Suppliers /\ need.link \in DOMAIN b.pos[need.supplier]

BookOK(b) ==
  /\ b \in BookType
  /\ \A p \in Suppliers : \A m, n \in Book!OpenPOs(b, p) : m = n
  /\ \A p \in Suppliers : \A n \in DOMAIN b.pos[p] : PurchaseOrderOK(b.pos[p][n])
  /\ \A o \in Orders, s \in Skus : LinkOK(b, b.needs[o][s])

(* What the orders' operations never do to the purchase orders of b.       *)
Keeps(b, c) ==
  \A p \in Suppliers :
    /\ DOMAIN b.pos[p] \subseteq DOMAIN c.pos[p]
    /\ \A n \in DOMAIN b.pos[p] : b.pos[p][n].estado # "OPEN" => c.pos[p][n] = b.pos[p][n]

LEMMA KeepsTransitive ==
  ASSUME NEW b, NEW c, NEW d, Keeps(b, c), Keeps(c, d)
  PROVE  Keeps(b, d)
<1> SUFFICES ASSUME NEW p \in Suppliers, NEW n \in DOMAIN b.pos[p]
             PROVE  n \in DOMAIN d.pos[p] /\ (b.pos[p][n].estado # "OPEN" => d.pos[p][n] = b.pos[p][n])
  BY DEF Keeps
<1>1. n \in DOMAIN c.pos[p] /\ (b.pos[p][n].estado # "OPEN" => c.pos[p][n] = b.pos[p][n])
  BY DEF Keeps
<1> QED BY <1>1 DEF Keeps

(* The three ways in which the operations write to a book.                 *)
WithNeed(b, o, s, need) == [b EXCEPT !.needs[o][s] = need]
WithPO(b, p, n, po) == [b EXCEPT !.pos[p][n] = po]
WithNewPO(b, p) == [b EXCEPT !.pos[p] = Append(@, Book!NewPO)]

LEMMA WithNeedOK ==
  ASSUME NEW b, BookOK(b), NEW o \in Orders, NEW s \in Skus, NEW need \in Book!Need, LinkOK(b, need)
  PROVE  BookOK(WithNeed(b, o, s, need)) /\ Keeps(b, WithNeed(b, o, s, need))
<1> DEFINE c == WithNeed(b, o, s, need)
<1>1. /\ c \in BookType /\ c.pos = b.pos
      /\ c.needs[o][s] = need
      /\ \A q \in Orders, t \in Skus : <<q, t>> # <<o, s>> => c.needs[q][t] = b.needs[q][t]
  BY DEF BookOK, BookType, WithNeed
<1> HIDE DEF c
<1>2. \A q \in Orders, t \in Skus : LinkOK(c, c.needs[q][t])
  <2> TAKE q \in Orders, t \in Skus
  <2>1. CASE <<q, t>> = <<o, s>>
    BY <1>1, <2>1 DEF LinkOK
  <2>2. CASE <<q, t>> # <<o, s>>
    BY <1>1, <2>2 DEF LinkOK, BookOK
  <2> QED BY <2>1, <2>2
<1>3. \A p \in Suppliers : Book!OpenPOs(c, p) = Book!OpenPOs(b, p)
  BY <1>1 DEF Book!OpenPOs
<1> QED BY <1>1, <1>2, <1>3 DEF BookOK, Keeps, c

LEMMA WithPOOK ==
  ASSUME NEW b, BookOK(b), NEW p \in Suppliers, NEW n \in DOMAIN b.pos[p],
         NEW po \in Book!PurchaseOrder, PurchaseOrderOK(po),
         po.estado = "OPEN" => b.pos[p][n].estado = "OPEN"
  PROVE  /\ BookOK(WithPO(b, p, n, po))
         /\ b.pos[p][n].estado = "OPEN" => Keeps(b, WithPO(b, p, n, po))
<1> DEFINE c == WithPO(b, p, n, po)
<1>1. b \in BookType /\ b.pos[p] \in Seq(Book!PurchaseOrder)
  BY DEF BookOK, BookType
<1>2. [b.pos[p] EXCEPT ![n] = po] \in Seq(Book!PurchaseOrder)
  BY <1>1
<1>3. /\ c \in BookType /\ c.needs = b.needs
      /\ \A q \in Suppliers : DOMAIN c.pos[q] = DOMAIN b.pos[q]
      /\ c.pos[p][n] = po
      /\ \A q \in Suppliers : \A m \in DOMAIN b.pos[q] :
           <<q, m>> # <<p, n>> => c.pos[q][m] = b.pos[q][m]
  BY <1>1, <1>2 DEF BookType, WithPO
<1> HIDE DEF c
<1>4. \A q \in Suppliers : Book!OpenPOs(c, q) \subseteq Book!OpenPOs(b, q)
  <2> SUFFICES ASSUME NEW q \in Suppliers, NEW m \in DOMAIN b.pos[q], c.pos[q][m].estado = "OPEN"
               PROVE  b.pos[q][m].estado = "OPEN"
    BY <1>3 DEF Book!OpenPOs
  <2>1. CASE <<q, m>> = <<p, n>>
    BY <1>3, <2>1
  <2>2. CASE <<q, m>> # <<p, n>>
    BY <1>3, <2>2
  <2> QED BY <2>1, <2>2
<1>5. \A q \in Suppliers : \A m \in DOMAIN c.pos[q] : PurchaseOrderOK(c.pos[q][m])
  <2> TAKE q \in Suppliers
  <2> TAKE m \in DOMAIN c.pos[q]
  <2>1. CASE <<q, m>> = <<p, n>>
    BY <1>3, <2>1
  <2>2. CASE <<q, m>> # <<p, n>>
    BY <1>3, <2>2 DEF BookOK
  <2> QED BY <2>1, <2>2
<1>6. \A o \in Orders, s \in Skus : LinkOK(c, c.needs[o][s])
  BY <1>3 DEF BookOK, LinkOK
<1>7. BookOK(c)
  BY <1>3, <1>4, <1>5, <1>6 DEF BookOK
<1>8. b.pos[p][n].estado = "OPEN" => Keeps(b, c)
  BY <1>3 DEF Keeps
<1> QED BY <1>7, <1>8 DEF c

LEMMA WithNewPOOK ==
  ASSUME NEW b, BookOK(b), NEW p \in Suppliers, Book!OpenPOs(b, p) = {}
  PROVE  /\ BookOK(WithNewPO(b, p)) /\ Keeps(b, WithNewPO(b, p))
         /\ Book!OpenPOs(WithNewPO(b, p), p) # {}
<1> DEFINE c == WithNewPO(b, p)
           last == Len(b.pos[p]) + 1
<1>1. b \in BookType /\ b.pos[p] \in Seq(Book!PurchaseOrder)
  BY DEF BookOK, BookType
<1>2. Book!NewPO \in Book!PurchaseOrder /\ PurchaseOrderOK(Book!NewPO) /\ Book!NewPO.estado = "OPEN"
  BY DEF Book!NewPO, Book!PurchaseOrder, Book!POState, PurchaseOrderOK
<1>3. /\ Append(b.pos[p], Book!NewPO) \in Seq(Book!PurchaseOrder)
      /\ DOMAIN Append(b.pos[p], Book!NewPO) = DOMAIN b.pos[p] \cup {last}
      /\ last \notin DOMAIN b.pos[p]
      /\ Append(b.pos[p], Book!NewPO)[last] = Book!NewPO
      /\ \A m \in DOMAIN b.pos[p] : Append(b.pos[p], Book!NewPO)[m] = b.pos[p][m]
  BY <1>1, <1>2
<1> HIDE DEF last
<1>4. /\ c \in BookType /\ c.needs = b.needs
      /\ c.pos[p] = Append(b.pos[p], Book!NewPO)
      /\ \A q \in Suppliers \ {p} : c.pos[q] = b.pos[q]
  BY <1>1, <1>3 DEF BookType, WithNewPO
<1> HIDE DEF c
<1>5. Book!OpenPOs(c, p) = {last} /\ \A q \in Suppliers \ {p} : Book!OpenPOs(c, q) = Book!OpenPOs(b, q)
  BY <1>2, <1>3, <1>4 DEF Book!OpenPOs
<1>6. \A q \in Suppliers : \A m \in DOMAIN c.pos[q] : PurchaseOrderOK(c.pos[q][m])
  <2> TAKE q \in Suppliers
  <2> TAKE m \in DOMAIN c.pos[q]
  <2>1. CASE q = p
    BY <1>2, <1>3, <1>4, <2>1 DEF BookOK
  <2>2. CASE q # p
    BY <1>4, <2>2 DEF BookOK
  <2> QED BY <2>1, <2>2
<1>7. \A q \in Suppliers : \A m \in DOMAIN b.pos[q] : m \in DOMAIN c.pos[q] /\ c.pos[q][m] = b.pos[q][m]
  <2> TAKE q \in Suppliers
  <2> TAKE m \in DOMAIN b.pos[q]
  <2>1. CASE q = p
    BY <1>3, <1>4, <2>1
  <2>2. CASE q # p
    BY <1>4, <2>2
  <2> QED BY <2>1, <2>2
<1>8. \A o \in Orders, s \in Skus : LinkOK(c, c.needs[o][s])
  BY <1>4, <1>7 DEF BookOK, LinkOK
<1>9. \A q \in Suppliers : \A m, n \in Book!OpenPOs(c, q) : m = n
  BY <1>5 DEF BookOK
<1>10. BookOK(c)
  BY <1>4, <1>6, <1>8, <1>9 DEF BookOK
<1>11. Keeps(b, c)
  BY <1>7 DEF Keeps
<1> QED BY <1>5, <1>10, <1>11 DEF c

-----------------------------------------------------------------------------
(* What the functions of the program leave behind is again a book, with    *)
(* every purchase order that is not OPEN as it was.                        *)

LEMMA UpsertNeedOK ==
  ASSUME NEW b, BookOK(b), NEW o \in Orders, NEW s \in Skus, NEW quantity \in Nat
  PROVE  BookOK(Book!UpsertNeed(b, o, s, quantity)) /\ Keeps(b, Book!UpsertNeed(b, o, s, quantity))
<1> DEFINE need == [b.needs[o][s] EXCEPT !.missing = quantity]
<1>1. b \in BookType /\ b.needs[o][s] \in Book!Need /\ LinkOK(b, b.needs[o][s])
  BY DEF BookOK, BookType
<1>2. need \in Book!Need /\ LinkOK(b, need)
  BY <1>1 DEF Book!Need, LinkOK
<1>3. Book!UpsertNeed(b, o, s, quantity) = WithNeed(b, o, s, need)
  BY <1>1 DEF Book!UpsertNeed, WithNeed, BookType
<1> HIDE DEF need
<1> QED BY <1>2, <1>3, WithNeedOK

(* A linked need leads to a purchase order of its supplier.                *)
LEMMA LinkedPOType ==
  ASSUME NEW b, BookOK(b), NEW o \in Orders, NEW s \in Skus, Book!Linked(b, o, s)
  PROVE  /\ b.needs[o][s].supplier \in Suppliers
         /\ b.needs[o][s].link \in DOMAIN b.pos[b.needs[o][s].supplier]
         /\ Book!LinkedPO(b, o, s) \in Book!PurchaseOrder /\ PurchaseOrderOK(Book!LinkedPO(b, o, s))
<1>1. LinkOK(b, b.needs[o][s]) /\ b \in BookType
  BY DEF BookOK
<1>2. /\ b.needs[o][s].supplier \in Suppliers
      /\ b.needs[o][s].link \in DOMAIN b.pos[b.needs[o][s].supplier]
  BY <1>1 DEF LinkOK, Book!Linked
<1>3. b.pos[b.needs[o][s].supplier] \in Seq(Book!PurchaseOrder)
  BY <1>1, <1>2 DEF BookType
<1> QED BY <1>2, <1>3 DEF Book!LinkedPO, BookOK

(* What remains of an item is a quantity.                                  *)
LEMMA RemainingNat ==
  ASSUME NEW b, BookOK(b), NEW o \in Orders, NEW s \in Skus, Book!Linked(b, o, s)
  PROVE  Book!Remaining(b, o, s) \in Nat
<1>1. Book!LinkedPO(b, o, s).quantity[s] \in Nat
  BY LinkedPOType DEF Book!PurchaseOrder
<1>2. b.needs[o][s].missing \in Nat
  BY DEF BookOK, BookType, Book!Need
<1> QED BY <1>1, <1>2 DEF Book!Remaining

(* Writing the quantities of an OPEN purchase order leaves it in order.    *)
LEMMA OpenPOWithQuantity ==
  ASSUME NEW po \in Book!PurchaseOrder, PurchaseOrderOK(po), po.estado = "OPEN",
         NEW quantity \in [Skus -> Nat], NEW state \in {"OPEN", "CANCELLED"}
  PROVE  LET new == [po EXCEPT !.quantity = quantity, !.estado = state]
         IN  new \in Book!PurchaseOrder /\ PurchaseOrderOK(new) /\ new.estado = state
<1> DEFINE new == [po EXCEPT !.quantity = quantity, !.estado = state]
<1>1. /\ new \in Book!PurchaseOrder /\ new.estado = state
      /\ new.quantity = quantity /\ new.received = po.received
  BY DEF Book!PurchaseOrder, Book!POState
<1>2. \A s \in Skus : po.received[s] = 0
  BY DEF PurchaseOrderOK
<1> HIDE DEF new
<1>3. PurchaseOrderOK(new)
  BY <1>1, <1>2 DEF PurchaseOrderOK
<1> QED BY <1>1, <1>3 DEF new

LEMMA DetachOK ==
  ASSUME NEW b, BookOK(b), NEW o \in Orders, NEW s \in Skus
  PROVE  /\ BookOK(Book!DetachFromPreviousPO(b, o, s))
         /\ Keeps(b, Book!DetachFromPreviousPO(b, o, s))
<1>1. CASE ~Book!LinkedOpen(b, o, s)
  BY <1>1 DEF Book!DetachFromPreviousPO, Keeps
<1>2. CASE Book!LinkedOpen(b, o, s)
  <2> DEFINE p == b.needs[o][s].supplier
             n == b.needs[o][s].link
             quantity == [b.pos[p][n].quantity EXCEPT ![s] = Book!Remaining(b, o, s)]
             po == [b.pos[p][n] EXCEPT !.quantity = quantity, !.estado = "OPEN"]
             need == [b.needs[o][s] EXCEPT !.link = 0]
             c == WithPO(b, p, n, po)
  <2>1. /\ p \in Suppliers /\ n \in DOMAIN b.pos[p]
        /\ b.pos[p][n] \in Book!PurchaseOrder /\ PurchaseOrderOK(b.pos[p][n])
        /\ b.pos[p][n].estado = "OPEN"
    BY <1>2, LinkedPOType DEF Book!LinkedOpen, Book!LinkedPO
  <2>2. quantity \in [Skus -> Nat]
    BY <1>2, <2>1, RemainingNat DEF Book!LinkedOpen, Book!PurchaseOrder
  <2>3. po \in Book!PurchaseOrder /\ PurchaseOrderOK(po) /\ po.estado = "OPEN"
    BY <2>1, <2>2, OpenPOWithQuantity
  <2>4. b \in BookType /\ b.needs[o][s] \in Book!Need
    BY DEF BookOK, BookType
  <2>5. Book!DetachFromPreviousPO(b, o, s) = WithNeed(c, o, s, need)
    <3>1. po = [b.pos[p][n] EXCEPT !.quantity = quantity]
      BY <2>1 DEF Book!PurchaseOrder
    <3>2. Book!DetachFromPreviousPO(b, o, s) =
            [b EXCEPT !.pos[p][n].quantity[s] = Book!Remaining(b, o, s), !.needs[o][s].link = 0]
      BY <1>2 DEF Book!DetachFromPreviousPO
    <3>3. [b EXCEPT !.pos[p][n].quantity[s] = Book!Remaining(b, o, s)] = c
      BY <2>1, <2>4, <3>1 DEF WithPO, BookType
    <3>4. c.needs = b.needs /\ c = [c EXCEPT !.needs = b.needs]
      BY <2>4 DEF WithPO, BookType
    <3>5. [b EXCEPT !.pos[p][n].quantity[s] = Book!Remaining(b, o, s), !.needs[o][s].link = 0]
            = [c EXCEPT !.needs[o][s].link = 0]
      BY <2>4, <3>3, <3>4 DEF BookType
    <3>6. [c EXCEPT !.needs[o][s].link = 0] = WithNeed(c, o, s, need)
      BY <3>4 DEF WithNeed
    <3> QED BY <3>2, <3>5, <3>6
  <2>6. need \in Book!Need /\ LinkOK(c, need)
    BY <2>4 DEF Book!Need, LinkOK
  <2> HIDE DEF po, need
  <2>7. BookOK(c) /\ Keeps(b, c)
    BY <2>1, <2>3, WithPOOK
  <2> HIDE DEF c
  <2>8. BookOK(WithNeed(c, o, s, need)) /\ Keeps(c, WithNeed(c, o, s, need))
    BY <2>6, <2>7, WithNeedOK
  <2> QED BY <2>5, <2>7, <2>8, KeepsTransitive
<1> QED BY <1>1, <1>2

LEMMA OpenOrCreateOK ==
  ASSUME NEW b, BookOK(b), NEW p \in Suppliers
  PROVE  /\ BookOK(Book!OpenOrCreatePO(b, p)) /\ Keeps(b, Book!OpenOrCreatePO(b, p))
         /\ Book!OpenPOs(Book!OpenOrCreatePO(b, p), p) # {}
<1>1. CASE Book!OpenPOs(b, p) = {}
  BY <1>1, WithNewPOOK DEF Book!OpenOrCreatePO, WithNewPO
<1>2. CASE Book!OpenPOs(b, p) # {}
  BY <1>2 DEF Book!OpenOrCreatePO, Keeps
<1> QED BY <1>1, <1>2

(* Accumulating a need raises the item of the supplier's OPEN purchase     *)
(* order and links the need to it.                                         *)
LEMMA AccumulateOK ==
  ASSUME NEW b, BookOK(b), NEW o \in Orders, NEW s \in Skus, NEW p \in Suppliers
  PROVE  /\ BookOK(Book!AccumulateNeed(b, o, s, p))
         /\ Keeps(b, Book!AccumulateNeed(b, o, s, p))
<1>1. CASE b.needs[o][s].supplier = p /\ Book!Linked(b, o, s)
  BY <1>1 DEF Book!AccumulateNeed, Keeps
<1>2. CASE ~(b.needs[o][s].supplier = p /\ Book!Linked(b, o, s))
  <2> DEFINE d == IF Book!Reselected(b, o, s, p) THEN Book!DetachFromPreviousPO(b, o, s) ELSE b
             c == Book!OpenOrCreatePO(d, p)
             n == CHOOSE n \in Book!OpenPOs(c, p) : TRUE
             missing == b.needs[o][s].missing
             quantity == [c.pos[p][n].quantity EXCEPT ![s] = @ + missing]
             po == [c.pos[p][n] EXCEPT !.quantity = quantity, !.estado = "OPEN"]
             need == [c.needs[o][s] EXCEPT !.supplier = p, !.link = n]
             e == WithPO(c, p, n, po)
  <2>1. BookOK(d) /\ Keeps(b, d)
    BY DetachOK DEF Keeps
  <2> HIDE DEF d
  <2>2. BookOK(c) /\ Keeps(d, c) /\ Book!OpenPOs(c, p) # {}
    BY <2>1, OpenOrCreateOK
  <2>3. Book!AccumulateNeed(b, o, s, p) =
          [c EXCEPT !.pos[p][n].quantity[s] = @ + missing,
                    !.needs[o][s].supplier = p, !.needs[o][s].link = n]
    BY <1>2 DEF Book!AccumulateNeed, d
  <2> HIDE DEF c
  <2>4. n \in DOMAIN c.pos[p] /\ c.pos[p][n].estado = "OPEN"
    BY <2>2 DEF Book!OpenPOs
  <2>5. c \in BookType /\ PurchaseOrderOK(c.pos[p][n]) /\ c.needs[o][s] \in Book!Need
    BY <2>2, <2>4 DEF BookOK, BookType
  <2>6. c.pos[p] \in Seq(Book!PurchaseOrder) /\ missing \in Nat
    BY <2>5 DEF BookType, BookOK, Book!Need
  <2>7. c.pos[p][n] \in Book!PurchaseOrder /\ n \in Nat
    BY <2>4, <2>6
  <2> HIDE DEF n, missing
  <2>8. quantity \in [Skus -> Nat]
    <3>1. c.pos[p][n].quantity \in [Skus -> Nat]
      BY <2>7 DEF Book!PurchaseOrder
    <3>2. c.pos[p][n].quantity[s] + missing \in Nat
      <4>1. c.pos[p][n].quantity[s] \in Nat
        BY <3>1
      <4>2. missing \in Nat
        BY <2>6
      <4> QED BY <4>1, <4>2
    <3> QED BY <3>1, <3>2
  <2>9. po \in Book!PurchaseOrder /\ PurchaseOrderOK(po) /\ po.estado = "OPEN"
    BY <2>4, <2>5, <2>7, <2>8, OpenPOWithQuantity
  <2>10. Book!AccumulateNeed(b, o, s, p) = WithNeed(e, o, s, need)
    <3>1. po = [c.pos[p][n] EXCEPT !.quantity = quantity]
      BY <2>4, <2>7 DEF Book!PurchaseOrder
    <3>2. [c EXCEPT !.pos[p][n].quantity[s] = @ + missing] = e
      BY <2>4, <2>5, <3>1 DEF WithPO, BookType
    <3>3. e.needs = c.needs /\ e = [e EXCEPT !.needs = c.needs]
      BY <2>5 DEF WithPO, BookType
    <3>4. [c EXCEPT !.pos[p][n].quantity[s] = @ + missing,
                    !.needs[o][s].supplier = p, !.needs[o][s].link = n]
            = [e EXCEPT !.needs[o][s].supplier = p, !.needs[o][s].link = n]
      BY <2>5, <3>2, <3>3 DEF BookType
    <3>5. [e EXCEPT !.needs[o][s].supplier = p, !.needs[o][s].link = n] = WithNeed(e, o, s, need)
      <4>1. o \in DOMAIN c.needs /\ s \in DOMAIN c.needs[o]
        BY <2>5 DEF BookType
      <4>2. [[c.needs EXCEPT ![o][s].supplier = p] EXCEPT ![o][s].link = n]
              = [c.needs EXCEPT ![o][s] = need]
        BY <4>1
      <4> QED BY <3>3, <4>2 DEF WithNeed
    <3> QED BY <2>3, <3>4, <3>5
  <2> HIDE DEF po
  <2>11. BookOK(e) /\ Keeps(c, e)
    BY <2>2, <2>4, <2>9, WithPOOK
  <2>12. DOMAIN e.pos[p] = DOMAIN c.pos[p]
    BY <2>5 DEF WithPO, BookType
  <2>13. need \in Book!Need /\ LinkOK(e, need)
    BY <2>4, <2>5, <2>7, <2>12 DEF Book!Need, LinkOK
  <2> HIDE DEF need, e
  <2>14. BookOK(WithNeed(e, o, s, need)) /\ Keeps(e, WithNeed(e, o, s, need))
    BY <2>11, <2>13, WithNeedOK
  <2> QED BY <2>1, <2>2, <2>10, <2>11, <2>14, KeepsTransitive
<1> QED BY <1>1, <1>2

(* Releasing an order's needs.                                             *)
LEMMA ReleaseOK ==
  ASSUME NEW b, BookOK(b), NEW o \in Orders
  PROVE  /\ BookOK(Book!ReleaseOrderNeeds(b, o)) /\ Keeps(b, Book!ReleaseOrderNeeds(b, o))
<1> DEFINE c == Book!ReleaseOrderNeeds(b, o)
           touched(p, n) == b.pos[p][n].estado = "OPEN"
                              /\ \E s \in Skus : o \in Book!LinkedOrders(b, p, n, s)
           state(p, n) == IF Book!NothingLeft(b, o, p, n) THEN "CANCELLED" ELSE "OPEN"
<1>1. b \in BookType
  BY DEF BookOK
<1>2. ASSUME NEW p \in Suppliers, NEW n \in DOMAIN b.pos[p]
      PROVE  /\ b.pos[p][n] \in Book!PurchaseOrder /\ PurchaseOrderOK(b.pos[p][n])
             /\ Book!LeftOf(b, o, p, n) \in [Skus -> Nat]
  <2>1. b.pos[p][n] \in Book!PurchaseOrder
    BY <1>1 DEF BookType
  <2>2. ASSUME NEW s \in Skus
        PROVE  (IF o \in Book!LinkedOrders(b, p, n, s) THEN Book!Remaining(b, o, s)
                ELSE b.pos[p][n].quantity[s]) \in Nat
    <3>1. CASE o \in Book!LinkedOrders(b, p, n, s)
      <4>1. n # 0
        BY <1>1 DEF BookType
      <4>2. Book!Linked(b, o, s)
        BY <3>1, <4>1 DEF Book!LinkedOrders, Book!Linked
      <4> QED BY <3>1, <4>2, RemainingNat
    <3>2. CASE o \notin Book!LinkedOrders(b, p, n, s)
      BY <2>1, <3>2 DEF Book!PurchaseOrder
    <3> QED BY <3>1, <3>2
  <2> QED BY <2>1, <2>2 DEF Book!LeftOf, BookOK
<1>3. /\ c.pos = [p \in Suppliers |-> [n \in DOMAIN b.pos[p] |->
                    IF touched(p, n)
                    THEN [b.pos[p][n] EXCEPT !.quantity = Book!LeftOf(b, o, p, n),
                                             !.estado = IF Book!NothingLeft(b, o, p, n)
                                                        THEN "CANCELLED" ELSE @]
                    ELSE b.pos[p][n]]]
      /\ c.needs = [b.needs EXCEPT ![o] =
                      [s \in Skus |-> IF Book!LinkedOpen(b, o, s)
                                      THEN [b.needs[o][s] EXCEPT !.link = 0]
                                      ELSE b.needs[o][s]]]
      /\ c = [needs |-> c.needs, pos |-> c.pos]
  BY DEF Book!ReleaseOrderNeeds
<1> HIDE DEF c
<1>4. ASSUME NEW p \in Suppliers, NEW n \in DOMAIN b.pos[p]
      PROVE  /\ c.pos[p][n] \in Book!PurchaseOrder /\ PurchaseOrderOK(c.pos[p][n])
             /\ c.pos[p][n].estado = "OPEN" => b.pos[p][n].estado = "OPEN"
             /\ b.pos[p][n].estado # "OPEN" => c.pos[p][n] = b.pos[p][n]
  <2> DEFINE po == b.pos[p][n]
             left == Book!LeftOf(b, o, p, n)
             st == state(p, n)
             new == [po EXCEPT !.quantity = left, !.estado = st]
  <2>1. c.pos[p][n] = IF touched(p, n)
                      THEN [po EXCEPT !.quantity = left,
                                      !.estado = IF Book!NothingLeft(b, o, p, n)
                                                 THEN "CANCELLED" ELSE @]
                      ELSE po
    <3> HIDE DEF touched
    <3>1. c.pos[p] = [m \in DOMAIN b.pos[p] |->
                        IF touched(p, m)
                        THEN [b.pos[p][m] EXCEPT !.quantity = Book!LeftOf(b, o, p, m),
                                                 !.estado = IF Book!NothingLeft(b, o, p, m)
                                                            THEN "CANCELLED" ELSE @]
                        ELSE b.pos[p][m]]
      BY <1>3
    <3> QED BY <3>1
  <2>2. CASE touched(p, n)
    <3>1. po \in Book!PurchaseOrder /\ PurchaseOrderOK(po) /\ po.estado = "OPEN"
      BY <1>2, <2>2
    <3>2. left \in [Skus -> Nat] /\ st \in {"OPEN", "CANCELLED"}
      BY <1>2
    <3>3. c.pos[p][n] = new
      <4> HIDE DEF touched, po, left
      <4> QED BY <2>1, <2>2, <3>1
    <3> HIDE DEF po, left, st
    <3>4. new \in Book!PurchaseOrder /\ PurchaseOrderOK(new)
      BY <3>1, <3>2, OpenPOWithQuantity
    <3> QED BY <3>1, <3>3, <3>4 DEF po
  <2>3. CASE ~touched(p, n)
    <3>1. c.pos[p][n] = po
      <4> HIDE DEF touched, po, left
      <4> QED BY <2>1, <2>3
    <3> QED BY <1>2, <3>1
  <2> QED BY <2>2, <2>3
<1>5. ASSUME NEW p \in Suppliers
      PROVE  DOMAIN c.pos[p] = DOMAIN b.pos[p] /\ c.pos[p] = [n \in DOMAIN b.pos[p] |-> c.pos[p][n]]
  <2> DEFINE row == [n \in DOMAIN b.pos[p] |->
                       IF touched(p, n)
                       THEN [b.pos[p][n] EXCEPT !.quantity = Book!LeftOf(b, o, p, n),
                                                !.estado = IF Book!NothingLeft(b, o, p, n)
                                                           THEN "CANCELLED" ELSE @]
                       ELSE b.pos[p][n]]
  <2>1. c.pos[p] = row
    BY <1>3
  <2>2. DOMAIN row = DOMAIN b.pos[p] /\ row = [n \in DOMAIN b.pos[p] |-> row[n]]
    OBVIOUS
  <2> HIDE DEF row
  <2> QED BY <2>1, <2>2
<1>6. \A p \in Suppliers : c.pos[p] \in Seq(Book!PurchaseOrder)
  <2> TAKE p \in Suppliers
  <2>1. DOMAIN c.pos[p] = 1 .. Len(b.pos[p]) /\ Len(b.pos[p]) \in Nat
    <3>1. b.pos[p] \in Seq(Book!PurchaseOrder)
      BY <1>1 DEF BookType
    <3>2. DOMAIN c.pos[p] = DOMAIN b.pos[p]
      BY <1>5
    <3> QED BY <3>1, <3>2
  <2>2. c.pos[p] = [n \in 1 .. Len(b.pos[p]) |-> c.pos[p][n]]
    BY <1>5, <2>1
  <2>3. \A n \in 1 .. Len(b.pos[p]) : c.pos[p][n] \in Book!PurchaseOrder
    BY <1>4, <1>5, <2>1
  <2> QED BY <2>1, <2>2, <2>3
<1>7. \A q \in Orders, s \in Skus :
        /\ c.needs[q][s] \in Book!Need
        /\ c.needs[q][s] = b.needs[q][s] \/ c.needs[q][s] = [b.needs[q][s] EXCEPT !.link = 0]
  <2> TAKE q \in Orders, s \in Skus
  <2>1. b.needs[q][s] \in Book!Need /\ [b.needs[q][s] EXCEPT !.link = 0] \in Book!Need
    <3>1. b.needs[q][s] \in Book!Need
      BY <1>1 DEF BookType
    <3> QED BY <3>1 DEF Book!Need
  <2>2. c.needs[q][s] = b.needs[q][s] \/ c.needs[q][s] = [b.needs[q][s] EXCEPT !.link = 0]
    <3>1. q \in DOMAIN b.needs
      BY <1>1 DEF BookType
    <3>2. CASE q = o
      BY <1>3, <3>1, <3>2
    <3>3. CASE q # o
      BY <1>3, <3>1, <3>3
    <3> QED BY <3>2, <3>3
  <2> QED BY <2>1, <2>2
<1>8. c \in BookType
  <2>1. c.needs \in [Orders -> [Skus -> Book!Need]]
    BY <1>1, <1>3, <1>7 DEF BookType
  <2> QED BY <1>3, <1>6, <2>1 DEF BookType
<1>9. \A q \in Orders, s \in Skus : LinkOK(c, c.needs[q][s])
  <2> TAKE q \in Orders, s \in Skus
  <2>1. b.needs[q][s] \in Book!Need /\ LinkOK(b, b.needs[q][s])
    BY <1>1 DEF BookOK, BookType
  <2>2. CASE c.needs[q][s] = b.needs[q][s]
    BY <1>5, <2>1, <2>2 DEF LinkOK
  <2>3. CASE c.needs[q][s] = [b.needs[q][s] EXCEPT !.link = 0]
    BY <2>1, <2>3 DEF LinkOK, Book!Need
  <2> QED BY <1>7, <2>2, <2>3
<1>10. \A p \in Suppliers : Book!OpenPOs(c, p) \subseteq Book!OpenPOs(b, p)
  BY <1>4, <1>5 DEF Book!OpenPOs
<1>11. BookOK(c)
  BY <1>4, <1>5, <1>8, <1>9, <1>10 DEF BookOK
<1>12. Keeps(b, c)
  BY <1>4, <1>5 DEF Keeps
<1> QED BY <1>11, <1>12 DEF c

-----------------------------------------------------------------------------
(* The purchase order's own transitions.  They write to purchase orders    *)
(* that are not OPEN, but never to their quantities.                       *)
Frozen(b, c) ==
  \A p \in Suppliers : \A n \in DOMAIN b.pos[p] :
    b.pos[p][n].estado # "OPEN" => c.pos[p][n].quantity = b.pos[p][n].quantity

LEMMA KeepsFrozen ==
  ASSUME NEW b, NEW c, Keeps(b, c)
  PROVE  Frozen(b, c)
BY DEF Keeps, Frozen

LEMMA WithPOFrozen ==
  ASSUME NEW b, BookOK(b), NEW p \in Suppliers, NEW n \in DOMAIN b.pos[p], NEW po,
         po.quantity = b.pos[p][n].quantity
  PROVE  Frozen(b, WithPO(b, p, n, po))
<1> SUFFICES ASSUME NEW q \in Suppliers, NEW m \in DOMAIN b.pos[q]
             PROVE  WithPO(b, p, n, po).pos[q][m].quantity = b.pos[q][m].quantity
  BY DEF Frozen
<1>1. b \in BookType
  BY DEF BookOK
<1>2. CASE <<q, m>> = <<p, n>>
  BY <1>1, <1>2 DEF WithPO, BookType
<1>3. CASE <<q, m>> # <<p, n>>
  BY <1>1, <1>3 DEF WithPO, BookType
<1> QED BY <1>2, <1>3

LEMMA SendOK ==
  ASSUME NEW b, BookOK(b), NEW p \in Suppliers, NEW n \in DOMAIN b.pos[p],
         Book!CanSend(b, p, n) \/ Book!CanCancel(b, p, n), NEW state \in {"SENT", "CANCELLED"}
  PROVE  LET c == [b EXCEPT !.pos[p][n].estado = state]
         IN  BookOK(c) /\ Frozen(b, c)
<1> DEFINE old == b.pos[p][n]
           po == [old EXCEPT !.estado = state]
<1>1. old \in Book!PurchaseOrder /\ PurchaseOrderOK(old) /\ old.estado \in {"OPEN", "SENT"}
  BY DEF BookOK, BookType, Book!CanSend, Book!CanCancel
<1>2. [b EXCEPT !.pos[p][n].estado = state] = WithPO(b, p, n, po)
  BY DEF WithPO
<1> HIDE DEF old
<1>3. /\ po \in Book!PurchaseOrder /\ po.estado = state
      /\ po.quantity = old.quantity /\ po.received = old.received
  BY <1>1 DEF Book!PurchaseOrder, Book!POState
<1> HIDE DEF po
<1>4. \A s \in Skus : old.received[s] = 0
  BY <1>1 DEF PurchaseOrderOK
<1>5. PurchaseOrderOK(po)
  BY <1>1, <1>3, <1>4 DEF PurchaseOrderOK
<1>6. BookOK(WithPO(b, p, n, po)) /\ Frozen(b, WithPO(b, p, n, po))
  BY <1>3, <1>5, WithPOOK, WithPOFrozen DEF old
<1> QED BY <1>2, <1>6

(* A receipt of at least one unit that was still due.                      *)
LEMMA ReceiveOK ==
  ASSUME NEW b, BookOK(b), NEW p \in Suppliers, NEW n \in DOMAIN b.pos[p], NEW s \in Skus,
         NEW quantity \in Nat, quantity > 0, Book!CanReceive(b, p, n, s, quantity)
  PROVE  BookOK(Book!ReceivePO(b, p, n, s, quantity)) /\ Frozen(b, Book!ReceivePO(b, p, n, s, quantity))
<1> DEFINE old == b.pos[p][n]
           received == [old.received EXCEPT ![s] = @ + quantity]
           complete == \A t \in Skus : received[t] >= old.quantity[t]
           state == IF complete THEN "FULLY_RECEIVED" ELSE "PARTIALLY_RECEIVED"
           po == [old EXCEPT !.received = received, !.estado = state]
<1>1. b \in BookType /\ old \in Book!PurchaseOrder /\ PurchaseOrderOK(old)
  BY DEF BookOK, BookType
<1>2. old.estado \in {"SENT", "PARTIALLY_RECEIVED"} /\ old.received[s] + quantity <= old.quantity[s]
  BY DEF Book!CanReceive
<1>3. Book!ReceivePO(b, p, n, s, quantity) = WithPO(b, p, n, po)
  <2>1. Book!ReceivePO(b, p, n, s, quantity) =
          [b EXCEPT !.pos[p][n].received = received, !.pos[p][n].estado = state]
    BY DEF Book!ReceivePO
  <2> HIDE DEF received, state
  <2> DEFINE x == [b EXCEPT !.pos[p][n].received = received]
             pos == [b.pos EXCEPT ![p][n] = [@ EXCEPT !.received = received]]
  <2>2. p \in DOMAIN b.pos /\ n \in DOMAIN b.pos[p] /\ b = [needs |-> b.needs, pos |-> b.pos]
    BY <1>1 DEF BookType
  <2>3. x = [needs |-> b.needs, pos |-> pos]
    BY <2>2
  <2>4. [x EXCEPT !.pos[p][n].estado = state]
          = [needs |-> b.needs, pos |-> [pos EXCEPT ![p][n].estado = state]]
    <3> HIDE DEF x, pos
    <3> QED BY <2>3
  <2>5. [pos EXCEPT ![p][n].estado = state] = [b.pos EXCEPT ![p][n] = po]
    BY <2>2
  <2>6. WithPO(b, p, n, po) = [needs |-> b.needs, pos |-> [b.pos EXCEPT ![p][n] = po]]
    <3> HIDE DEF po
    <3> QED BY <2>2 DEF WithPO
  <2> QED BY <2>1, <2>4, <2>5, <2>6
<1>4. old.received \in [Skus -> Nat] /\ old.quantity \in [Skus -> Nat]
  BY <1>1 DEF Book!PurchaseOrder
<1> HIDE DEF old
<1>5. /\ received \in [Skus -> Nat] /\ received[s] = old.received[s] + quantity
      /\ \A t \in Skus \ {s} : received[t] = old.received[t]
  BY <1>4
<1> HIDE DEF received
<1>6. \A t \in Skus : received[t] <= old.quantity[t]
  BY <1>1, <1>2, <1>5 DEF PurchaseOrderOK
<1>7. /\ po \in Book!PurchaseOrder /\ po.estado = state
      /\ po.quantity = old.quantity /\ po.received = received
  BY <1>1, <1>5 DEF Book!PurchaseOrder, Book!POState
<1>8. received[s] > 0
  BY <1>4, <1>5
<1>9. complete => \A t \in Skus : ~(received[t] < old.quantity[t])
  BY <1>4, <1>5
<1>10. ~complete => \E t \in Skus : received[t] < old.quantity[t]
  BY <1>4, <1>5
<1> HIDE DEF complete, po
<1>11. PurchaseOrderOK(po)
  BY <1>6, <1>7, <1>8, <1>9, <1>10 DEF PurchaseOrderOK
<1>12. BookOK(WithPO(b, p, n, po)) /\ Frozen(b, WithPO(b, p, n, po))
  BY <1>2, <1>7, <1>11, WithPOOK, WithPOFrozen DEF old
<1> QED BY <1>3, <1>12

-----------------------------------------------------------------------------
(* The loops of the program over the SKUs of an order.                     *)

(* The books the loops of a transaction that began with b go through.      *)
Books(b) == { c \in BookType : BookOK(c) /\ Keeps(b, c) }

LEMMA BooksStart ==
  ASSUME NEW b, BookOK(b)
  PROVE  b \in Books(b)
BY DEF Books, BookOK, Keeps

(* What holds of the books before a loop, and after an iteration if it     *)
(* held before, holds after the loop.                                      *)
LEMMA LoopInto ==
  ASSUME NEW S, IsFiniteSet(S), NEW iter, NEW B, iter[{}] \in B,
         \A J \in SUBSET S : J # {} => \E x \in J : iter[J \ {x}] \in B => iter[J] \in B
  PROVE  iter[S] \in B
<1> DEFINE Good == { J \in SUBSET S : iter[J] \in B }
<1>1. {} \in Good
  OBVIOUS
<1>2. ASSUME NEW J \in SUBSET S, J # {} PROVE \E x \in J : J \ {x} \in Good => J \in Good
  BY <1>2
<1> HIDE DEF Good
<1>3. SUBSET S \subseteq Good
  BY <1>1, <1>2, FiniteInductiveSet
<1> QED BY <1>3 DEF Good

(* The supplier selection accumulates one need after the other.            *)
LEMMA SelectionLoop ==
  ASSUME BookOK(book), NEW o \in Orders, NEW K \in SUBSET Skus, IsFiniteSet(K),
         NEW answer \in [K -> Suppliers]
  PROVE  \E iter :
           /\ AfterSelection(o, answer) = iter[K]
           /\ iter[{}] = book
           /\ \A J \in SUBSET K : J # {} =>
                \E s \in J : iter[J] = Book!AccumulateNeed(iter[J \ {s}], o, s, answer[s])
<1> DEFINE B == Books(book)
           next(s, b) == Book!AccumulateNeed(b, o, s, answer[s])
           op == [q \in K \X B |-> next(q[1], q[2])]
           body(g) == [J \in SUBSET K |->
                         IF J = {} THEN book
                         ELSE next(CHOOSE x \in J : TRUE, g[J \ {CHOOSE x \in J : TRUE}])]
           iter == CHOOSE g : g = body(g)
<1>1. AfterSelection(o, answer) = iter[K]
  BY DEF AfterSelection, Folding!FoldSet, Folding!MapThenFoldSet
<1>2. ASSUME NEW s \in K, NEW b \in B PROVE next(s, b) \in B
  <2>1. answer[s] \in Suppliers /\ s \in Skus /\ BookOK(b) /\ Keeps(book, b)
    BY DEF Books
  <2>2. BookOK(next(s, b)) /\ Keeps(b, next(s, b))
    BY <2>1, AccumulateOK
  <2> HIDE DEF next
  <2> QED BY <2>1, <2>2, KeepsTransitive DEF Books, BookOK
<1>3. book \in B
  BY BooksStart
<1> HIDE DEF B
<1>4. \A s \in K, b \in B : op[<<s, b>>] = next(s, b) /\ op[<<s, b>>] \in B
  <2> HIDE DEF next
  <2> QED BY <1>2
<1> HIDE DEF op
<1>5. PICK g \in [SUBSET K -> B] : Loop(g, K, book, op)
  BY <1>3, <1>4, LoopExists
<1>6. g = body(g)
  <2> HIDE DEF next
  <2>1. \A J \in SUBSET K : J # {} => /\ (CHOOSE x \in J : TRUE) \in K
                                      /\ g[J \ {CHOOSE x \in J : TRUE}] \in B
    OBVIOUS
  <2>2. \A J \in SUBSET K : J # {} =>
          op[<<CHOOSE x \in J : TRUE, g[J \ {CHOOSE x \in J : TRUE}]>>]
            = next(CHOOSE x \in J : TRUE, g[J \ {CHOOSE x \in J : TRUE}])
    BY <1>4, <2>1
  <2>3. ASSUME NEW J \in SUBSET K
        PROVE  g[J] = IF J = {} THEN book
                      ELSE next(CHOOSE x \in J : TRUE, g[J \ {CHOOSE x \in J : TRUE}])
    <3>1. g[J] = IF J = {} THEN book
                 ELSE op[<<CHOOSE x \in J : TRUE, g[J \ {CHOOSE x \in J : TRUE}]>>]
      BY <1>5 DEF Loop
    <3> QED BY <2>2, <3>1
  <2>4. g = [J \in SUBSET K |-> g[J]]
    BY <1>5
  <2> QED BY <2>3, <2>4
<1>7. iter = body(iter)
  <2> HIDE DEF body
  <2> QED BY <1>6
<1> HIDE DEF iter
<1>8. iter[{}] = book
  BY <1>7
<1>9. ASSUME NEW J \in SUBSET K, J # {}
      PROVE  \E s \in J : iter[J] = next(s, iter[J \ {s}])
  <2> HIDE DEF next
  <2> DEFINE s == CHOOSE x \in J : TRUE
  <2>1. s \in J
    BY <1>9
  <2>2. iter[J] = next(s, iter[J \ {s}])
    BY <1>7, <1>9
  <2> HIDE DEF s
  <2> QED BY <2>1, <2>2
<1> QED BY <1>1, <1>8, <1>9

LEMMA SelectionOK ==
  ASSUME BookOK(book), NEW o \in Orders, NEW K \in SUBSET Skus, IsFiniteSet(K),
         NEW answer \in [K -> Suppliers]
  PROVE  AfterSelection(o, answer) \in Books(book)
<1>1. PICK iter :
        /\ AfterSelection(o, answer) = iter[K]
        /\ iter[{}] = book
        /\ \A J \in SUBSET K : J # {} =>
             \E s \in J : iter[J] = Book!AccumulateNeed(iter[J \ {s}], o, s, answer[s])
  BY SelectionLoop
<1>2. ASSUME NEW J \in SUBSET K, J # {}
      PROVE  \E s \in J : iter[J \ {s}] \in Books(book) => iter[J] \in Books(book)
  <2>1. PICK s \in J : iter[J] = Book!AccumulateNeed(iter[J \ {s}], o, s, answer[s])
    BY <1>1, <1>2
  <2> SUFFICES ASSUME iter[J \ {s}] \in Books(book) PROVE iter[J] \in Books(book)
    OBVIOUS
  <2>2. BookOK(iter[J \ {s}]) /\ Keeps(book, iter[J \ {s}])
    BY DEF Books
  <2>3. BookOK(iter[J]) /\ Keeps(iter[J \ {s}], iter[J])
    BY <2>1, <2>2, AccumulateOK
  <2> QED BY <2>2, <2>3, KeepsTransitive DEF Books, BookOK
<1> DEFINE B == Books(book)
<1>3. iter[{}] \in B
  BY <1>1, BooksStart
<1>4. \A J \in SUBSET K : J # {} => \E s \in J : iter[J \ {s}] \in B => iter[J] \in B
  BY <1>2
<1> HIDE DEF B
<1>5. iter[K] \in B
  BY <1>3, <1>4, LoopInto
<1> QED BY <1>1, <1>5 DEF B

-----------------------------------------------------------------------------
(* The lines of the orders.                                                *)

(* A RAG line is a catalog line, so that its SKU decides its supplier, and *)
(* so is every line unless add_draft_item is called; and every line asks   *)
(* for at least one unit.                                                  *)
ItemsFromCatalog ==
  /\ \A i \in items : i.source = "RAG" \/ ~Uncalled =>
       \E k \in Kinds : SameLine(i, k) /\ i.supplier = k.supplier
  /\ \A i \in items : i.cantidad > 0

LEMMA NewItemFromCatalog ==
  ASSUME NEW o, NEW n, NEW k \in Kinds, NEW quantity \in 1 .. MaxQuantity
  PROVE  LET i == NewItem(o, n, k, quantity)
         IN  SameLine(i, k) /\ i.supplier = k.supplier /\ i.cantidad > 0
BY BoundsAssumption DEF NewItem, SameLine

LEMMA ItemsFromCatalogNext ==
  ASSUME ItemsOK, ItemsFromCatalog, [Next]_vars
  PROVE  ItemsFromCatalog'
<1> DEFINE Fine(i) == /\ i.source = "RAG" \/ ~Uncalled =>
                           \E k \in Kinds : SameLine(i, k) /\ i.supplier = k.supplier
                      /\ i.cantidad > 0
<1> SUFFICES \A i \in items' : Fine(i)
  BY DEF ItemsFromCatalog
<1>1. \A i \in items : Fine(i)
  BY DEF ItemsFromCatalog
<1>2. \A o, n : \A k \in Kinds : \A quantity \in 1 .. MaxQuantity : Fine(NewItem(o, n, k, quantity))
  BY NewItemFromCatalog DEF NewItem
<1> HIDE DEF Fine
<1>3. CASE items' \subseteq items
  BY <1>1, <1>3
<1>4. ASSUME NEW o \in Orders, OrderStep(o) PROVE items' \subseteq items \/ \A i \in items' : Fine(i)
  <2>1. CASE PersistFinalizedDraft(o)
    <3>1. PICK lines \in ChatLines(o) : items' = items \cup lines
      BY <2>1 DEF PersistFinalizedDraft
    <3>2. \A i \in lines : Fine(i)
      <4>0. PICK len \in 1 .. MaxLines :
              lines \in { { NewItem(o, n, f[n][1], f[n][2]) : n \in 1 .. len } :
                           f \in [1 .. len -> Kinds \X (1 .. MaxQuantity)] }
        BY <3>1 DEF ChatLines
      <4>1. PICK f \in [1 .. len -> Kinds \X (1 .. MaxQuantity)] :
              lines = { NewItem(o, n, f[n][1], f[n][2]) : n \in 1 .. len }
        BY <4>0
      <4>2. \A n \in 1 .. len : f[n][1] \in Kinds /\ f[n][2] \in 1 .. MaxQuantity
        OBVIOUS
      <4> QED BY <1>2, <4>1, <4>2
    <3> QED BY <1>1, <3>1, <3>2
  <2>2. CASE CreateManualOrder(o)
    <3>1. PICK form \in FormLines : items' = items \cup { NewItem(o, 1, k, form[k]) : k \in DOMAIN form }
      BY <2>2 DEF CreateManualOrder
    <3>2. \A k \in DOMAIN form : k \in Kinds /\ form[k] \in 1 .. MaxQuantity
      BY DEF FormLines
    <3> QED BY <1>1, <1>2, <3>1, <3>2
  <2>3. CASE UpdateManualOrder(o)
    <3>1. PICK form \in FormLines, found \in SUBSET OfOrder(items, o) :
            items' = (items \ found)
                       \cup { [p[1] EXCEPT !.cantidad = form[p[2]]] :
                                p \in { q \in found \X DOMAIN form : SameLine(q[1], q[2]) } }
                       \cup { NewItem(o, 1, k, form[k]) :
                                k \in { l \in DOMAIN form : \A j \in found : ~SameLine(j, l) } }
      BY <2>3 DEF UpdateManualOrder
    <3>2. \A k \in DOMAIN form : k \in Kinds /\ form[k] \in 1 .. MaxQuantity
      BY DEF FormLines
    <3>3. ASSUME NEW i \in found, NEW k \in DOMAIN form
          PROVE  Fine([i EXCEPT !.cantidad = form[k]])
      <4>1. i \in Item /\ Fine(i) /\ form[k] > 0
        BY <1>1, <3>2, BoundsAssumption DEF ItemsOK, OfOrder
      <4>2. LET j == [i EXCEPT !.cantidad = form[k]]
            IN  /\ j.sku = i.sku /\ j.source = i.source /\ j.supplier = i.supplier
                /\ j.cantidad = form[k]
        BY <4>1 DEF Item
      <4> QED BY <4>1, <4>2 DEF Fine, SameLine
    <3> QED BY <1>1, <1>2, <3>1, <3>2, <3>3
  <2>4. CASE AddDraftItem(o)
    <3>1. PICK s \in Skus, quantity \in 1 .. MaxQuantity :
            \/ items' = items \cup
                 {NewItem(o, 1, [sku |-> s, source |-> "LOCAL", supplier |-> NoSupplier], quantity)}
            \/ \E i \in OfSku(OfOrder(items, o), s) :
                 items' = (items \ {i}) \cup {[i EXCEPT !.cantidad = @ + quantity]}
      BY <2>4 DEF AddDraftItem
    <3>2. Fine(NewItem(o, 1, [sku |-> s, source |-> "LOCAL", supplier |-> NoSupplier], quantity))
      BY <2>4, BoundsAssumption DEF AddDraftItem, Fine, NewItem
    <3>3. ASSUME NEW i \in OfSku(OfOrder(items, o), s)
          PROVE  Fine([i EXCEPT !.cantidad = @ + quantity])
      <4>1. i \in Item /\ Fine(i) /\ quantity \in Nat
        BY <1>1, BoundsAssumption DEF ItemsOK, OfOrder, OfSku
      <4>2. LET j == [i EXCEPT !.cantidad = @ + quantity]
            IN  /\ j.sku = i.sku /\ j.source = i.source /\ j.supplier = i.supplier
                /\ j.cantidad = i.cantidad + quantity /\ i.cantidad \in Nat
        BY <4>1 DEF Item
      <4> QED BY <4>1, <4>2 DEF Fine, SameLine
    <3> QED BY <1>1, <3>1, <3>2, <3>3
  <2>5. CASE RemoveDraftItem(o) \/ TTLRunsOut(o) \/ ExpireReservations(o) \/ ConfirmSelection(o)
    BY <2>5 DEF RemoveDraftItem, TTLRunsOut, ExpireReservations, ConfirmSelection, orderVars
  <2>6. ASSUME NEW withSuppliers, Confirm(o, withSuppliers) PROVE items' = items
    BY <2>6 DEF Confirm, ConfirmCaseA, ConfirmCaseB, ConfirmCaseC
  <2>7. CASE StartPicking(o) \/ CompletePicking(o) \/ DeliverOrder(o)
    BY <2>7 DEF StartPicking, CompletePicking, DeliverOrder, Advance
  <2>8. CASE CancelBeforePicking(o) \/ CancelLate(o) \/ ModifyOrder(o)
    BY <2>8 DEF CancelBeforePicking, CancelLate, Cancel, ModifyOrder
  <2> QED BY <1>4, <2>1, <2>2, <2>3, <2>4, <2>5, <2>6, <2>7, <2>8 DEF OrderStep, Confirm
<1>5. ASSUME NEW p \in Suppliers, PurchaseStep(p) PROVE items' = items
  BY <1>5 DEF PurchaseStep, ToggleSupplier, SendPO, CancelPO, ReceivePO, orderVars
<1>6. ASSUME NEW s \in Skus, NEW n, AdjustStock(s, n) PROVE items' = items
  BY <1>6 DEF AdjustStock, orderVars
<1>7. SweepExpired \/ RecomputePendingConversion \/ UNCHANGED vars => items' = items
  BY DEF SweepExpired, RecomputePendingConversion, vars, orderVars
<1> QED BY <1>3, <1>4, <1>5, <1>6, <1>7 DEF Next

(* The SKUs of an order's lines are finitely many.                         *)
LEMMA LineSkus ==
  ASSUME ItemsOK, NEW o
  PROVE  /\ IsFiniteSet(AutoSourcedSkus(o)) /\ AutoSourcedSkus(o) \subseteq Skus
         /\ IsFiniteSet(MissingSkus(o)) /\ MissingSkus(o) \subseteq Skus
<1> DEFINE skuOf == [i \in items |-> i.sku]
           all == { skuOf[i] : i \in items }
<1>1. IsFiniteSet(all)
  <2>1. IsFiniteSet(items)
    BY DEF ItemsOK
  <2> QED BY <2>1, ImageFinite
<1>2. all \subseteq Skus
  BY DEF ItemsOK, Item
<1>3. \A i \in items : i.sku \in all
  OBVIOUS
<1> HIDE DEF all
<1>4. AutoSourcedSkus(o) \in SUBSET all
  BY <1>3 DEF AutoSourcedSkus, AutoSourced, RagItems, OfOrder
<1>5. \A i \in Classified(o) : i.sku \in all
  BY <1>3 DEF Classified, LocalItems, RagItems, OfOrder, NewItem
<1>6. MissingSkus(o) \in SUBSET all
  BY <1>5 DEF MissingSkus, Missing
<1> QED BY <1>1, <1>2, <1>4, <1>6, FS_Subset

LEMMA RagQuantityOK ==
  ASSUME ItemsOK, NEW o, NEW s
  PROVE  RagQuantity(o, s) \in Nat
<1>1. OfSku(RagItems(o), s) \in SUBSET items
  BY DEF OfSku, RagItems, OfOrder
<1>2. Rows(items)
  BY DEF ItemsOK, Rows, Item
<1>3. Rows(OfSku(RagItems(o), s))
  BY <1>1, <1>2, RowsSubset
<1> QED BY <1>3, QuantityNat DEF RagQuantity

(* The SKU of an auto-sourced line decides its supplier.                   *)
LEMMA SupplierFound ==
  ASSUME ItemsOK, ItemsFromCatalog, NEW o, NEW s \in AutoSourcedSkus(o)
  PROVE  SupplierOfSku(o, s) \in Suppliers
<1>1. PICK i \in RagItems(o) : i.supplier \in Suppliers /\ i.sku = s
  BY DEF AutoSourcedSkus, AutoSourced
<1> DEFINE j == CHOOSE j \in OfSku(RagItems(o), s) : TRUE
<1>2. j \in RagItems(o) /\ j.sku = s
  BY <1>1 DEF OfSku
<1> HIDE DEF j
<1>3. \A r \in RagItems(o) : r \in items /\ r.source = "RAG"
  BY DEF RagItems, LocalItems, OfOrder, ItemsOK, Item
<1>4. PICK k \in Kinds : SameLine(i, k) /\ i.supplier = k.supplier
  BY <1>1, <1>3 DEF ItemsFromCatalog
<1>5. PICK l \in Kinds : SameLine(j, l) /\ j.supplier = l.supplier
  BY <1>2, <1>3 DEF ItemsFromCatalog
<1>6. k = l
  BY <1>1, <1>2, <1>3, <1>4, <1>5, KindsAssumption DEF SameLine
<1> QED BY <1>1, <1>4, <1>5, <1>6 DEF SupplierOfSku, j

(* What a missing line lacks is a positive quantity.                       *)
LEMMA GapOK ==
  ASSUME OrderInv, NEW o, NEW i \in Missing(o)
  PROVE  Gap(o, i) \in Nat /\ Gap(o, i) > 0
<1>1. i.cantidad \in Nat /\ i.sku \in Skus
  <2>1. CASE i \in LocalItems(o)
    BY <2>1 DEF LocalItems, OfOrder, OrderInv, ItemsOK, Item
  <2>2. CASE i \notin LocalItems(o)
    <3>1. PICK s \in { j.sku : j \in RagItems(o) } :
            i = NewItem(o, 0, [sku |-> s, source |-> "RAG", supplier |-> NoSupplier], RagQuantity(o, s))
      BY <2>2 DEF Missing, Classified
    <3>2. RagQuantity(o, s) \in Nat
      BY RagQuantityOK DEF OrderInv
    <3>3. s \in Skus
      BY DEF RagItems, OfOrder, OrderInv, ItemsOK, Item
    <3> QED BY <3>1, <3>2, <3>3 DEF NewItem
  <2> QED BY <2>1, <2>2
<1>2. AvailabilityForOrder(o, i.sku) \in Int
  <2>1. onHand[i.sku] \in Int /\ Quantity(LiveLocks(i.sku)) \in Nat
    BY <1>1, LedgerSums DEF OrderInv, LedgerInv
  <2>2. OfSku(OfOrder(active, o), i.sku) \in SUBSET active
    BY DEF OfSku, OfOrder
  <2>3. Quantity(OfSku(OfOrder(active, o), i.sku)) \in Nat
    BY <2>2, FS_Subset, ReservationRows DEF OrderInv, LedgerInv, LedgerTypeOK
  <2> QED BY <2>1, <2>3 DEF AvailabilityForOrder, Available
<1>3. Gap(o, i) > 0
  BY DEF Missing
<1> QED BY <1>1, <1>2, <1>3 DEF Gap

-----------------------------------------------------------------------------
(* The loops of a confirmation.                                            *)
LEMMA AutoSourceLoop ==
  ASSUME OrderInv, ItemsFromCatalog, BookOK(book), NEW o \in Orders
  PROVE  \E iter :
           /\ AfterAutoSource(o) = iter[AutoSourcedSkus(o)]
           /\ iter[{}] = book
           /\ \A J \in SUBSET AutoSourcedSkus(o) : J # {} =>
                \E s \in J : iter[J] = Book!AccumulateNeed(UpsertRag(iter[J \ {s}], o, s),
                                                           o, s, SupplierOfSku(o, s))
<1> DEFINE K == AutoSourcedSkus(o)
           B == Books(book)
           next(s, b) == Book!AccumulateNeed(UpsertRag(b, o, s), o, s, SupplierOfSku(o, s))
           op == [q \in K \X B |-> next(q[1], q[2])]
           body(g) == [J \in SUBSET K |->
                         IF J = {} THEN book
                         ELSE next(CHOOSE x \in J : TRUE, g[J \ {CHOOSE x \in J : TRUE}])]
           iter == CHOOSE g : g = body(g)
<1>1. AfterAutoSource(o) = iter[K]
  BY DEF AfterAutoSource, Folding!FoldSet, Folding!MapThenFoldSet
<1>2. ASSUME NEW s \in K, NEW b \in B PROVE next(s, b) \in B
  <2>1. SupplierOfSku(o, s) \in Suppliers /\ RagQuantity(o, s) \in Nat /\ s \in Skus
    BY SupplierFound, RagQuantityOK, LineSkus DEF OrderInv
  <2>2. BookOK(b) /\ Keeps(book, b)
    BY DEF Books
  <2>3. BookOK(UpsertRag(b, o, s)) /\ Keeps(b, UpsertRag(b, o, s))
    BY <2>1, <2>2, UpsertNeedOK DEF UpsertRag
  <2>4. BookOK(next(s, b)) /\ Keeps(UpsertRag(b, o, s), next(s, b))
    BY <2>1, <2>3, AccumulateOK
  <2> HIDE DEF next
  <2> QED BY <2>2, <2>3, <2>4, KeepsTransitive DEF Books, BookOK
<1>3. book \in B
  BY BooksStart
<1>4. IsFiniteSet(K)
  BY LineSkus DEF OrderInv
<1> HIDE DEF B, K
<1>5. \A s \in K, b \in B : op[<<s, b>>] = next(s, b) /\ op[<<s, b>>] \in B
  <2> HIDE DEF next
  <2> QED BY <1>2
<1> HIDE DEF op
<1>6. PICK g \in [SUBSET K -> B] : Loop(g, K, book, op)
  BY <1>3, <1>4, <1>5, LoopExists
<1>7. g = body(g)
  <2> HIDE DEF next
  <2>1. \A J \in SUBSET K : J # {} => /\ (CHOOSE x \in J : TRUE) \in K
                                      /\ g[J \ {CHOOSE x \in J : TRUE}] \in B
    OBVIOUS
  <2>2. \A J \in SUBSET K : J # {} =>
          op[<<CHOOSE x \in J : TRUE, g[J \ {CHOOSE x \in J : TRUE}]>>]
            = next(CHOOSE x \in J : TRUE, g[J \ {CHOOSE x \in J : TRUE}])
    BY <1>5, <2>1
  <2>3. ASSUME NEW J \in SUBSET K
        PROVE  g[J] = IF J = {} THEN book
                      ELSE next(CHOOSE x \in J : TRUE, g[J \ {CHOOSE x \in J : TRUE}])
    <3>1. g[J] = IF J = {} THEN book
                 ELSE op[<<CHOOSE x \in J : TRUE, g[J \ {CHOOSE x \in J : TRUE}]>>]
      BY <1>6 DEF Loop
    <3> QED BY <2>2, <3>1
  <2>4. g = [J \in SUBSET K |-> g[J]]
    BY <1>6
  <2> QED BY <2>3, <2>4
<1>8. iter = body(iter)
  <2> HIDE DEF body
  <2> QED BY <1>7
<1> HIDE DEF iter
<1>9. iter[{}] = book
  BY <1>8
<1>10. ASSUME NEW J \in SUBSET K, J # {}
       PROVE  \E s \in J : iter[J] = next(s, iter[J \ {s}])
  <2> HIDE DEF next
  <2> DEFINE s == CHOOSE x \in J : TRUE
  <2>1. s \in J
    BY <1>10
  <2>2. iter[J] = next(s, iter[J \ {s}])
    BY <1>8, <1>10
  <2> HIDE DEF s
  <2> QED BY <2>1, <2>2
<1> QED BY <1>1, <1>9, <1>10 DEF K

LEMMA AutoSourceOK ==
  ASSUME OrderInv, ItemsFromCatalog, BookOK(book), NEW o \in Orders
  PROVE  AfterAutoSource(o) \in Books(book)
<1> DEFINE K == AutoSourcedSkus(o)
           B == Books(book)
<1>1. PICK iter :
        /\ AfterAutoSource(o) = iter[K]
        /\ iter[{}] = book
        /\ \A J \in SUBSET K : J # {} =>
             \E s \in J : iter[J] = Book!AccumulateNeed(UpsertRag(iter[J \ {s}], o, s),
                                                        o, s, SupplierOfSku(o, s))
  BY AutoSourceLoop
<1>2. ASSUME NEW J \in SUBSET K, J # {}
      PROVE  \E s \in J : iter[J \ {s}] \in B => iter[J] \in B
  <2>1. PICK s \in J : iter[J] = Book!AccumulateNeed(UpsertRag(iter[J \ {s}], o, s),
                                                     o, s, SupplierOfSku(o, s))
    BY <1>1, <1>2
  <2> SUFFICES ASSUME iter[J \ {s}] \in B PROVE iter[J] \in B
    OBVIOUS
  <2> DEFINE b == iter[J \ {s}]
  <2>2. SupplierOfSku(o, s) \in Suppliers /\ RagQuantity(o, s) \in Nat /\ s \in Skus
    BY SupplierFound, RagQuantityOK, LineSkus DEF OrderInv
  <2>3. BookOK(b) /\ Keeps(book, b)
    BY DEF Books
  <2>4. BookOK(UpsertRag(b, o, s)) /\ Keeps(b, UpsertRag(b, o, s))
    BY <2>2, <2>3, UpsertNeedOK DEF UpsertRag
  <2>5. BookOK(iter[J]) /\ Keeps(UpsertRag(b, o, s), iter[J])
    BY <2>1, <2>2, <2>4, AccumulateOK
  <2> QED BY <2>3, <2>4, <2>5, KeepsTransitive DEF Books, BookOK
<1>3. iter[{}] \in B
  BY <1>1, BooksStart
<1>4. IsFiniteSet(K)
  BY LineSkus DEF OrderInv
<1> HIDE DEF B, K
<1>5. iter[K] \in B
  BY <1>2, <1>3, <1>4, LoopInto
<1> QED BY <1>1, <1>5 DEF B

(* The needs of Case B are written after the auto-sourcing.                *)
LEMMA NeedsLoop ==
  ASSUME OrderInv, ItemsFromCatalog, BookOK(book), NEW o \in Orders,
         NEW last \in [MissingSkus(o) -> Missing(o)]
  PROVE  \E iter :
           /\ AfterNeeds(o, last) = iter[MissingSkus(o)]
           /\ iter[{}] = AfterAutoSource(o)
           /\ \A J \in SUBSET MissingSkus(o) : J # {} =>
                \E s \in J : iter[J] = Book!UpsertNeed(iter[J \ {s}], o, s, Gap(o, last[s]))
<1> DEFINE K == MissingSkus(o)
           B == Books(book)
           next(s, b) == Book!UpsertNeed(b, o, s, Gap(o, last[s]))
           op == [q \in K \X B |-> next(q[1], q[2])]
           body(g) == [J \in SUBSET K |->
                         IF J = {} THEN AfterAutoSource(o)
                         ELSE next(CHOOSE x \in J : TRUE, g[J \ {CHOOSE x \in J : TRUE}])]
           iter == CHOOSE g : g = body(g)
<1>1. AfterNeeds(o, last) = iter[K]
  BY DEF AfterNeeds, Folding!FoldSet, Folding!MapThenFoldSet
<1>2. ASSUME NEW s \in K, NEW b \in B PROVE next(s, b) \in B
  <2>1. Gap(o, last[s]) \in Nat /\ s \in Skus
    BY GapOK, LineSkus DEF OrderInv
  <2>2. BookOK(b) /\ Keeps(book, b)
    BY DEF Books
  <2>3. BookOK(next(s, b)) /\ Keeps(b, next(s, b))
    BY <2>1, <2>2, UpsertNeedOK
  <2> HIDE DEF next
  <2> QED BY <2>2, <2>3, KeepsTransitive DEF Books, BookOK
<1>3. AfterAutoSource(o) \in B
  BY AutoSourceOK
<1>4. IsFiniteSet(K)
  BY LineSkus DEF OrderInv
<1> HIDE DEF B, K
<1>5. \A s \in K, b \in B : op[<<s, b>>] = next(s, b) /\ op[<<s, b>>] \in B
  <2> HIDE DEF next
  <2> QED BY <1>2
<1> HIDE DEF op
<1>6. PICK g \in [SUBSET K -> B] : Loop(g, K, AfterAutoSource(o), op)
  BY <1>3, <1>4, <1>5, LoopExists
<1>7. g = body(g)
  <2> HIDE DEF next
  <2>1. \A J \in SUBSET K : J # {} => /\ (CHOOSE x \in J : TRUE) \in K
                                      /\ g[J \ {CHOOSE x \in J : TRUE}] \in B
    OBVIOUS
  <2>2. \A J \in SUBSET K : J # {} =>
          op[<<CHOOSE x \in J : TRUE, g[J \ {CHOOSE x \in J : TRUE}]>>]
            = next(CHOOSE x \in J : TRUE, g[J \ {CHOOSE x \in J : TRUE}])
    BY <1>5, <2>1
  <2>3. ASSUME NEW J \in SUBSET K
        PROVE  g[J] = IF J = {} THEN AfterAutoSource(o)
                      ELSE next(CHOOSE x \in J : TRUE, g[J \ {CHOOSE x \in J : TRUE}])
    <3>1. g[J] = IF J = {} THEN AfterAutoSource(o)
                 ELSE op[<<CHOOSE x \in J : TRUE, g[J \ {CHOOSE x \in J : TRUE}]>>]
      BY <1>6 DEF Loop
    <3> QED BY <2>2, <3>1
  <2>4. g = [J \in SUBSET K |-> g[J]]
    BY <1>6
  <2> QED BY <2>3, <2>4
<1>8. iter = body(iter)
  <2> HIDE DEF body
  <2> QED BY <1>7
<1> HIDE DEF iter
<1>9. iter[{}] = AfterAutoSource(o)
  BY <1>8
<1>10. ASSUME NEW J \in SUBSET K, J # {}
       PROVE  \E s \in J : iter[J] = next(s, iter[J \ {s}])
  <2> HIDE DEF next
  <2> DEFINE s == CHOOSE x \in J : TRUE
  <2>1. s \in J
    BY <1>10
  <2>2. iter[J] = next(s, iter[J \ {s}])
    BY <1>8, <1>10
  <2> HIDE DEF s
  <2> QED BY <2>1, <2>2
<1> QED BY <1>1, <1>9, <1>10 DEF K

LEMMA NeedsOK ==
  ASSUME OrderInv, ItemsFromCatalog, BookOK(book), NEW o \in Orders,
         NEW last \in [MissingSkus(o) -> Missing(o)]
  PROVE  AfterNeeds(o, last) \in Books(book)
<1> DEFINE K == MissingSkus(o)
           B == Books(book)
<1>1. PICK iter :
        /\ AfterNeeds(o, last) = iter[K]
        /\ iter[{}] = AfterAutoSource(o)
        /\ \A J \in SUBSET K : J # {} =>
             \E s \in J : iter[J] = Book!UpsertNeed(iter[J \ {s}], o, s, Gap(o, last[s]))
  BY NeedsLoop
<1>2. ASSUME NEW J \in SUBSET K, J # {}
      PROVE  \E s \in J : iter[J \ {s}] \in B => iter[J] \in B
  <2>1. PICK s \in J : iter[J] = Book!UpsertNeed(iter[J \ {s}], o, s, Gap(o, last[s]))
    BY <1>1, <1>2
  <2> SUFFICES ASSUME iter[J \ {s}] \in B PROVE iter[J] \in B
    OBVIOUS
  <2>2. Gap(o, last[s]) \in Nat /\ s \in Skus
    BY GapOK, LineSkus DEF OrderInv
  <2>3. BookOK(iter[J \ {s}]) /\ Keeps(book, iter[J \ {s}])
    BY DEF Books
  <2>4. BookOK(iter[J]) /\ Keeps(iter[J \ {s}], iter[J])
    BY <2>1, <2>2, <2>3, UpsertNeedOK
  <2> QED BY <2>3, <2>4, KeepsTransitive DEF Books, BookOK
<1>3. iter[{}] \in B
  BY <1>1, AutoSourceOK
<1>4. IsFiniteSet(K)
  BY LineSkus DEF OrderInv
<1> HIDE DEF B, K
<1>5. iter[K] \in B
  BY <1>2, <1>3, <1>4, LoopInto
<1> QED BY <1>1, <1>5 DEF B

-----------------------------------------------------------------------------
(* The whole order machine.                                                *)
OfferedOK ==
  /\ offered \in [Orders -> SUBSET Skus]
  /\ \A o \in Orders : IsFiniteSet(offered[o])

PurchasingInv == OrderInv /\ ItemsFromCatalog /\ OfferedOK /\ BookOK(book)

LEMMA OfferedOKNext ==
  ASSUME OrderInv, OfferedOK, [Next]_vars
  PROVE  OfferedOK'
<1>1. ASSUME NEW o \in Orders, OrderStep(o) PROVE OfferedOK'
  <2>1. CASE \/ PersistFinalizedDraft(o) \/ CreateManualOrder(o) \/ UpdateManualOrder(o)
             \/ RemoveDraftItem(o) \/ AddDraftItem(o)
    BY <2>1 DEF PersistFinalizedDraft, CreateManualOrder, UpdateManualOrder, RemoveDraftItem,
                AddDraftItem, OfferedOK
  <2>2. CASE TTLRunsOut(o) \/ ExpireReservations(o) \/ ConfirmSelection(o)
    BY <2>2 DEF TTLRunsOut, ExpireReservations, ConfirmSelection, orderVars, OfferedOK
  <2>3. ASSUME NEW withSuppliers, Confirm(o, withSuppliers) PROVE OfferedOK'
    <3>1. \/ UNCHANGED offered
          \/ offered' = [offered EXCEPT ![o] = MissingSkus(o) \cap withSuppliers]
      BY <2>3 DEF Confirm, ConfirmCaseA, ConfirmCaseB, ConfirmCaseC, OfferSuppliers
    <3>2. MissingSkus(o) \cap withSuppliers \in SUBSET MissingSkus(o)
      OBVIOUS
    <3>3. IsFiniteSet(MissingSkus(o) \cap withSuppliers) /\ MissingSkus(o) \cap withSuppliers \subseteq Skus
      BY <3>2, LineSkus, FS_Subset DEF OrderInv
    <3> QED BY <3>1, <3>3 DEF OfferedOK
  <2>4. CASE StartPicking(o) \/ CompletePicking(o) \/ DeliverOrder(o)
    BY <2>4 DEF StartPicking, CompletePicking, DeliverOrder, Advance, OfferedOK
  <2>5. CASE CancelBeforePicking(o) \/ CancelLate(o) \/ ModifyOrder(o)
    BY <2>5 DEF CancelBeforePicking, CancelLate, Cancel, ModifyOrder, OfferedOK
  <2> QED BY <1>1, <2>1, <2>2, <2>3, <2>4, <2>5 DEF OrderStep, Confirm
<1>2. ASSUME NEW p \in Suppliers, PurchaseStep(p) PROVE UNCHANGED offered
  BY <1>2 DEF PurchaseStep, ToggleSupplier, SendPO, CancelPO, ReceivePO, orderVars
<1>3. ASSUME NEW s \in Skus, NEW n, AdjustStock(s, n) PROVE UNCHANGED offered
  BY <1>3 DEF AdjustStock, orderVars
<1>4. SweepExpired \/ RecomputePendingConversion \/ UNCHANGED vars => UNCHANGED offered
  BY DEF SweepExpired, RecomputePendingConversion, vars, orderVars
<1> QED BY <1>1, <1>2, <1>3, <1>4 DEF Next, OfferedOK

(* What a step of an order does to the purchase orders.                    *)
LEMMA OrderStepBook ==
  ASSUME PurchasingInv, NEW o \in Orders, OrderStep(o)
  PROVE  BookOK(book') /\ Keeps(book, book')
<1> USE DEF PurchasingInv
<1>1. CASE UNCHANGED book
  BY <1>1 DEF Keeps
<1>2. CASE \/ PersistFinalizedDraft(o) \/ CreateManualOrder(o) \/ UpdateManualOrder(o)
           \/ RemoveDraftItem(o) \/ AddDraftItem(o) \/ TTLRunsOut(o) \/ ExpireReservations(o)
  BY <1>1, <1>2 DEF PersistFinalizedDraft, CreateManualOrder, UpdateManualOrder, RemoveDraftItem,
                    AddDraftItem, TTLRunsOut, ExpireReservations
<1>3. ASSUME NEW withSuppliers, ConfirmCaseA(o, withSuppliers) PROVE BookOK(book') /\ Keeps(book, book')
  <2>1. book' = AfterAutoSource(o)
    BY <1>3 DEF ConfirmCaseA
  <2> QED BY <2>1, AutoSourceOK DEF Books
<1>4. ASSUME NEW withSuppliers, ConfirmCaseB(o, withSuppliers) PROVE BookOK(book') /\ Keeps(book, book')
  <2>1. PICK last \in [MissingSkus(o) -> Missing(o)] : book' = AfterNeeds(o, last)
    BY <1>4 DEF ConfirmCaseB
  <2> QED BY <2>1, NeedsOK DEF Books
<1>5. ASSUME NEW withSuppliers, ConfirmCaseC(o, withSuppliers) PROVE BookOK(book') /\ Keeps(book, book')
  <2>1. book' = Book!ReleaseOrderNeeds(AfterAutoSource(o), o)
    BY <1>5 DEF ConfirmCaseC
  <2>2. BookOK(AfterAutoSource(o)) /\ Keeps(book, AfterAutoSource(o))
    BY AutoSourceOK DEF Books
  <2>3. BookOK(book') /\ Keeps(AfterAutoSource(o), book')
    BY <2>1, <2>2, ReleaseOK
  <2> QED BY <2>2, <2>3, KeepsTransitive
<1>6. CASE ConfirmSelection(o)
  <2>0. PICK K \in SUBSET offered[o] : \E answer \in [K -> Suppliers] : book' = AfterSelection(o, answer)
    BY <1>6 DEF ConfirmSelection
  <2>1. PICK answer \in [K -> Suppliers] : book' = AfterSelection(o, answer)
    BY <2>0
  <2>2. K \in SUBSET Skus /\ IsFiniteSet(K)
    BY FS_Subset DEF OfferedOK
  <2> QED BY <2>1, <2>2, SelectionOK DEF Books
<1>7. CASE StartPicking(o) \/ CompletePicking(o) \/ DeliverOrder(o) \/ ModifyOrder(o)
  BY <1>1, <1>7 DEF StartPicking, CompletePicking, DeliverOrder, Advance, ModifyOrder
<1>8. CASE CancelBeforePicking(o) \/ CancelLate(o)
  <2>1. book' = Book!ReleaseOrderNeeds(book, o)
    BY <1>8 DEF CancelBeforePicking, CancelLate, Cancel
  <2> QED BY <2>1, ReleaseOK
<1> QED BY <1>2, <1>3, <1>4, <1>5, <1>6, <1>7, <1>8 DEF OrderStep

LEMMA BookNext ==
  ASSUME PurchasingInv, [Next]_vars
  PROVE  BookOK(book') /\ Frozen(book, book')
<1> USE DEF PurchasingInv
<1>1. CASE UNCHANGED book
  BY <1>1 DEF Frozen
<1>2. ASSUME NEW o \in Orders, OrderStep(o) PROVE BookOK(book') /\ Frozen(book, book')
  BY <1>2, OrderStepBook, KeepsFrozen
<1>3. ASSUME NEW p \in Suppliers, PurchaseStep(p) PROVE BookOK(book') /\ Frozen(book, book')
  <2>1. CASE ToggleSupplier(p)
    BY <1>1, <2>1 DEF ToggleSupplier
  <2>2. ASSUME NEW n \in DOMAIN book.pos[p], SendPO(p, n) \/ CancelPO(p, n)
        PROVE  BookOK(book') /\ Frozen(book, book')
    <3>1. CASE SendPO(p, n)
      <4>1. Book!CanSend(book, p, n) /\ book' = [book EXCEPT !.pos[p][n].estado = "SENT"]
        BY <3>1 DEF SendPO, Book!SendPO
      <4> QED BY <4>1, SendOK
    <3>2. CASE CancelPO(p, n)
      <4>1. Book!CanCancel(book, p, n) /\ book' = [book EXCEPT !.pos[p][n].estado = "CANCELLED"]
        BY <3>2 DEF CancelPO, Book!CancelPO
      <4> QED BY <4>1, SendOK
    <3> QED BY <2>2, <3>1, <3>2
  <2>3. ASSUME NEW n \in DOMAIN book.pos[p], NEW s \in Skus, NEW quantity \in 1 .. MaxQuantity,
               ReceivePO(p, n, s, quantity)
        PROVE  BookOK(book') /\ Frozen(book, book')
    BY <2>3, ReceiveOK, BoundsAssumption DEF ReceivePO
  <2> QED BY <1>3, <2>1, <2>2, <2>3 DEF PurchaseStep
<1>4. ASSUME NEW s \in Skus, NEW n, AdjustStock(s, n) PROVE UNCHANGED book
  BY <1>4 DEF AdjustStock
<1>5. SweepExpired \/ RecomputePendingConversion \/ UNCHANGED vars => UNCHANGED book
  BY DEF SweepExpired, RecomputePendingConversion, vars
<1> QED BY <1>1, <1>2, <1>3, <1>4, <1>5 DEF Next

LEMMA PurchasingInvInit == Init => PurchasingInv
<1> SUFFICES ASSUME Init PROVE PurchasingInv
  OBVIOUS
<1>1. OrderInv
  BY OrderInvInit
<1>2. ItemsFromCatalog
  BY DEF Init, ItemsFromCatalog
<1>3. OfferedOK
  BY FS_EmptySet DEF Init, OfferedOK
<1>4. BookOK(book)
  <2>1. book = Book!EmptyBook
    BY DEF Init
  <2>2. Book!NoNeed \in Book!Need /\ Book!NoNeed.link = 0
    BY DEF Book!NoNeed, Book!Need
  <2> QED BY <2>1, <2>2 DEF Book!EmptyBook, BookOK, BookType, LinkOK, Book!OpenPOs
<1> QED BY <1>1, <1>2, <1>3, <1>4 DEF PurchasingInv

LEMMA PurchasingInvNext == PurchasingInv /\ [Next]_vars => PurchasingInv'
<1> SUFFICES ASSUME PurchasingInv, [Next]_vars PROVE PurchasingInv'
  OBVIOUS
<1>1. OrderInv'
  BY OrderInvNext DEF PurchasingInv
<1>2. ItemsFromCatalog'
  BY ItemsFromCatalogNext DEF PurchasingInv, OrderInv
<1>3. OfferedOK'
  BY OfferedOKNext DEF PurchasingInv
<1>4. BookOK(book)'
  <2>1. BookOK(book')
    BY BookNext
  <2> QED BY <2>1 DEF BookOK, LinkOK, Book!OpenPOs
<1> QED BY <1>1, <1>2, <1>3, <1>4 DEF PurchasingInv

THEOREM PurchasingSafe == Spec => []PurchasingInv
<1> QED BY PurchasingInvInit, PurchasingInvNext, PTL DEF Spec

(* The owner is never asked to send two purchase orders to one supplier    *)
(* at a time (open_or_create_po).                                          *)
THEOREM OneOpenPO == Spec => []OneOpenPOPerSupplier
<1>1. PurchasingInv => OneOpenPOPerSupplier
  <2> SUFFICES ASSUME BookOK(book), NEW p \in Suppliers
               PROVE  Cardinality(Book!OpenPOs(book, p)) <= 1
    BY DEF PurchasingInv, OneOpenPOPerSupplier
  <2>1. \A m, n \in Book!OpenPOs(book, p) : m = n
    BY DEF BookOK
  <2>2. CASE Book!OpenPOs(book, p) = {}
    <3>1. Cardinality({}) = 0
      BY FS_EmptySet
    <3> QED BY <2>2, <3>1
  <2>3. CASE Book!OpenPOs(book, p) # {}
    <3>1. PICK n \in Book!OpenPOs(book, p) : TRUE
      BY <2>3
    <3>2. Book!OpenPOs(book, p) = {n}
      BY <2>1, <3>1
    <3>3. Cardinality({n}) = 1
      BY FS_Singleton
    <3> QED BY <3>2, <3>3
  <2> QED BY <2>2, <2>3
<1> QED BY <1>1, PurchasingSafe, PTL

(* A supplier is never credited with more than was ordered, and the state  *)
(* of a purchase order tells the truth about what is still due.            *)
THEOREM ReceiptsNeverExceed == Spec => []ReceiptsAddUp
<1>1. PurchasingInv => ReceiptsAddUp
  BY DEF PurchasingInv, BookOK, PurchaseOrderOK, ReceiptsAddUp, PO
<1> QED BY <1>1, PurchasingSafe, PTL

(* No order ever changes what a supplier was already asked for.            *)
THEOREM AskedStaysAsked == Spec => ExecutedPOFrozen
<1> DEFINE Stays == \A p \in Suppliers : \A n \in PO(p) :
                      book.pos[p][n].estado # "OPEN" =>
                        book'.pos[p][n].quantity = book.pos[p][n].quantity
<1>1. PurchasingInv /\ [Next]_vars => [Stays]_vars
  BY BookNext DEF Frozen, PO
<1> HIDE DEF Stays
<1>2. Spec => [][Stays]_vars
  BY <1>1, PurchasingSafe, PTL DEF Spec
<1> QED BY <1>2 DEF ExecutedPOFrozen, Stays

-----------------------------------------------------------------------------
(* Type correctness: what the invariant above does not already say.        *)
RestOK ==
  /\ needsRequote \subseteq Orders
  /\ conversionPending \subseteq Orders
  /\ sourcing \in [Orders -> SourcingState]
  /\ inactivo \subseteq Suppliers

LEMMA RestOKNext ==
  ASSUME RestOK, [Next]_vars
  PROVE  RestOK'
<1> USE DEF RestOK, SourcingState
<1>1. ASSUME NEW o \in Orders, OrderStep(o) PROVE RestOK'
  <2>1. CASE \/ PersistFinalizedDraft(o) \/ CreateManualOrder(o) \/ UpdateManualOrder(o)
             \/ RemoveDraftItem(o) \/ AddDraftItem(o)
    BY <2>1 DEF PersistFinalizedDraft, CreateManualOrder, UpdateManualOrder, RemoveDraftItem, AddDraftItem
  <2>2. CASE TTLRunsOut(o) \/ ExpireReservations(o)
    BY <2>2 DEF TTLRunsOut, ExpireReservations, orderVars
  <2>3. ASSUME NEW withSuppliers, Confirm(o, withSuppliers) PROVE RestOK'
    BY <2>3 DEF Confirm, ConfirmCaseA, ConfirmCaseB, ConfirmCaseC
  <2>4. CASE ConfirmSelection(o)
    BY <2>4 DEF ConfirmSelection
  <2>5. CASE StartPicking(o) \/ CompletePicking(o) \/ DeliverOrder(o)
    BY <2>5 DEF StartPicking, CompletePicking, DeliverOrder, Advance
  <2>6. CASE CancelBeforePicking(o) \/ CancelLate(o) \/ ModifyOrder(o)
    BY <2>6 DEF CancelBeforePicking, CancelLate, Cancel, ModifyOrder
  <2> QED BY <1>1, <2>1, <2>2, <2>3, <2>4, <2>5, <2>6 DEF OrderStep, Confirm
<1>2. ASSUME NEW p \in Suppliers, PurchaseStep(p) PROVE RestOK'
  BY <1>2 DEF PurchaseStep, ToggleSupplier, SendPO, CancelPO, ReceivePO, orderVars
<1>3. ASSUME NEW s \in Skus, NEW n, AdjustStock(s, n) PROVE RestOK'
  BY <1>3 DEF AdjustStock, orderVars
<1>4. CASE SweepExpired
  BY <1>4 DEF SweepExpired
<1>5. CASE RecomputePendingConversion
  BY <1>5 DEF RecomputePendingConversion
<1>6. CASE UNCHANGED vars
  BY <1>6 DEF vars, orderVars
<1> QED BY <1>1, <1>2, <1>3, <1>4, <1>5, <1>6 DEF Next

(* Every variable of the order machine keeps its type.                     *)
THEOREM OrdersTyped == Spec => []TypeOK
<1>1. Init => RestOK /\ RegisteredOK
  BY DEF Init, RestOK, SourcingState, RegisteredOK
<1>2. RestOK /\ RegisteredOK /\ [Next]_vars => RestOK' /\ RegisteredOK'
  BY RestOKNext, RegisteredBy
<1>3. PurchasingInv /\ RestOK /\ RegisteredOK => TypeOK
  BY DEF PurchasingInv, OrderInv, LedgerInv, ItemsOK, EstadoOK, OfferedOK, BookOK, BookType,
         RestOK, RegisteredOK, TypeOK
<1> QED BY <1>1, <1>2, <1>3, PurchasingSafe, PTL DEF Spec

-----------------------------------------------------------------------------
(* What the functions write, item by item.                                 *)

(* c has the purchase orders of b, in their states, and perhaps new ones.  *)
SamePOs(b, c) ==
  \A p \in Suppliers : \A n \in DOMAIN b.pos[p] :
    n \in DOMAIN c.pos[p] /\ c.pos[p][n].estado = b.pos[p][n].estado

(* b and c agree on all that is about SKU s.                               *)
SameSku(b, c, s) ==
  /\ \A q \in Orders : c.needs[q][s] = b.needs[q][s]
  /\ \A p \in Suppliers : \A n \in DOMAIN b.pos[p] : c.pos[p][n].quantity[s] = b.pos[p][n].quantity[s]

LEMMA DetachEffect ==
  ASSUME NEW b, BookOK(b), NEW o \in Orders, NEW s \in Skus, Book!LinkedOpen(b, o, s)
  PROVE  LET d == Book!DetachFromPreviousPO(b, o, s)
         IN  /\ \A q \in Orders, t \in Skus :
                  d.needs[q][t] = IF q = o /\ t = s THEN [b.needs[q][t] EXCEPT !.link = 0]
                                  ELSE b.needs[q][t]
             /\ \A p \in Suppliers : DOMAIN d.pos[p] = DOMAIN b.pos[p]
             /\ \A p \in Suppliers : \A n \in DOMAIN b.pos[p] :
                  /\ d.pos[p][n].estado = b.pos[p][n].estado
                  /\ \A t \in Skus :
                       d.pos[p][n].quantity[t] =
                         IF t = s /\ p = b.needs[o][s].supplier /\ n = b.needs[o][s].link
                         THEN Book!Remaining(b, o, s) ELSE b.pos[p][n].quantity[t]
<1> DEFINE d == Book!DetachFromPreviousPO(b, o, s)
           x == b.needs[o][s].supplier
           y == b.needs[o][s].link
           r == Book!Remaining(b, o, s)
<1>1. d = [b EXCEPT !.pos[x][y].quantity[s] = r, !.needs[o][s].link = 0]
  BY DEF Book!DetachFromPreviousPO
<1>2. b \in BookType /\ x \in Suppliers /\ y \in DOMAIN b.pos[x]
  BY LinkedPOType DEF BookOK, Book!LinkedOpen
<1> HIDE DEF x, y, r, d
<1>3. d.needs = [b.needs EXCEPT ![o][s].link = 0] /\ d.pos = [b.pos EXCEPT ![x][y].quantity[s] = r]
  BY <1>1, <1>2 DEF BookType
<1>4. \A q \in Orders, t \in Skus :
        d.needs[q][t] = IF q = o /\ t = s THEN [b.needs[q][t] EXCEPT !.link = 0] ELSE b.needs[q][t]
  <2>1. \A q \in Orders : q \in DOMAIN b.needs /\ DOMAIN b.needs[q] = Skus
    BY <1>2 DEF BookType
  <2>2. \A q \in Orders : d.needs[q] = IF q = o THEN [b.needs[o] EXCEPT ![s].link = 0] ELSE b.needs[q]
    BY <1>3, <2>1
  <2>3. \A t \in Skus : [b.needs[o] EXCEPT ![s].link = 0][t]
                          = IF t = s THEN [b.needs[o][t] EXCEPT !.link = 0] ELSE b.needs[o][t]
    BY <2>1
  <2> QED BY <2>2, <2>3
<1>5. ASSUME NEW p \in Suppliers, NEW n \in DOMAIN b.pos[p]
      PROVE  /\ d.pos[p][n].estado = b.pos[p][n].estado
             /\ \A t \in Skus : d.pos[p][n].quantity[t] =
                  IF t = s /\ p = x /\ n = y THEN r ELSE b.pos[p][n].quantity[t]
  <2>1. b.pos[p][n] \in Book!PurchaseOrder
    BY <1>2 DEF BookType
  <2>2. d.pos[p][n] = IF p = x /\ n = y THEN [b.pos[p][n] EXCEPT !.quantity[s] = r] ELSE b.pos[p][n]
    <3>1. \A q \in Suppliers : q \in DOMAIN b.pos
      BY <1>2 DEF BookType
    <3>2. d.pos[p] = IF p = x THEN [b.pos[p] EXCEPT ![y].quantity[s] = r] ELSE b.pos[p]
      BY <1>3, <3>1
    <3>3. [b.pos[p] EXCEPT ![y].quantity[s] = r][n]
            = IF n = y THEN [b.pos[p][n] EXCEPT !.quantity[s] = r] ELSE b.pos[p][n]
      OBVIOUS
    <3> QED BY <3>2, <3>3
  <2> QED BY <2>1, <2>2 DEF Book!PurchaseOrder
<1>6. \A p \in Suppliers : DOMAIN d.pos[p] = DOMAIN b.pos[p]
  BY <1>2, <1>3 DEF BookType
<1> QED BY <1>4, <1>5, <1>6 DEF d, x, y, r

LEMMA OpenOrCreateEffect ==
  ASSUME NEW b, BookOK(b), NEW p \in Suppliers
  PROVE  LET c == Book!OpenOrCreatePO(b, p)
         IN  /\ c.needs = b.needs
             /\ \A q \in Suppliers : \A n \in DOMAIN b.pos[q] :
                  n \in DOMAIN c.pos[q] /\ c.pos[q][n] = b.pos[q][n]
             /\ \A q \in Suppliers : \A n \in DOMAIN c.pos[q] \ DOMAIN b.pos[q] :
                  \A t \in Skus : c.pos[q][n].quantity[t] = 0
<1>1. b \in BookType /\ b.pos[p] \in Seq(Book!PurchaseOrder)
  BY DEF BookOK, BookType
<1>2. CASE Book!OpenPOs(b, p) # {}
  BY <1>2 DEF Book!OpenOrCreatePO
<1>3. CASE Book!OpenPOs(b, p) = {}
  <2> DEFINE c == Book!OpenOrCreatePO(b, p)
             new == Append(b.pos[p], Book!NewPO)
  <2>1. c.needs = b.needs /\ c.pos = [b.pos EXCEPT ![p] = new]
    BY <1>1, <1>3 DEF Book!OpenOrCreatePO, BookType
  <2> HIDE DEF c
  <2>2. /\ DOMAIN new = DOMAIN b.pos[p] \cup {Len(b.pos[p]) + 1}
        /\ new[Len(b.pos[p]) + 1] = Book!NewPO
        /\ \A n \in DOMAIN b.pos[p] : new[n] = b.pos[p][n]
    BY <1>1
  <2> HIDE DEF new
  <2>3. \A q \in Suppliers : c.pos[q] = IF q = p THEN new ELSE b.pos[q]
    BY <1>1, <2>1 DEF BookType
  <2>4. \A t \in Skus : Book!NewPO.quantity[t] = 0
    BY DEF Book!NewPO
  <2>5. \A q \in Suppliers : \A n \in DOMAIN b.pos[q] : n \in DOMAIN c.pos[q] /\ c.pos[q][n] = b.pos[q][n]
    BY <2>2, <2>3
  <2>6. \A q \in Suppliers : \A n \in DOMAIN c.pos[q] \ DOMAIN b.pos[q] :
          \A t \in Skus : c.pos[q][n].quantity[t] = 0
    BY <2>2, <2>3, <2>4
  <2> QED BY <2>1, <2>5, <2>6 DEF c
<1> QED BY <1>2, <1>3

(* The quantity of an item once a need no longer counts towards it.        *)
WithoutNeed(b, o, s, p, n, t) ==
  IF n \notin DOMAIN b.pos[p] THEN 0
  ELSE IF t = s /\ Book!LinkedOpen(b, o, s) /\ p = b.needs[o][s].supplier /\ n = b.needs[o][s].link
       THEN Book!Remaining(b, o, s)
       ELSE b.pos[p][n].quantity[t]

(* From b to c the need moves to purchase order n of p, and nothing else.   *)
Moved(b, c, o, s, p, n) ==
  /\ ~(b.needs[o][s].supplier = p /\ Book!Linked(b, o, s))
  /\ Book!Linked(b, o, s) => Book!LinkedOpen(b, o, s)
  /\ c.pos[p][n].estado = "OPEN" /\ n # 0
  /\ SamePOs(b, c)
  /\ \A q \in Orders, t \in Skus :
       c.needs[q][t] = IF q = o /\ t = s
                       THEN [b.needs[q][t] EXCEPT !.supplier = p, !.link = n]
                       ELSE b.needs[q][t]
  /\ \A q \in Suppliers : \A m \in DOMAIN c.pos[q] : \A t \in Skus :
       c.pos[q][m].quantity[t] =
         WithoutNeed(b, o, s, q, m, t)
           + (IF t = s /\ q = p /\ m = n THEN b.needs[o][s].missing ELSE 0)

(* An accumulation that does not raise either finds the need where it      *)
(* belongs, or moves it, and its quantity, to the supplier's OPEN purchase *)
(* order, off the one it was on.                                           *)
LEMMA AccumulateEffect ==
  ASSUME NEW b, BookOK(b), NEW o \in Orders, NEW s \in Skus, NEW p \in Suppliers,
         ~Book!AccumulateRaises(b, o, s, p)
  PROVE  LET c == Book!AccumulateNeed(b, o, s, p)
         IN  \/ c = b /\ b.needs[o][s].supplier = p /\ Book!Linked(b, o, s)
             \/ \E n \in DOMAIN c.pos[p] : Moved(b, c, o, s, p, n)
<1>1. CASE b.needs[o][s].supplier = p /\ Book!Linked(b, o, s)
  BY <1>1 DEF Book!AccumulateNeed
<1>2. CASE ~(b.needs[o][s].supplier = p /\ Book!Linked(b, o, s))
  <2> DEFINE d == IF Book!Reselected(b, o, s, p) THEN Book!DetachFromPreviousPO(b, o, s) ELSE b
             e == Book!OpenOrCreatePO(d, p)
             n == CHOOSE n \in Book!OpenPOs(e, p) : TRUE
             missing == b.needs[o][s].missing
             c == Book!AccumulateNeed(b, o, s, p)
  <2>1. BookOK(d)
    BY DetachOK
  <2>2. Book!Linked(b, o, s) => Book!Reselected(b, o, s, p) /\ Book!LinkedOpen(b, o, s)
    <3>1. SUFFICES ASSUME Book!Linked(b, o, s)
                   PROVE  Book!Reselected(b, o, s, p) /\ Book!LinkedOpen(b, o, s)
      OBVIOUS
    <3>2. b.needs[o][s].supplier \in Suppliers
      BY <3>1, LinkedPOType
    <3>3. Book!Reselected(b, o, s, p)
      BY <1>2, <3>1, <3>2, NoSupplierAssumption DEF Book!Reselected
    <3> QED BY <3>1, <3>3 DEF Book!AccumulateRaises, Book!SelectionExecuted, Book!LinkedOpen
  <2>3. /\ \A q \in Orders, t \in Skus :
             d.needs[q][t] = IF q = o /\ t = s /\ Book!LinkedOpen(b, o, s)
                             THEN [b.needs[q][t] EXCEPT !.link = 0] ELSE b.needs[q][t]
        /\ \A q \in Suppliers : DOMAIN d.pos[q] = DOMAIN b.pos[q]
        /\ \A q \in Suppliers : \A m \in DOMAIN b.pos[q] :
             /\ d.pos[q][m].estado = b.pos[q][m].estado
             /\ \A t \in Skus : d.pos[q][m].quantity[t] = WithoutNeed(b, o, s, q, m, t)
    <3>1. CASE Book!LinkedOpen(b, o, s)
      <4>1. d = Book!DetachFromPreviousPO(b, o, s)
        BY <2>2, <3>1 DEF Book!LinkedOpen
      <4> HIDE DEF d
      <4> QED BY <3>1, <4>1, DetachEffect DEF WithoutNeed
    <3>2. CASE ~Book!LinkedOpen(b, o, s)
      <4>1. d = b
        BY <3>2 DEF Book!DetachFromPreviousPO
      <4> HIDE DEF d
      <4> QED BY <3>2, <4>1 DEF WithoutNeed
    <3> QED BY <3>1, <3>2
  <2>4. c = [e EXCEPT !.pos[p][n].quantity[s] = @ + missing,
                      !.needs[o][s].supplier = p, !.needs[o][s].link = n]
    BY <1>2 DEF Book!AccumulateNeed
  <2> HIDE DEF d, c
  <2>5. BookOK(e) /\ Book!OpenPOs(e, p) # {}
    BY <2>1, OpenOrCreateOK
  <2>6. /\ e.needs = d.needs
        /\ \A q \in Suppliers : \A m \in DOMAIN d.pos[q] :
             m \in DOMAIN e.pos[q] /\ e.pos[q][m] = d.pos[q][m]
        /\ \A q \in Suppliers : \A m \in DOMAIN e.pos[q] \ DOMAIN d.pos[q] :
             \A t \in Skus : e.pos[q][m].quantity[t] = 0
    BY <2>1, OpenOrCreateEffect
  <2> HIDE DEF e
  <2>7. n \in DOMAIN e.pos[p] /\ e.pos[p][n].estado = "OPEN"
    BY <2>5 DEF Book!OpenPOs
  <2>8. e \in BookType
    BY <2>5 DEF BookOK
  <2> HIDE DEF n
  <2>9. n # 0
    <3>1. e.pos[p] \in Seq(Book!PurchaseOrder)
      BY <2>8 DEF BookType
    <3> QED BY <2>7, <3>1
  <2> HIDE DEF missing
  <2>10. /\ c.pos = [e.pos EXCEPT ![p][n].quantity[s] = @ + missing]
         /\ c.needs = [[e.needs EXCEPT ![o][s].supplier = p] EXCEPT ![o][s].link = n]
    BY <2>4, <2>8 DEF BookType
  <2>11. \A q \in Orders, t \in Skus :
           c.needs[q][t] = IF q = o /\ t = s
                           THEN [e.needs[q][t] EXCEPT !.supplier = p, !.link = n]
                           ELSE e.needs[q][t]
    <3>1. \A q \in Orders : q \in DOMAIN e.needs /\ DOMAIN e.needs[q] = Skus
      BY <2>8 DEF BookType
    <3> DEFINE row == [[e.needs[o] EXCEPT ![s].supplier = p] EXCEPT ![s].link = n]
    <3>2. \A q \in Orders : c.needs[q] = IF q = o THEN row ELSE e.needs[q]
      BY <2>10, <3>1
    <3>3. \A t \in Skus : row[t] = IF t = s THEN [e.needs[o][t] EXCEPT !.supplier = p, !.link = n]
                                   ELSE e.needs[o][t]
      BY <3>1
    <3> HIDE DEF row
    <3> QED BY <3>2, <3>3
  <2>12. ASSUME NEW q \in Suppliers
         PROVE  /\ DOMAIN c.pos[q] = DOMAIN e.pos[q]
                /\ \A m \in DOMAIN e.pos[q] :
                     /\ c.pos[q][m].estado = e.pos[q][m].estado
                     /\ \A t \in Skus : c.pos[q][m].quantity[t] =
                          e.pos[q][m].quantity[t] + (IF t = s /\ q = p /\ m = n THEN missing ELSE 0)
    <3>1. \A r \in Suppliers : r \in DOMAIN e.pos
      BY <2>8 DEF BookType
    <3>2. c.pos[q] = IF q = p THEN [e.pos[q] EXCEPT ![n].quantity[s] = @ + missing] ELSE e.pos[q]
      BY <2>10, <3>1
    <3>3. \A m \in DOMAIN e.pos[q] :
            c.pos[q][m] = IF q = p /\ m = n THEN [e.pos[q][m] EXCEPT !.quantity[s] = @ + missing]
                          ELSE e.pos[q][m]
      BY <3>2
    <3>4. \A m \in DOMAIN e.pos[q] : e.pos[q][m] \in Book!PurchaseOrder
      BY <2>8 DEF BookType
    <3>5. DOMAIN c.pos[q] = DOMAIN e.pos[q]
      BY <3>2
    <3> SUFFICES ASSUME NEW m \in DOMAIN e.pos[q], NEW t \in Skus
                 PROVE  /\ c.pos[q][m].estado = e.pos[q][m].estado
                        /\ c.pos[q][m].quantity[t] =
                             e.pos[q][m].quantity[t] + (IF t = s /\ q = p /\ m = n THEN missing ELSE 0)
      BY <3>3, <3>5
    <3> DEFINE old == e.pos[q][m]
    <3>6. old \in Book!PurchaseOrder /\ c.pos[q][m] = IF q = p /\ m = n
                                                      THEN [old EXCEPT !.quantity[s] = @ + missing]
                                                      ELSE old
      BY <3>3, <3>4
    <3> HIDE DEF old
    <3>7. old.quantity[t] \in Nat
      BY <3>6 DEF Book!PurchaseOrder
    <3> QED BY <3>6, <3>7 DEF Book!PurchaseOrder, old
  <2>13. SamePOs(b, c)
    BY <2>3, <2>6, <2>12 DEF SamePOs
  <2>14. \A q \in Orders, t \in Skus :
           c.needs[q][t] = IF q = o /\ t = s
                           THEN [b.needs[q][t] EXCEPT !.supplier = p, !.link = n]
                           ELSE b.needs[q][t]
    <3>1. b.needs[o][s] \in Book!Need
      BY DEF BookOK, BookType
    <3>2. [e.needs[o][s] EXCEPT !.supplier = p, !.link = n] = [b.needs[o][s] EXCEPT !.supplier = p, !.link = n]
      <4> DEFINE need == b.needs[o][s]
      <4>1. e.needs[o][s] = need \/ e.needs[o][s] = [need EXCEPT !.link = 0]
        BY <2>3, <2>6
      <4>2. need \in Book!Need
        BY <3>1
      <4> HIDE DEF need
      <4>3. [[need EXCEPT !.link = 0] EXCEPT !.supplier = p, !.link = n] = [need EXCEPT !.supplier = p, !.link = n]
        BY <4>2 DEF Book!Need
      <4> QED BY <4>1, <4>3 DEF need
    <3>3. \A q \in Orders, t \in Skus : ~(q = o /\ t = s) => e.needs[q][t] = b.needs[q][t]
      BY <2>3, <2>6
    <3> TAKE q \in Orders, t \in Skus
    <3>4. CASE q = o /\ t = s
      BY <2>11, <3>2, <3>4
    <3>5. CASE ~(q = o /\ t = s)
      BY <2>11, <3>3, <3>5
    <3> QED BY <3>4, <3>5
  <2>15. ASSUME NEW q \in Suppliers, NEW m \in DOMAIN e.pos[q], NEW t \in Skus
         PROVE  e.pos[q][m].quantity[t] = WithoutNeed(b, o, s, q, m, t)
    <3>1. CASE m \in DOMAIN b.pos[q]
      BY <2>3, <2>6, <3>1
    <3>2. CASE m \notin DOMAIN b.pos[q]
      BY <2>3, <2>6, <3>2 DEF WithoutNeed
    <3> QED BY <3>1, <3>2
  <2>16. \A q \in Suppliers : \A m \in DOMAIN c.pos[q] : \A t \in Skus :
           c.pos[q][m].quantity[t] =
             WithoutNeed(b, o, s, q, m, t) + (IF t = s /\ q = p /\ m = n THEN missing ELSE 0)
    BY <2>12, <2>15
  <2>17. n \in DOMAIN c.pos[p] /\ c.pos[p][n].estado = "OPEN"
    BY <2>7, <2>12
  <2>18. Moved(b, c, o, s, p, n)
    BY <1>2, <2>2, <2>9, <2>13, <2>14, <2>16, <2>17 DEF Moved, missing
  <2> QED BY <2>17, <2>18 DEF c
<1> QED BY <1>1, <1>2

LEMMA UpsertEffect ==
  ASSUME NEW b, BookOK(b), NEW o \in Orders, NEW s \in Skus, NEW quantity
  PROVE  LET c == Book!UpsertNeed(b, o, s, quantity)
         IN  /\ c.pos = b.pos
             /\ \A q \in Orders, t \in Skus :
                  c.needs[q][t] = IF q = o /\ t = s THEN [b.needs[q][t] EXCEPT !.missing = quantity]
                                  ELSE b.needs[q][t]
<1> DEFINE c == Book!UpsertNeed(b, o, s, quantity)
<1>1. b \in BookType
  BY DEF BookOK
<1>2. c.pos = b.pos /\ c.needs = [b.needs EXCEPT ![o][s].missing = quantity]
  BY <1>1 DEF Book!UpsertNeed, BookType
<1> HIDE DEF c
<1>3. \A q \in Orders : q \in DOMAIN b.needs /\ DOMAIN b.needs[q] = Skus
  BY <1>1 DEF BookType
<1>4. \A q \in Orders : c.needs[q] = IF q = o THEN [b.needs[o] EXCEPT ![s].missing = quantity]
                                     ELSE b.needs[q]
  BY <1>2, <1>3
<1>5. \A t \in Skus : [b.needs[o] EXCEPT ![s].missing = quantity][t]
                        = IF t = s THEN [b.needs[o][t] EXCEPT !.missing = quantity] ELSE b.needs[o][t]
  BY <1>3
<1> QED BY <1>2, <1>4, <1>5 DEF c

(* A release takes the order's needs off the OPEN purchase orders they are *)
(* linked to, and cancels those on which nothing is left.                  *)
LEMMA ReleaseEffect ==
  ASSUME NEW b, BookOK(b), NEW o \in Orders
  PROVE  LET c == Book!ReleaseOrderNeeds(b, o)
         IN  /\ \A q \in Orders, t \in Skus :
                  c.needs[q][t] = IF q = o /\ Book!LinkedOpen(b, o, t)
                                  THEN [b.needs[q][t] EXCEPT !.link = 0] ELSE b.needs[q][t]
             /\ \A p \in Suppliers : DOMAIN c.pos[p] = DOMAIN b.pos[p]
             /\ \A p \in Suppliers : \A n \in DOMAIN b.pos[p] :
                  /\ b.pos[p][n].estado # "OPEN" => c.pos[p][n] = b.pos[p][n]
                  /\ b.pos[p][n].estado = "OPEN" => c.pos[p][n].quantity = Book!LeftOf(b, o, p, n)
                  /\ c.pos[p][n].estado =
                       IF /\ b.pos[p][n].estado = "OPEN"
                          /\ \E s \in Skus : o \in Book!LinkedOrders(b, p, n, s)
                          /\ Book!NothingLeft(b, o, p, n)
                       THEN "CANCELLED" ELSE b.pos[p][n].estado
<1> DEFINE c == Book!ReleaseOrderNeeds(b, o)
           touched(p, n) == b.pos[p][n].estado = "OPEN"
                              /\ \E s \in Skus : o \in Book!LinkedOrders(b, p, n, s)
<1>1. b \in BookType
  BY DEF BookOK
<1>2. /\ c.pos = [p \in Suppliers |-> [n \in DOMAIN b.pos[p] |->
                    IF touched(p, n)
                    THEN [b.pos[p][n] EXCEPT !.quantity = Book!LeftOf(b, o, p, n),
                                             !.estado = IF Book!NothingLeft(b, o, p, n)
                                                        THEN "CANCELLED" ELSE @]
                    ELSE b.pos[p][n]]]
      /\ c.needs = [b.needs EXCEPT ![o] =
                      [s \in Skus |-> IF Book!LinkedOpen(b, o, s)
                                      THEN [b.needs[o][s] EXCEPT !.link = 0]
                                      ELSE b.needs[o][s]]]
  BY DEF Book!ReleaseOrderNeeds
<1> HIDE DEF c
<1>3. \A q \in Orders, t \in Skus :
        c.needs[q][t] = IF q = o /\ Book!LinkedOpen(b, o, t)
                        THEN [b.needs[q][t] EXCEPT !.link = 0] ELSE b.needs[q][t]
  <2>1. \A q \in Orders : q \in DOMAIN b.needs
    BY <1>1 DEF BookType
  <2> TAKE q \in Orders, t \in Skus
  <2>2. CASE q = o
    <3>1. c.needs[o] = [s \in Skus |-> IF Book!LinkedOpen(b, o, s)
                                      THEN [b.needs[o][s] EXCEPT !.link = 0]
                                      ELSE b.needs[o][s]]
      BY <1>2, <2>1
    <3> QED BY <2>2, <3>1
  <2>3. CASE q # o
    BY <1>2, <2>1, <2>3
  <2> QED BY <2>2, <2>3
<1>4. \A p \in Suppliers : DOMAIN c.pos[p] = DOMAIN b.pos[p]
  <2> TAKE p \in Suppliers
  <2> DEFINE row == [n \in DOMAIN b.pos[p] |->
                       IF touched(p, n)
                       THEN [b.pos[p][n] EXCEPT !.quantity = Book!LeftOf(b, o, p, n),
                                                !.estado = IF Book!NothingLeft(b, o, p, n)
                                                           THEN "CANCELLED" ELSE @]
                       ELSE b.pos[p][n]]
  <2>1. c.pos[p] = row
    BY <1>2
  <2>2. DOMAIN row = DOMAIN b.pos[p]
    OBVIOUS
  <2> HIDE DEF row
  <2> QED BY <2>1, <2>2
<1>5. ASSUME NEW p \in Suppliers, NEW n \in DOMAIN b.pos[p]
      PROVE  /\ b.pos[p][n].estado # "OPEN" => c.pos[p][n] = b.pos[p][n]
             /\ b.pos[p][n].estado = "OPEN" => c.pos[p][n].quantity = Book!LeftOf(b, o, p, n)
             /\ c.pos[p][n].estado =
                  IF touched(p, n) /\ Book!NothingLeft(b, o, p, n)
                  THEN "CANCELLED" ELSE b.pos[p][n].estado
  <2> DEFINE po == b.pos[p][n]
             left == Book!LeftOf(b, o, p, n)
  <2>1. c.pos[p][n] = IF touched(p, n)
                      THEN [po EXCEPT !.quantity = left,
                                      !.estado = IF Book!NothingLeft(b, o, p, n)
                                                 THEN "CANCELLED" ELSE @]
                      ELSE po
    <3> HIDE DEF touched
    <3>1. c.pos[p] = [m \in DOMAIN b.pos[p] |->
                        IF touched(p, m)
                        THEN [b.pos[p][m] EXCEPT !.quantity = Book!LeftOf(b, o, p, m),
                                                 !.estado = IF Book!NothingLeft(b, o, p, m)
                                                            THEN "CANCELLED" ELSE @]
                        ELSE b.pos[p][m]]
      BY <1>2
    <3> QED BY <3>1
  <2>2. po \in Book!PurchaseOrder
    BY <1>1 DEF BookType
  <2>3. CASE touched(p, n)
    <3>1. po.estado = "OPEN"
      BY <2>3
    <3> HIDE DEF touched, po, left
    <3>2. c.pos[p][n].quantity = left
      BY <2>1, <2>2, <2>3 DEF Book!PurchaseOrder
    <3>3. c.pos[p][n].estado = IF Book!NothingLeft(b, o, p, n) THEN "CANCELLED" ELSE po.estado
      BY <2>1, <2>2, <2>3 DEF Book!PurchaseOrder
    <3> QED BY <2>3, <3>1, <3>2, <3>3 DEF po, left
  <2>4. CASE ~touched(p, n)
    <3>1. c.pos[p][n] = po
      <4> HIDE DEF touched, po, left
      <4> QED BY <2>1, <2>4
    <3>2. po.estado = "OPEN" => po.quantity = left
      <4>1. SUFFICES ASSUME po.estado = "OPEN" PROVE po.quantity = left
        OBVIOUS
      <4>2. \A s \in Skus : o \notin Book!LinkedOrders(b, p, n, s)
        BY <2>4, <4>1
      <4>3. left = [s \in Skus |-> po.quantity[s]]
        BY <4>2 DEF Book!LeftOf
      <4>4. po.quantity \in [Skus -> Nat]
        BY <2>2 DEF Book!PurchaseOrder
      <4> HIDE DEF po, left
      <4> QED BY <4>3, <4>4
    <3> HIDE DEF left, touched
    <3> QED BY <2>4, <3>1, <3>2 DEF left
  <2> QED BY <2>3, <2>4
<1> QED BY <1>3, <1>4, <1>5 DEF c

-----------------------------------------------------------------------------
(* Every need on an OPEN purchase order asks for something of its item, so *)
(* that an item is deleted only with the last need on it.                  *)
ItemsStand(b) ==
  \A q \in Orders, s \in Skus : Book!LinkedOpen(b, q, s) => Book!LinkedPO(b, q, s).quantity[s] > 0

LEMMA SamePOsTransitive ==
  ASSUME NEW b, NEW c, NEW d, SamePOs(b, c), SamePOs(c, d)
  PROVE  SamePOs(b, d)
BY DEF SamePOs

(* No purchase order that was not OPEN is.                                 *)
NoneReopened(b, c) ==
  \A p \in Suppliers : \A n \in DOMAIN b.pos[p] :
    c.pos[p][n].estado = "OPEN" => b.pos[p][n].estado = "OPEN"

(* A need keeps its place if its row keeps supplier and link.              *)
LEMMA SamePlace ==
  ASSUME NEW b, NEW c, BookOK(b), NEW q \in Orders, NEW s \in Skus,
         c.needs[q][s].supplier = b.needs[q][s].supplier,
         c.needs[q][s].link = b.needs[q][s].link,
         NoneReopened(b, c), Book!LinkedOpen(c, q, s)
  PROVE  LET p == b.needs[q][s].supplier
             n == b.needs[q][s].link
         IN  /\ p \in Suppliers /\ n \in DOMAIN b.pos[p] /\ q \in Book!LinkedOrders(b, p, n, s)
             /\ Book!LinkedOpen(b, q, s)
             /\ Book!LinkedPO(b, q, s) = b.pos[p][n] /\ Book!LinkedPO(c, q, s) = c.pos[p][n]
<1>1. Book!Linked(b, q, s)
  BY DEF Book!LinkedOpen, Book!Linked
<1>2. b.needs[q][s].supplier \in Suppliers /\ b.needs[q][s].link \in DOMAIN b.pos[b.needs[q][s].supplier]
  BY <1>1, LinkedPOType
<1> QED BY <1>1, <1>2 DEF NoneReopened, Book!LinkedOpen, Book!LinkedPO, Book!LinkedOrders

LEMMA UpsertStands ==
  ASSUME NEW b, BookOK(b), ItemsStand(b), NEW o \in Orders, NEW s \in Skus, NEW quantity
  PROVE  LET c == Book!UpsertNeed(b, o, s, quantity)
         IN  /\ ItemsStand(c) /\ SamePOs(b, c)
             /\ \A t \in Skus \ {s} : SameSku(b, c, t)
             /\ \A q \in Orders \ {o}, t \in Skus : c.needs[q][t] = b.needs[q][t]
             /\ c.needs[o][s].missing = quantity
<1> DEFINE c == Book!UpsertNeed(b, o, s, quantity)
<1>1. /\ c.pos = b.pos
      /\ \A q \in Orders, t \in Skus :
           c.needs[q][t] = IF q = o /\ t = s THEN [b.needs[q][t] EXCEPT !.missing = quantity]
                           ELSE b.needs[q][t]
  BY UpsertEffect
<1> HIDE DEF c
<1>2. \A q \in Orders, t \in Skus : b.needs[q][t] \in Book!Need
  BY DEF BookOK, BookType
<1>3. \A q \in Orders, t \in Skus : /\ c.needs[q][t].supplier = b.needs[q][t].supplier
                                    /\ c.needs[q][t].link = b.needs[q][t].link
  <2> TAKE q \in Orders, t \in Skus
  <2> DEFINE need == b.needs[q][t]
  <2>1. /\ c.needs[q][t] = IF q = o /\ t = s THEN [need EXCEPT !.missing = quantity] ELSE need
        /\ need \in Book!Need
    BY <1>1, <1>2
  <2> HIDE DEF need
  <2>2. c.needs[q][t].supplier = need.supplier /\ c.needs[q][t].link = need.link
    BY <2>1 DEF Book!Need
  <2> QED BY <2>2 DEF need
<1>4. c.needs[o][s].missing = quantity
  <2>1. c.needs[o][s] = [b.needs[o][s] EXCEPT !.missing = quantity]
    BY <1>1
  <2>2. b.needs[o][s] \in Book!Need
    BY <1>2
  <2> DEFINE need == b.needs[o][s]
  <2>3. c.needs[o][s] = [need EXCEPT !.missing = quantity] /\ need \in Book!Need
    BY <2>1, <2>2
  <2> HIDE DEF need
  <2> QED BY <2>3 DEF Book!Need
<1>5. ItemsStand(c)
  BY <1>1, <1>3 DEF ItemsStand, Book!LinkedOpen, Book!Linked, Book!LinkedPO
<1> QED BY <1>1, <1>4, <1>5 DEF c, SamePOs, SameSku

(* Neither an accumulation nor a release that does not raise takes the     *)
(* last unit of an item another need is on.                                *)
LEMMA AccumulateStands ==
  ASSUME NEW b, BookOK(b), ItemsStand(b), NEW o \in Orders, NEW s \in Skus, NEW p \in Suppliers,
         ~Book!AccumulateRaises(b, o, s, p), b.needs[o][s].missing > 0
  PROVE  LET c == Book!AccumulateNeed(b, o, s, p)
         IN  /\ ItemsStand(c) /\ SamePOs(b, c)
             /\ \A t \in Skus \ {s} : \A q \in Orders : c.needs[q][t] = b.needs[q][t]
             /\ \A t \in Skus \ {s} : \A x \in Suppliers : \A m \in DOMAIN b.pos[x] :
                  c.pos[x][m].quantity[t] = b.pos[x][m].quantity[t]
             /\ \A q \in Orders \ {o}, t \in Skus : c.needs[q][t] = b.needs[q][t]
<1> DEFINE c == Book!AccumulateNeed(b, o, s, p)
<1>1. CASE c = b
  BY <1>1 DEF SamePOs
<1>2. CASE c # b
  <2>0. c = b \/ \E n \in DOMAIN c.pos[p] : Moved(b, c, o, s, p, n)
    BY AccumulateEffect
  <2> HIDE DEF c
  <2>1. PICK n \in DOMAIN c.pos[p] : Moved(b, c, o, s, p, n)
    BY <1>2, <2>0
  <2>2. b.needs[o][s] \in Book!Need /\ b.needs[o][s].missing \in Nat
    BY DEF BookOK, BookType, Book!Need
  <2>3. \A x \in Suppliers : \A m \in DOMAIN b.pos[x] : \A t \in Skus :
          b.pos[x][m].quantity[t] \in Nat
    <3>1. \A x \in Suppliers : \A m \in DOMAIN b.pos[x] : b.pos[x][m] \in Book!PurchaseOrder
      BY DEF BookOK, BookType
    <3> QED BY <3>1 DEF Book!PurchaseOrder
  <2>4. \A x \in Suppliers, t \in Skus : \A m : WithoutNeed(b, o, s, x, m, t) \in Nat
    <3>1. Book!LinkedOpen(b, o, s) => Book!Remaining(b, o, s) \in Nat
      BY RemainingNat DEF Book!LinkedOpen
    <3> QED BY <2>3, <3>1 DEF WithoutNeed
  <2>5. ASSUME NEW x \in Suppliers, NEW m \in DOMAIN b.pos[x], NEW t \in Skus
        PROVE  /\ m \in DOMAIN c.pos[x]
               /\ t # s => c.pos[x][m].quantity[t] = b.pos[x][m].quantity[t]
               /\ c.pos[x][m].quantity[t] >= WithoutNeed(b, o, s, x, m, t)
    <3>1. m \in DOMAIN c.pos[x]
      BY <2>1 DEF SamePOs, Moved
    <3>2. t # s => WithoutNeed(b, o, s, x, m, t) = b.pos[x][m].quantity[t]
      BY DEF WithoutNeed
    <3>3. c.pos[x][m].quantity[t] =
            WithoutNeed(b, o, s, x, m, t)
              + (IF t = s /\ x = p /\ m = n THEN b.needs[o][s].missing ELSE 0)
      BY <2>1, <3>1 DEF Moved
    <3> QED BY <2>2, <2>3, <2>4, <3>1, <3>2, <3>3
  <2>6. ItemsStand(c)
    <3> SUFFICES ASSUME NEW q \in Orders, NEW t \in Skus, Book!LinkedOpen(c, q, t)
                 PROVE  Book!LinkedPO(c, q, t).quantity[t] > 0
      BY DEF ItemsStand
    <3>1. CASE q = o /\ t = s
      <4>1. c.needs[o][s].supplier = p /\ c.needs[o][s].link = n
        BY <2>1, <2>2 DEF Moved, Book!Need
      <4>2. c.pos[p][n].quantity[s] = WithoutNeed(b, o, s, p, n, s) + b.needs[o][s].missing
        BY <2>1 DEF Moved
      <4>3. WithoutNeed(b, o, s, p, n, s) \in Nat
        BY <2>4
      <4>4. c.pos[p][n].quantity[s] > 0
        BY <2>2, <4>2, <4>3
      <4> QED BY <3>1, <4>1, <4>4 DEF Book!LinkedPO
    <3>2. CASE ~(q = o /\ t = s)
      <4> DEFINE x == b.needs[q][t].supplier
                 m == b.needs[q][t].link
      <4>1. c.needs[q][t] = b.needs[q][t]
        BY <2>1, <3>2 DEF Moved
      <4>2. NoneReopened(b, c)
        BY <2>1 DEF Moved, SamePOs, NoneReopened
      <4>3. /\ x \in Suppliers /\ m \in DOMAIN b.pos[x] /\ q \in Book!LinkedOrders(b, x, m, t)
            /\ Book!LinkedOpen(b, q, t)
            /\ Book!LinkedPO(b, q, t) = b.pos[x][m] /\ Book!LinkedPO(c, q, t) = c.pos[x][m]
        BY <4>1, <4>2, SamePlace
      <4>4. b.pos[x][m].quantity[t] > 0
        BY <4>3 DEF ItemsStand
      <4> HIDE DEF x, m
      <4>5. WithoutNeed(b, o, s, x, m, t) > 0
        <5>1. CASE t = s /\ Book!LinkedOpen(b, o, s) /\ x = b.needs[o][s].supplier /\ m = b.needs[o][s].link
          <6>1. Book!Reselected(b, o, s, p)
            BY <2>1, <4>3, <5>1, NoSupplierAssumption DEF Moved, Book!Reselected, Book!LinkedOpen
          <6>2. q # o
            BY <3>2, <5>1
          <6>3. Book!Remaining(b, o, s) # 0
            BY <4>3, <5>1, <6>1, <6>2 DEF Book!AccumulateRaises, Book!DetachViolatesFK
          <6>4. Book!Remaining(b, o, s) \in Nat
            BY <5>1, RemainingNat DEF Book!LinkedOpen
          <6> QED BY <4>3, <5>1, <6>3, <6>4 DEF WithoutNeed
        <5>2. CASE ~(t = s /\ Book!LinkedOpen(b, o, s) /\ x = b.needs[o][s].supplier /\ m = b.needs[o][s].link)
          BY <4>3, <4>4, <5>2 DEF WithoutNeed
        <5> QED BY <5>1, <5>2
      <4>6. c.pos[x][m].quantity[t] > 0
        <5>1. c.pos[x][m].quantity[t] >= WithoutNeed(b, o, s, x, m, t) /\ m \in DOMAIN c.pos[x]
          BY <2>5, <4>3
        <5>2. c.pos[x][m].quantity[t] =
                WithoutNeed(b, o, s, x, m, t)
                  + (IF t = s /\ x = p /\ m = n THEN b.needs[o][s].missing ELSE 0)
          BY <2>1, <4>3, <5>1 DEF Moved
        <5>3. WithoutNeed(b, o, s, x, m, t) \in Nat
          BY <2>4, <4>3
        <5> QED BY <2>2, <4>5, <5>2, <5>3
      <4> QED BY <4>3, <4>6
    <3> QED BY <3>1, <3>2
  <2> QED BY <2>1, <2>5, <2>6 DEF Moved, c
<1> QED BY <1>1, <1>2

LEMMA ReleaseLeavesOthers ==
  ASSUME NEW b, BookOK(b), NEW o \in Orders, NEW q \in Orders \ {o}, NEW t \in Skus
  PROVE  Book!ReleaseOrderNeeds(b, o).needs[q][t] = b.needs[q][t]
<1> DEFINE c == Book!ReleaseOrderNeeds(b, o)
<1>1. c.needs[q][t] = IF q = o /\ Book!LinkedOpen(b, o, t)
                      THEN [b.needs[q][t] EXCEPT !.link = 0] ELSE b.needs[q][t]
  <2>1. \A r \in Orders, s \in Skus :
          c.needs[r][s] = IF r = o /\ Book!LinkedOpen(b, o, s)
                          THEN [b.needs[r][s] EXCEPT !.link = 0] ELSE b.needs[r][s]
    BY ReleaseEffect
  <2> HIDE DEF c
  <2> QED BY <2>1
<1> QED BY <1>1

LEMMA ReleaseStands ==
  ASSUME NEW b, BookOK(b), ItemsStand(b), NEW o \in Orders, ~Book!ReleaseRaises(b, o)
  PROVE  LET c == Book!ReleaseOrderNeeds(b, o)
         IN  /\ ItemsStand(c)
             /\ \A s \in Skus : ~Book!LinkedOpen(c, o, s)
             /\ \A p \in Suppliers : \A n \in DOMAIN b.pos[p] : \A q \in Orders \ {o}, s \in Skus :
                  q \in Book!LinkedOrders(b, p, n, s) => c.pos[p][n].estado = b.pos[p][n].estado
<1> DEFINE c == Book!ReleaseOrderNeeds(b, o)
<1>1. /\ \A q \in Orders, t \in Skus :
           c.needs[q][t] = IF q = o /\ Book!LinkedOpen(b, o, t)
                           THEN [b.needs[q][t] EXCEPT !.link = 0] ELSE b.needs[q][t]
      /\ \A p \in Suppliers : DOMAIN c.pos[p] = DOMAIN b.pos[p]
      /\ \A p \in Suppliers : \A n \in DOMAIN b.pos[p] :
           /\ b.pos[p][n].estado # "OPEN" => c.pos[p][n] = b.pos[p][n]
           /\ b.pos[p][n].estado = "OPEN" => c.pos[p][n].quantity = Book!LeftOf(b, o, p, n)
           /\ c.pos[p][n].estado =
                IF /\ b.pos[p][n].estado = "OPEN"
                   /\ \E s \in Skus : o \in Book!LinkedOrders(b, p, n, s)
                   /\ Book!NothingLeft(b, o, p, n)
                THEN "CANCELLED" ELSE b.pos[p][n].estado
  BY ReleaseEffect
<1> HIDE DEF c
(* An item another need is on keeps something.                             *)
<1>2. ASSUME NEW p \in Suppliers, NEW n \in DOMAIN b.pos[p], b.pos[p][n].estado = "OPEN",
             NEW q \in Orders \ {o}, NEW s \in Skus, q \in Book!LinkedOrders(b, p, n, s)
      PROVE  Book!LeftOf(b, o, p, n)[s] > 0
  <2>1. n # 0
    BY DEF BookOK, BookType
  <2>2. CASE o \in Book!LinkedOrders(b, p, n, s)
    <3>1. Book!LinkedOpen(b, o, s) /\ b.needs[o][s].supplier = p /\ b.needs[o][s].link = n
      BY <1>2, <2>1, <2>2 DEF Book!LinkedOpen, Book!Linked, Book!LinkedPO, Book!LinkedOrders
    <3>2. Book!Remaining(b, o, s) # 0
      BY <1>2, <3>1 DEF Book!ReleaseRaises, Book!DetachViolatesFK
    <3>3. Book!Remaining(b, o, s) \in Nat
      BY <3>1, RemainingNat DEF Book!LinkedOpen
    <3>4. Book!LeftOf(b, o, p, n)[s] = Book!Remaining(b, o, s)
      BY <2>2 DEF Book!LeftOf
    <3> QED BY <3>2, <3>3, <3>4
  <2>3. CASE o \notin Book!LinkedOrders(b, p, n, s)
    <3>1. Book!LinkedOpen(b, q, s) /\ Book!LinkedPO(b, q, s) = b.pos[p][n]
      BY <1>2, <2>1 DEF Book!LinkedOpen, Book!Linked, Book!LinkedPO, Book!LinkedOrders
    <3>2. b.pos[p][n].quantity[s] > 0
      BY <3>1 DEF ItemsStand
    <3>3. Book!LeftOf(b, o, p, n)[s] = b.pos[p][n].quantity[s]
      BY <2>3 DEF Book!LeftOf
    <3> QED BY <3>2, <3>3
  <2> QED BY <2>2, <2>3
<1>3. NoneReopened(b, c)
  BY <1>1 DEF NoneReopened
<1>4. ASSUME NEW s \in Skus PROVE ~Book!LinkedOpen(c, o, s)
  <2> SUFFICES ASSUME Book!LinkedOpen(c, o, s) PROVE FALSE
    OBVIOUS
  <2> DEFINE need == b.needs[o][s]
  <2>1. need \in Book!Need
    BY DEF BookOK, BookType
  <2>2. CASE Book!LinkedOpen(b, o, s)
    <3>1. c.needs[o][s] = [need EXCEPT !.link = 0]
      BY <1>1, <2>2
    <3> HIDE DEF need
    <3>2. c.needs[o][s].link = 0
      BY <2>1, <3>1 DEF Book!Need
    <3> QED BY <3>2 DEF Book!LinkedOpen, Book!Linked
  <2>3. CASE ~Book!LinkedOpen(b, o, s)
    <3> HIDE DEF need
    <3>1. /\ c.needs[o][s].supplier = b.needs[o][s].supplier
          /\ c.needs[o][s].link = b.needs[o][s].link
      BY <1>1, <2>3
    <3>2. Book!LinkedOpen(b, o, s)
      BY <1>3, <3>1, SamePlace
    <3> QED BY <2>3, <3>2
  <2> QED BY <2>2, <2>3
<1>5. ItemsStand(c)
  <2> SUFFICES ASSUME NEW q \in Orders, NEW s \in Skus, Book!LinkedOpen(c, q, s)
               PROVE  Book!LinkedPO(c, q, s).quantity[s] > 0
    BY DEF ItemsStand
  <2> DEFINE p == b.needs[q][s].supplier
             n == b.needs[q][s].link
  <2>1. q # o
    BY <1>4
  <2>2. c.needs[q][s].supplier = b.needs[q][s].supplier /\ c.needs[q][s].link = b.needs[q][s].link
    BY <1>1, <2>1
  <2>3. /\ p \in Suppliers /\ n \in DOMAIN b.pos[p] /\ q \in Book!LinkedOrders(b, p, n, s)
        /\ Book!LinkedOpen(b, q, s)
        /\ Book!LinkedPO(b, q, s) = b.pos[p][n] /\ Book!LinkedPO(c, q, s) = c.pos[p][n]
    BY <1>3, <2>2, SamePlace
  <2> HIDE DEF p, n
  <2>4. b.pos[p][n].estado = "OPEN"
    BY <2>3 DEF Book!LinkedOpen
  <2>5. c.pos[p][n].quantity = Book!LeftOf(b, o, p, n)
    BY <1>1, <2>3, <2>4
  <2>6. Book!LeftOf(b, o, p, n)[s] > 0
    BY <1>2, <2>1, <2>3, <2>4
  <2> QED BY <2>3, <2>5, <2>6
<1>6. ASSUME NEW p \in Suppliers, NEW n \in DOMAIN b.pos[p], NEW q \in Orders \ {o}, NEW s \in Skus,
             q \in Book!LinkedOrders(b, p, n, s)
      PROVE  c.pos[p][n].estado = b.pos[p][n].estado
  <2>1. CASE b.pos[p][n].estado # "OPEN"
    BY <1>1, <2>1
  <2>2. CASE b.pos[p][n].estado = "OPEN"
    <3>1. Book!LeftOf(b, o, p, n)[s] > 0
      BY <1>2, <1>6, <2>2
    <3>2. ~Book!NothingLeft(b, o, p, n)
      BY <3>1 DEF Book!NothingLeft
    <3> QED BY <1>1, <3>2
  <2> QED BY <2>1, <2>2
<1> QED BY <1>4, <1>5, <1>6 DEF c

(* Whether an accumulation for s raises depends on what the book says of s *)
(* and on the states of the purchase orders.                               *)
LEMMA RaisesDependsOnSku ==
  ASSUME NEW b, NEW c, BookOK(b), BookOK(c), NEW o \in Orders, NEW s \in Skus, NEW p,
         SamePOs(b, c), SameSku(b, c, s), ~Book!AccumulateRaises(b, o, s, p)
  PROVE  ~Book!AccumulateRaises(c, o, s, p)
<1> DEFINE x == b.needs[o][s].supplier
           m == b.needs[o][s].link
<1>1. \A q \in Orders : c.needs[q][s] = b.needs[q][s]
  BY DEF SameSku
<1>2. Book!Reselected(c, o, s, p) <=> Book!Reselected(b, o, s, p)
  BY <1>1 DEF Book!Reselected
<1>3. Book!Linked(c, o, s) <=> Book!Linked(b, o, s)
  BY <1>1 DEF Book!Linked
<1>4. CASE ~Book!Linked(b, o, s)
  BY <1>3, <1>4 DEF Book!AccumulateRaises, Book!SelectionExecuted, Book!DetachViolatesFK, Book!LinkedOpen
<1>5. CASE Book!Linked(b, o, s)
  <2>1. x \in Suppliers /\ m \in DOMAIN b.pos[x]
    BY <1>5, LinkedPOType
  <2>2. /\ Book!LinkedPO(c, o, s).estado = Book!LinkedPO(b, o, s).estado
        /\ Book!LinkedPO(c, o, s).quantity[s] = Book!LinkedPO(b, o, s).quantity[s]
    BY <1>1, <2>1 DEF SamePOs, SameSku, Book!LinkedPO
  <2>3. Book!Remaining(c, o, s) = Book!Remaining(b, o, s)
    BY <1>1, <2>2 DEF Book!Remaining
  <2>4. Book!LinkedOrders(c, x, m, s) = Book!LinkedOrders(b, x, m, s)
    BY <1>1 DEF Book!LinkedOrders
  <2>5. c.needs[o][s].supplier = x /\ c.needs[o][s].link = m
    BY <1>1
  <2>6. Book!LinkedOpen(c, o, s) <=> Book!LinkedOpen(b, o, s)
    BY <1>3, <2>2 DEF Book!LinkedOpen
  <2>7. Book!DetachViolatesFK(c, o, s) <=> Book!DetachViolatesFK(b, o, s)
    BY <2>3, <2>4, <2>5, <2>6 DEF Book!DetachViolatesFK
  <2>8. Book!SelectionExecuted(c, o, s, p) <=> Book!SelectionExecuted(b, o, s, p)
    BY <1>2, <1>3, <2>2 DEF Book!SelectionExecuted
  <2> QED BY <1>2, <2>7, <2>8 DEF Book!AccumulateRaises
<1> QED BY <1>4, <1>5

-----------------------------------------------------------------------------
(* What a purchase order still to be sent asks for.                        *)

(* The needs that count towards an item, as rows to be summed.             *)
NeedRow(b, o, s) == [order |-> o, cantidad |-> b.needs[o][s].missing]

(* What the needs of the orders of S miss of SKU s.                        *)
SumOver(b, S, s) == Quantity({ NeedRow(b, o, s) : o \in S })

ItemSums(b, p, n, s) ==
  /\ IsFiniteSet(Book!LinkedOrders(b, p, n, s))
  /\ b.pos[p][n].quantity[s] = SumOver(b, Book!LinkedOrders(b, p, n, s), s)

SumsOK(b) ==
  \A p \in Suppliers : \A n \in Book!OpenPOs(b, p) : \A s \in Skus : ItemSums(b, p, n, s)

LEMMA NeedRowsAreRows ==
  ASSUME NEW b, BookOK(b), NEW s \in Skus, NEW S \in SUBSET Orders, IsFiniteSet(S)
  PROVE  Rows({ NeedRow(b, o, s) : o \in S })
<1> DEFINE R == { NeedRow(b, o, s) : o \in S }
           f == [o \in S |-> NeedRow(b, o, s)]
<1>1. R = { f[o] : o \in S }
  OBVIOUS
<1>2. IsFiniteSet({ f[o] : o \in S })
  BY ImageFinite
<1> HIDE DEF f
<1>3. IsFiniteSet(R)
  BY <1>1, <1>2
<1>4. \A r \in R : r.cantidad \in Nat
  BY DEF NeedRow, BookOK, BookType, Book!Need
<1> QED BY <1>3, <1>4 DEF Rows

(* The sum over some orders and one more.                                  *)
LEMMA OneMoreRow ==
  ASSUME NEW b, BookOK(b), NEW s \in Skus, NEW S \in SUBSET Orders, IsFiniteSet(S),
         NEW o \in Orders, o \notin S
  PROVE  /\ IsFiniteSet(S \cup {o})
         /\ SumOver(b, S \cup {o}, s) = SumOver(b, S, s) + b.needs[o][s].missing
         /\ SumOver(b, S, s) \in Nat
         /\ b.needs[o][s].missing \in Nat
<1> DEFINE R == { NeedRow(b, q, s) : q \in S }
           r == NeedRow(b, o, s)
<1>1. IsFiniteSet(S \cup {o})
  BY FS_AddElement
<1>2. Rows(R)
  BY NeedRowsAreRows
<1>3. { NeedRow(b, q, s) : q \in S \cup {o} } = R \cup {r}
  OBVIOUS
<1>4. r.cantidad = b.needs[o][s].missing /\ b.needs[o][s].missing \in Nat
  BY DEF NeedRow, BookOK, BookType, Book!Need
<1>5. R \cap {r} = {}
  BY DEF NeedRow
<1> HIDE DEF R, r
<1>6. Rows({r}) /\ Quantity({r}) = r.cantidad
  BY <1>4, QuantitySingleton
<1>7. Quantity(R \cup {r}) = Quantity(R) + Quantity({r})
  BY <1>2, <1>5, <1>6, QuantityUnion
<1>8. Quantity(R) \in Nat
  BY <1>2, QuantityNat
<1>9. SumOver(b, S, s) = Quantity(R) /\ SumOver(b, S \cup {o}, s) = Quantity(R \cup {r})
  BY <1>3 DEF SumOver, R
<1> QED BY <1>1, <1>4, <1>6, <1>7, <1>8, <1>9

LEMMA SumOverNothing ==
  ASSUME NEW b, NEW s
  PROVE  SumOver(b, {}, s) = 0
<1>1. { NeedRow(b, o, s) : o \in {} } = {}
  OBVIOUS
<1> QED BY <1>1, QuantityEmpty DEF SumOver

(* What a need's item asks for besides that need is the sum of the others. *)
LEMMA WithoutNeedSums ==
  ASSUME NEW b, BookOK(b), SumsOK(b), NEW o \in Orders, NEW s \in Skus,
         NEW x \in Suppliers, NEW m, m # 0,
         m \in DOMAIN b.pos[x] => b.pos[x][m].estado = "OPEN"
  PROVE  LET S == Book!LinkedOrders(b, x, m, s) \ {o}
         IN  /\ IsFiniteSet(S)
             /\ WithoutNeed(b, o, s, x, m, s) = SumOver(b, S, s)
<1> DEFINE L == Book!LinkedOrders(b, x, m, s)
           S == L \ {o}
           Q(T) == SumOver(b, T, s)
<1>1. CASE m \notin DOMAIN b.pos[x]
  <2>1. \A q \in Orders : LinkOK(b, b.needs[q][s])
    BY DEF BookOK
  <2>2. L = {}
    BY <1>1, <2>1 DEF LinkOK, Book!LinkedOrders
  <2>3. S = {}
    BY <2>2
  <2> QED BY <1>1, <2>3, SumOverNothing, FS_EmptySet DEF WithoutNeed
<1>2. CASE m \in DOMAIN b.pos[x]
  <2>1. IsFiniteSet(L) /\ b.pos[x][m].quantity[s] = Q(L)
    BY <1>2 DEF SumsOK, ItemSums, Book!OpenPOs
  <2>2. L \in SUBSET Orders /\ S \in SUBSET Orders /\ S \in SUBSET L
    BY DEF Book!LinkedOrders
  <2>3. IsFiniteSet(S)
    BY <2>1, <2>2, FS_Subset
  <2>4. CASE o \in L
    <3>1. /\ b.needs[o][s].supplier = x /\ b.needs[o][s].link = m
          /\ Book!LinkedOpen(b, o, s) /\ Book!LinkedPO(b, o, s) = b.pos[x][m]
      BY <1>2, <2>4 DEF Book!LinkedOrders, Book!LinkedOpen, Book!Linked, Book!LinkedPO
    <3>2. S \cup {o} = L
      BY <2>4
    <3> HIDE DEF S, L
    <3>3. /\ Q(S \cup {o}) = Q(S) + b.needs[o][s].missing
          /\ Q(S) \in Nat /\ b.needs[o][s].missing \in Nat
      <4>1. o \notin S
        BY DEF S
      <4> QED BY <2>2, <2>3, <4>1, OneMoreRow
    <3> HIDE DEF Q
    <3>4. Book!Remaining(b, o, s) = Q(S)
      <4>1. Book!LinkedPO(b, o, s).quantity[s] = Q(S) + b.needs[o][s].missing
        BY <2>1, <3>1, <3>2, <3>3
      <4>2. Book!LinkedPO(b, o, s).quantity[s] - b.needs[o][s].missing = Q(S)
        BY <3>3, <4>1
      <4>3. Book!Remaining(b, o, s) = IF Q(S) > 0 THEN Q(S) ELSE 0
        BY <4>2 DEF Book!Remaining
      <4> QED BY <3>3, <4>3
    <3>5. WithoutNeed(b, o, s, x, m, s) = Q(S)
      BY <1>2, <3>1, <3>4 DEF WithoutNeed
    <3> QED BY <2>3, <3>5 DEF S, L, Q
  <2>5. CASE o \notin L
    <3>1. S = L
      BY <2>5
    <3>2. ~(b.needs[o][s].supplier = x /\ b.needs[o][s].link = m)
      BY <2>5 DEF Book!LinkedOrders
    <3>3. WithoutNeed(b, o, s, x, m, s) = b.pos[x][m].quantity[s]
      BY <1>2, <3>2 DEF WithoutNeed
    <3> QED BY <2>1, <3>1, <3>3
  <2> QED BY <2>4, <2>5
<1> QED BY <1>1, <1>2

(* The same needs, missing the same, miss the same in all.                 *)
LEMMA SameSum ==
  ASSUME NEW b, NEW c, NEW s, NEW S, \A q \in S : c.needs[q][s].missing = b.needs[q][s].missing
  PROVE  SumOver(c, S, s) = SumOver(b, S, s)
<1>1. { NeedRow(c, q, s) : q \in S } = { NeedRow(b, q, s) : q \in S }
  BY DEF NeedRow
<1> QED BY <1>1 DEF SumOver

LEMMA UpsertSums ==
  ASSUME NEW b, BookOK(b), SumsOK(b), NEW o \in Orders, NEW s \in Skus, ~Book!Linked(b, o, s),
         NEW quantity \in Nat
  PROVE  SumsOK(Book!UpsertNeed(b, o, s, quantity))
<1> DEFINE c == Book!UpsertNeed(b, o, s, quantity)
<1>1. /\ c.pos = b.pos
      /\ \A q \in Orders, t \in Skus :
           c.needs[q][t] = IF q = o /\ t = s THEN [b.needs[q][t] EXCEPT !.missing = quantity]
                           ELSE b.needs[q][t]
  BY UpsertEffect
<1> HIDE DEF c
<1>2. ASSUME NEW q \in Orders, NEW t \in Skus
      PROVE  /\ c.needs[q][t].supplier = b.needs[q][t].supplier /\ c.needs[q][t].link = b.needs[q][t].link
             /\ ~(q = o /\ t = s) => c.needs[q][t].missing = b.needs[q][t].missing
  <2> DEFINE need == b.needs[q][t]
  <2>1. c.needs[q][t] = IF q = o /\ t = s THEN [need EXCEPT !.missing = quantity] ELSE need
    BY <1>1
  <2>2. need \in Book!Need
    BY DEF BookOK, BookType
  <2> HIDE DEF need
  <2>3. /\ c.needs[q][t].supplier = need.supplier /\ c.needs[q][t].link = need.link
        /\ ~(q = o /\ t = s) => c.needs[q][t].missing = need.missing
    BY <2>1, <2>2 DEF Book!Need
  <2> QED BY <2>3 DEF need
<1> SUFFICES ASSUME NEW p \in Suppliers, NEW n \in Book!OpenPOs(c, p), NEW t \in Skus
             PROVE  ItemSums(c, p, n, t)
  BY DEF SumsOK, c
<1> DEFINE L == Book!LinkedOrders(b, p, n, t)
<1>3. Book!LinkedOrders(c, p, n, t) = L
  BY <1>2 DEF Book!LinkedOrders
<1>4. n \in DOMAIN b.pos[p] /\ ItemSums(b, p, n, t)
  BY <1>1 DEF SumsOK, Book!OpenPOs
<1>5. n # 0
  BY <1>4 DEF BookOK, BookType
<1>6. \A q \in L : q \in Orders /\ ~(q = o /\ t = s)
  BY <1>5 DEF Book!LinkedOrders, Book!Linked
<1> HIDE DEF L
<1>7. \A q \in L : c.needs[q][t].missing = b.needs[q][t].missing
  BY <1>2, <1>6
<1>8. SumOver(c, L, t) = SumOver(b, L, t)
  BY <1>7, SameSum
<1> QED BY <1>1, <1>3, <1>4, <1>8 DEF ItemSums, L

LEMMA AccumulateSums ==
  ASSUME NEW b, BookOK(b), SumsOK(b), NEW o \in Orders, NEW s \in Skus, NEW p \in Suppliers,
         ~Book!AccumulateRaises(b, o, s, p)
  PROVE  SumsOK(Book!AccumulateNeed(b, o, s, p))
<1> DEFINE c == Book!AccumulateNeed(b, o, s, p)
<1>1. c = b \/ \E n \in DOMAIN c.pos[p] : Moved(b, c, o, s, p, n)
  BY AccumulateEffect
<1>2. BookOK(c)
  BY AccumulateOK
<1> HIDE DEF c
<1>3. SUFFICES ASSUME NEW n \in DOMAIN c.pos[p], Moved(b, c, o, s, p, n),
                      NEW x \in Suppliers, NEW m \in Book!OpenPOs(c, x), NEW t \in Skus
               PROVE  ItemSums(c, x, m, t)
  BY <1>1 DEF SumsOK, c
<1>4. m \in DOMAIN c.pos[x] /\ c.pos[x][m].estado = "OPEN"
  BY DEF Book!OpenPOs
<1>5. m # 0
  BY <1>2, <1>4 DEF BookOK, BookType
<1>6. m \in DOMAIN b.pos[x] => b.pos[x][m].estado = "OPEN"
  BY <1>3, <1>4 DEF Moved, SamePOs
<1>7. b.needs[o][s] \in Book!Need /\ \A q \in Orders : LinkOK(b, b.needs[q][t])
  BY DEF BookOK, BookType
<1>8. \A q \in Orders : c.needs[q][t].missing = b.needs[q][t].missing
  BY <1>3, <1>7 DEF Moved, Book!Need
<1>9. c.pos[x][m].quantity[t] =
        WithoutNeed(b, o, s, x, m, t) + (IF t = s /\ x = p /\ m = n THEN b.needs[o][s].missing ELSE 0)
  BY <1>3, <1>4 DEF Moved
<1> DEFINE L == Book!LinkedOrders(b, x, m, t)
           M == Book!LinkedOrders(c, x, m, t)
<1>10. L \in SUBSET Orders /\ M \in SUBSET Orders
  BY DEF Book!LinkedOrders
<1>11. SumOver(c, M, t) = SumOver(b, M, t)
  <2>1. \A q \in M : c.needs[q][t].missing = b.needs[q][t].missing
    BY <1>8, <1>10
  <2> HIDE DEF M
  <2> QED BY <2>1, SameSum
<1>12. CASE t # s
  <2>1. M = L
    BY <1>3, <1>12 DEF Moved, Book!LinkedOrders
  <2>2. c.pos[x][m].quantity[t] = IF m \in DOMAIN b.pos[x] THEN b.pos[x][m].quantity[t] ELSE 0
    <3>1. m \in DOMAIN b.pos[x] => b.pos[x][m].quantity[t] \in Nat
      <4>1. m \in DOMAIN b.pos[x] => b.pos[x][m] \in Book!PurchaseOrder
        BY DEF BookOK, BookType
      <4> QED BY <4>1 DEF Book!PurchaseOrder
    <3> QED BY <1>9, <1>12, <3>1 DEF WithoutNeed
  <2>3. CASE m \in DOMAIN b.pos[x]
    <3>1. ItemSums(b, x, m, t)
      BY <1>6, <2>3 DEF SumsOK, Book!OpenPOs
    <3> QED BY <1>11, <2>1, <2>2, <2>3, <3>1 DEF ItemSums
  <2>4. CASE m \notin DOMAIN b.pos[x]
    <3>1. L = {}
      BY <1>5, <1>7, <2>4 DEF LinkOK, Book!LinkedOrders
    <3>2. M = {}
      BY <2>1, <3>1
    <3> QED BY <2>2, <2>4, <3>2, SumOverNothing, FS_EmptySet DEF ItemSums
  <2> QED BY <2>3, <2>4
<1>13. CASE t = s
  <2> DEFINE S == L \ {o}
             Q(T) == SumOver(b, T, s)
  <2>1. IsFiniteSet(S) /\ WithoutNeed(b, o, s, x, m, s) = Q(S)
    BY <1>5, <1>6, <1>13, WithoutNeedSums
  <2>2. M = IF x = p /\ m = n THEN S \cup {o} ELSE S
    <3>1. c.needs[o][s] = [b.needs[o][s] EXCEPT !.supplier = p, !.link = n]
      BY <1>3 DEF Moved
    <3>2. c.needs[o][s].supplier = p /\ c.needs[o][s].link = n
      BY <1>7, <3>1 DEF Book!Need
    <3>3. \A q \in Orders \ {o} : c.needs[q][s] = b.needs[q][s]
      BY <1>3 DEF Moved
    <3> QED BY <1>13, <3>2, <3>3 DEF Book!LinkedOrders
  <2> HIDE DEF M
  <2>3. S \in SUBSET Orders /\ o \notin S
    BY <1>10
  <2> HIDE DEF S
  <2>4. /\ IsFiniteSet(S \cup {o})
        /\ Q(S \cup {o}) = Q(S) + b.needs[o][s].missing
        /\ Q(S) \in Nat
    BY <2>1, <2>3, OneMoreRow
  <2>5. IsFiniteSet(M) /\ c.pos[x][m].quantity[t] = Q(M)
    <3> HIDE DEF Q
    <3> QED BY <1>9, <1>13, <2>1, <2>2, <2>4
  <2>6. c.pos[x][m].quantity[t] = SumOver(c, M, t)
    BY <1>11, <1>13, <2>5
  <2> QED BY <2>5, <2>6 DEF ItemSums, M
<1> QED BY <1>12, <1>13

LEMMA ReleaseSums ==
  ASSUME NEW b, BookOK(b), SumsOK(b), NEW o \in Orders
  PROVE  SumsOK(Book!ReleaseOrderNeeds(b, o))
<1> DEFINE c == Book!ReleaseOrderNeeds(b, o)
<1>1. /\ \A q \in Orders, t \in Skus :
           c.needs[q][t] = IF q = o /\ Book!LinkedOpen(b, o, t)
                           THEN [b.needs[q][t] EXCEPT !.link = 0] ELSE b.needs[q][t]
      /\ \A p \in Suppliers : DOMAIN c.pos[p] = DOMAIN b.pos[p]
      /\ \A p \in Suppliers : \A n \in DOMAIN b.pos[p] :
           /\ b.pos[p][n].estado # "OPEN" => c.pos[p][n] = b.pos[p][n]
           /\ b.pos[p][n].estado = "OPEN" => c.pos[p][n].quantity = Book!LeftOf(b, o, p, n)
  BY ReleaseEffect
<1> HIDE DEF c
<1> SUFFICES ASSUME NEW p \in Suppliers, NEW n \in Book!OpenPOs(c, p), NEW t \in Skus
             PROVE  ItemSums(c, p, n, t)
  BY DEF SumsOK, c
<1>2. n \in DOMAIN b.pos[p] /\ b.pos[p][n].estado = "OPEN"
  BY <1>1 DEF Book!OpenPOs
<1>3. n # 0
  BY <1>2 DEF BookOK, BookType
<1> DEFINE S == Book!LinkedOrders(b, p, n, t) \ {o}
<1>4. IsFiniteSet(S) /\ WithoutNeed(b, o, t, p, n, t) = SumOver(b, S, t)
  BY <1>2, <1>3, WithoutNeedSums
<1>5. c.pos[p][n].quantity[t] = WithoutNeed(b, o, t, p, n, t)
  <2>1. c.pos[p][n].quantity[t] = IF o \in Book!LinkedOrders(b, p, n, t) THEN Book!Remaining(b, o, t)
                                  ELSE b.pos[p][n].quantity[t]
    <3>1. c.pos[p][n].quantity = Book!LeftOf(b, o, p, n)
      BY <1>1, <1>2
    <3>2. Book!LeftOf(b, o, p, n)[t] = IF o \in Book!LinkedOrders(b, p, n, t) THEN Book!Remaining(b, o, t)
                                       ELSE b.pos[p][n].quantity[t]
      BY DEF Book!LeftOf
    <3> QED BY <3>1, <3>2
  <2> QED BY <1>2, <1>3, <2>1 DEF WithoutNeed, Book!LinkedOrders, Book!LinkedOpen, Book!Linked, Book!LinkedPO
<1>6. ASSUME NEW q \in Orders
      PROVE  /\ c.needs[q][t].missing = b.needs[q][t].missing
             /\ c.needs[q][t].supplier = p /\ c.needs[q][t].link = n <=>
                  q # o /\ b.needs[q][t].supplier = p /\ b.needs[q][t].link = n
  <2> DEFINE need == b.needs[q][t]
  <2>1. need \in Book!Need
    BY DEF BookOK, BookType
  <2>2. CASE q = o /\ Book!LinkedOpen(b, o, t)
    <3>1. c.needs[q][t] = [need EXCEPT !.link = 0]
      BY <1>1, <2>2
    <3> HIDE DEF need
    <3>2. c.needs[q][t].missing = need.missing /\ c.needs[q][t].link = 0
      BY <2>1, <3>1 DEF Book!Need
    <3> QED BY <1>3, <2>2, <3>2 DEF need
  <2>3. CASE ~(q = o /\ Book!LinkedOpen(b, o, t))
    <3>1. c.needs[q][t] = b.needs[q][t]
      BY <1>1, <2>3
    <3>2. b.needs[o][t].supplier = p /\ b.needs[o][t].link = n => Book!LinkedOpen(b, o, t)
      BY <1>2, <1>3 DEF Book!LinkedOpen, Book!Linked, Book!LinkedPO
    <3> QED BY <2>3, <3>1, <3>2
  <2> QED BY <2>2, <2>3
<1>7. Book!LinkedOrders(c, p, n, t) = S
  BY <1>6 DEF Book!LinkedOrders
<1>8. SumOver(c, S, t) = SumOver(b, S, t)
  <2>1. \A q \in S : c.needs[q][t].missing = b.needs[q][t].missing
    BY <1>6 DEF Book!LinkedOrders
  <2> HIDE DEF S
  <2> QED BY <2>1, SameSum
<1> QED BY <1>4, <1>5, <1>7, <1>8 DEF ItemSums

(* The purchase order's own transitions open none and leave quantities.    *)
LEMMA WithPOSums ==
  ASSUME NEW b, BookOK(b), SumsOK(b), NEW p \in Suppliers, NEW n \in DOMAIN b.pos[p], NEW po,
         po.quantity = b.pos[p][n].quantity, po.estado # "OPEN"
  PROVE  SumsOK(WithPO(b, p, n, po))
<1> DEFINE c == WithPO(b, p, n, po)
<1>1. b \in BookType
  BY DEF BookOK
<1>2. c.needs = b.needs
  BY <1>1 DEF WithPO, BookType
<1>3. ASSUME NEW x \in Suppliers, NEW m \in Book!OpenPOs(c, x)
      PROVE  m \in Book!OpenPOs(b, x) /\ c.pos[x][m] = b.pos[x][m]
  <2>1. m \in DOMAIN c.pos[x] /\ c.pos[x][m].estado = "OPEN"
    BY DEF Book!OpenPOs
  <2>2. DOMAIN c.pos[x] = DOMAIN b.pos[x]
    BY <1>1 DEF WithPO, BookType
  <2>3. c.pos[x][m] = IF x = p /\ m = n THEN po ELSE b.pos[x][m]
    BY <1>1, <2>1, <2>2 DEF WithPO, BookType
  <2> QED BY <2>1, <2>2, <2>3 DEF Book!OpenPOs
<1> HIDE DEF c
<1> SUFFICES ASSUME NEW x \in Suppliers, NEW m \in Book!OpenPOs(c, x), NEW t \in Skus
             PROVE  ItemSums(c, x, m, t)
  BY DEF SumsOK, c
<1>4. Book!LinkedOrders(c, x, m, t) = Book!LinkedOrders(b, x, m, t)
  BY <1>2 DEF Book!LinkedOrders
<1>5. SumOver(c, Book!LinkedOrders(b, x, m, t), t) = SumOver(b, Book!LinkedOrders(b, x, m, t), t)
  BY <1>2, SameSum
<1>6. ItemSums(b, x, m, t)
  BY <1>3 DEF SumsOK
<1> QED BY <1>3, <1>4, <1>5, <1>6 DEF ItemSums

-----------------------------------------------------------------------------
(* The loops again, for what they leave of the items.                      *)

(* On the way from book a, where a loop of order o has been through the    *)
(* SKUs of J: the other SKUs and the other orders' needs are as in a.      *)
Along(a, b, o, J) ==
  /\ BookOK(b) /\ ItemsStand(b) /\ SamePOs(a, b)
  /\ \A t \in Skus \ J : SameSku(a, b, t)
  /\ \A q \in Orders \ {o}, t \in Skus : b.needs[q][t] = a.needs[q][t]

LEMMA AlongMore ==
  ASSUME NEW a, NEW b, NEW o, NEW J, NEW I \in SUBSET J, Along(a, b, o, I)
  PROVE  Along(a, b, o, J)
BY DEF Along

LEMMA AlongUpsert ==
  ASSUME NEW a, NEW b, NEW o \in Orders, NEW J, NEW s \in Skus, s \in J, Along(a, b, o, J),
         NEW quantity \in Nat
  PROVE  Along(a, Book!UpsertNeed(b, o, s, quantity), o, J)
<1> DEFINE c == Book!UpsertNeed(b, o, s, quantity)
<1>1. BookOK(b) /\ ItemsStand(b) /\ SamePOs(a, b)
  BY DEF Along
<1>2. BookOK(c)
  BY <1>1, UpsertNeedOK
<1>3. /\ ItemsStand(c) /\ SamePOs(b, c)
      /\ \A t \in Skus \ {s} : SameSku(b, c, t)
      /\ \A q \in Orders \ {o}, t \in Skus : c.needs[q][t] = b.needs[q][t]
  BY <1>1, UpsertStands
<1> HIDE DEF c
<1>4. SamePOs(a, c)
  BY <1>1, <1>3, SamePOsTransitive
<1>5. \A t \in Skus \ J : SameSku(a, c, t)
  BY <1>1, <1>3 DEF Along, SameSku, SamePOs
<1> QED BY <1>2, <1>3, <1>4, <1>5 DEF Along, c

LEMMA AlongAccumulate ==
  ASSUME NEW a, NEW b, NEW o \in Orders, NEW J, NEW s \in Skus, s \in J, Along(a, b, o, J),
         NEW p \in Suppliers, ~Book!AccumulateRaises(b, o, s, p), b.needs[o][s].missing > 0
  PROVE  Along(a, Book!AccumulateNeed(b, o, s, p), o, J)
<1> DEFINE c == Book!AccumulateNeed(b, o, s, p)
<1>1. BookOK(b) /\ ItemsStand(b) /\ SamePOs(a, b)
  BY DEF Along
<1>2. BookOK(c)
  BY <1>1, AccumulateOK
<1>3. /\ ItemsStand(c) /\ SamePOs(b, c)
      /\ \A t \in Skus \ {s} : \A q \in Orders : c.needs[q][t] = b.needs[q][t]
      /\ \A t \in Skus \ {s} : \A x \in Suppliers : \A m \in DOMAIN b.pos[x] :
           c.pos[x][m].quantity[t] = b.pos[x][m].quantity[t]
      /\ \A q \in Orders \ {o}, t \in Skus : c.needs[q][t] = b.needs[q][t]
  BY <1>1, AccumulateStands
<1> HIDE DEF c
<1>4. SamePOs(a, c)
  BY <1>1, <1>3, SamePOsTransitive
<1>5. \A t \in Skus \ J : SameSku(a, c, t)
  BY <1>1, <1>3 DEF Along, SameSku, SamePOs
<1> QED BY <1>2, <1>3, <1>4, <1>5 DEF Along, c

(* From book a to b, what the OPEN purchase orders ask for still adds up,  *)
(* if at the start the needs of o for the SKUs of J were unlinked.         *)
SumsKept(a, b, o, J) ==
  SumsOK(a) /\ (\A s \in J : ~Book!Linked(a, o, s)) => SumsOK(b)

(* The selections of an answer none of which raises.                       *)
LEMMA SelectionStands ==
  ASSUME BookOK(book), ItemsStand(book), NEW o \in Orders, NEW K \in SUBSET Skus, IsFiniteSet(K),
         NEW answer \in [K -> Suppliers],
         \A s \in K : Book!HasNeed(book, o, s) /\ ~Book!AccumulateRaises(book, o, s, answer[s])
  PROVE  /\ Along(book, AfterSelection(o, answer), o, K)
         /\ SumsOK(book) => SumsOK(AfterSelection(o, answer))
<1>1. PICK iter :
        /\ AfterSelection(o, answer) = iter[K]
        /\ iter[{}] = book
        /\ \A J \in SUBSET K : J # {} =>
             \E s \in J : iter[J] = Book!AccumulateNeed(iter[J \ {s}], o, s, answer[s])
  BY SelectionLoop
<1> DEFINE Good == { J \in SUBSET K : Along(book, iter[J], o, J) /\ (SumsOK(book) => SumsOK(iter[J])) }
<1>2. {} \in Good
  BY <1>1 DEF Along, SamePOs, SameSku
<1>3. ASSUME NEW J \in SUBSET K, J # {}
      PROVE  \E s \in J : J \ {s} \in Good => J \in Good
  <2>1. PICK s \in J : iter[J] = Book!AccumulateNeed(iter[J \ {s}], o, s, answer[s])
    BY <1>1, <1>3
  <2> SUFFICES ASSUME J \ {s} \in Good PROVE J \in Good
    OBVIOUS
  <2> DEFINE b == iter[J \ {s}]
  <2>2. Along(book, b, o, J \ {s}) /\ (SumsOK(book) => SumsOK(b))
    OBVIOUS
  <2> HIDE DEF b
  <2>3. Along(book, b, o, J) /\ BookOK(b) /\ SamePOs(book, b) /\ SameSku(book, b, s)
    BY <2>2, AlongMore DEF Along
  <2>4. ~Book!AccumulateRaises(b, o, s, answer[s])
    BY <2>3, RaisesDependsOnSku
  <2>5. b.needs[o][s].missing > 0
    BY <2>3 DEF SameSku, Book!HasNeed
  <2>6. Along(book, Book!AccumulateNeed(b, o, s, answer[s]), o, J)
    BY <2>3, <2>4, <2>5, AlongAccumulate
  <2>7. SumsOK(b) => SumsOK(Book!AccumulateNeed(b, o, s, answer[s]))
    BY <2>3, <2>4, AccumulateSums
  <2> QED BY <2>1, <2>2, <2>6, <2>7 DEF b
<1> HIDE DEF Good
<1>4. K \in Good
  BY <1>2, <1>3, FiniteInductiveSet
<1> QED BY <1>1, <1>4 DEF Good

(* An auto-sourced SKU has a line, hence a quantity.                       *)
LEMMA RagQuantityPositive ==
  ASSUME ItemsOK, ItemsFromCatalog, NEW o, NEW s \in AutoSourcedSkus(o)
  PROVE  RagQuantity(o, s) > 0
<1> DEFINE R == OfSku(RagItems(o), s)
<1>1. Rows(items)
  BY DEF ItemsOK, Rows, Item
<1>2. R \in SUBSET items
  BY DEF OfSku, RagItems, OfOrder
<1>3. PICK i \in R : TRUE
  BY DEF AutoSourcedSkus, AutoSourced, OfSku
<1>4. i.cantidad \in Nat /\ i.cantidad > 0
  BY <1>2, <1>3 DEF ItemsOK, Item, ItemsFromCatalog
<1> HIDE DEF R
<1>5. Rows(R) /\ {i} \in SUBSET R
  BY <1>1, <1>2, <1>3, RowsSubset
<1>6. Quantity({i}) <= Quantity(R) /\ Quantity({i}) = i.cantidad /\ Quantity(R) \in Nat
  BY <1>4, <1>5, QuantitySubset, QuantitySingleton, QuantityNat
<1> QED BY <1>4, <1>6 DEF RagQuantity, R

LEMMA AutoSourceStands ==
  ASSUME OrderInv, ItemsFromCatalog, BookOK(book), ItemsStand(book), NEW o \in Orders,
         ~AutoSourceRaises(o)
  PROVE  /\ Along(book, AfterAutoSource(o), o, AutoSourcedSkus(o))
         /\ SumsKept(book, AfterAutoSource(o), o, AutoSourcedSkus(o))
<1> DEFINE K == AutoSourcedSkus(o)
<1>1. PICK iter :
        /\ AfterAutoSource(o) = iter[K]
        /\ iter[{}] = book
        /\ \A J \in SUBSET K : J # {} =>
             \E s \in J : iter[J] = Book!AccumulateNeed(UpsertRag(iter[J \ {s}], o, s),
                                                        o, s, SupplierOfSku(o, s))
  BY AutoSourceLoop
<1> DEFINE Good == { J \in SUBSET K : Along(book, iter[J], o, J) /\ SumsKept(book, iter[J], o, K) }
<1>2. {} \in Good
  BY <1>1 DEF Along, SamePOs, SameSku, SumsKept
<1>3. ASSUME NEW J \in SUBSET K, J # {}
      PROVE  \E s \in J : J \ {s} \in Good => J \in Good
  <2>1. PICK s \in J : iter[J] = Book!AccumulateNeed(UpsertRag(iter[J \ {s}], o, s),
                                                     o, s, SupplierOfSku(o, s))
    BY <1>1, <1>3
  <2> SUFFICES ASSUME J \ {s} \in Good PROVE J \in Good
    OBVIOUS
  <2> DEFINE b == iter[J \ {s}]
             p == SupplierOfSku(o, s)
             u == UpsertRag(b, o, s)
             v == UpsertRag(book, o, s)
  <2>2. p \in Suppliers /\ RagQuantity(o, s) \in Nat /\ RagQuantity(o, s) > 0 /\ s \in Skus
    BY SupplierFound, RagQuantityOK, RagQuantityPositive, LineSkus DEF OrderInv
  <2>3. Along(book, b, o, J \ {s}) /\ SumsKept(book, b, o, K)
    OBVIOUS
  <2>4. ~Book!AccumulateRaises(v, o, s, p)
    BY DEF AutoSourceRaises
  <2> HIDE DEF b, p
  <2>5. Along(book, b, o, J) /\ BookOK(b) /\ SamePOs(book, b) /\ SameSku(book, b, s)
    BY <2>2, <2>3, AlongMore DEF Along
  <2>6. Along(book, u, o, J)
    BY <2>2, <2>5, AlongUpsert DEF UpsertRag
  <2>7. BookOK(u) /\ u.needs[o][s].missing > 0
    BY <2>2, <2>5, <2>6, UpsertEffect, UpsertStands DEF Along, UpsertRag
  <2>8. BookOK(v)
    BY <2>2, UpsertNeedOK DEF UpsertRag
  <2>9. SamePOs(v, u) /\ SameSku(v, u, s)
    <3>1. /\ v.pos = book.pos
          /\ \A q \in Orders, t \in Skus :
               v.needs[q][t] = IF q = o /\ t = s THEN [book.needs[q][t] EXCEPT !.missing = RagQuantity(o, s)]
                               ELSE book.needs[q][t]
      BY <2>2, UpsertEffect DEF UpsertRag
    <3>2. /\ u.pos = b.pos
          /\ \A q \in Orders, t \in Skus :
               u.needs[q][t] = IF q = o /\ t = s THEN [b.needs[q][t] EXCEPT !.missing = RagQuantity(o, s)]
                               ELSE b.needs[q][t]
      BY <2>2, <2>5, UpsertEffect DEF UpsertRag
    <3> HIDE DEF u, v
    <3>3. SamePOs(v, u)
      BY <2>5, <3>1, <3>2 DEF SamePOs
    <3>4. \A q \in Orders : u.needs[q][s] = v.needs[q][s]
      <4> TAKE q \in Orders
      <4>1. b.needs[q][s] = book.needs[q][s]
        BY <2>5 DEF SameSku
      <4>2. CASE q = o
        <5>1. v.needs[o][s] = [book.needs[o][s] EXCEPT !.missing = RagQuantity(o, s)]
          BY <2>2, <3>1
        <5>2. u.needs[o][s] = [b.needs[o][s] EXCEPT !.missing = RagQuantity(o, s)]
          BY <2>2, <3>2
        <5> QED BY <4>1, <4>2, <5>1, <5>2
      <4>3. CASE q # o
        BY <2>2, <3>1, <3>2, <4>1, <4>3
      <4> QED BY <4>2, <4>3
    <3>5. \A x \in Suppliers : \A n \in DOMAIN v.pos[x] : u.pos[x][n].quantity[s] = v.pos[x][n].quantity[s]
      BY <2>5, <3>1, <3>2 DEF SameSku
    <3> QED BY <3>3, <3>4, <3>5 DEF SameSku
  <2> HIDE DEF u, v
  <2>10. ~Book!AccumulateRaises(u, o, s, p)
    BY <2>2, <2>4, <2>7, <2>8, <2>9, RaisesDependsOnSku
  <2>11. Along(book, Book!AccumulateNeed(u, o, s, p), o, J)
    BY <2>2, <2>6, <2>7, <2>10, AlongAccumulate
  <2>12. SumsKept(book, Book!AccumulateNeed(u, o, s, p), o, K)
    <3>1. SUFFICES ASSUME SumsOK(book), \A t \in K : ~Book!Linked(book, o, t)
                   PROVE  SumsOK(Book!AccumulateNeed(u, o, s, p))
      BY DEF SumsKept
    <3>2. SumsOK(b) /\ ~Book!Linked(book, o, s) /\ ~Book!Linked(b, o, s)
      BY <2>3, <2>5, <3>1 DEF SumsKept, SameSku, Book!Linked
    <3>3. SumsOK(u)
      BY <2>2, <2>5, <3>2, UpsertSums DEF u, UpsertRag
    <3> QED BY <2>2, <2>7, <2>10, <3>3, AccumulateSums
  <2> QED BY <2>1, <2>11, <2>12 DEF b, p, u
<1>4. IsFiniteSet(K)
  BY LineSkus DEF OrderInv
<1> HIDE DEF Good, K
<1>5. K \in Good
  BY <1>2, <1>3, <1>4, FiniteInductiveSet
<1> QED BY <1>1, <1>5 DEF Good, K

(* The purchase order's own transitions neither open one nor change what   *)
(* it asks for.                                                            *)
LEMMA WithPOStands ==
  ASSUME NEW b, BookOK(b), ItemsStand(b), NEW p \in Suppliers, NEW n \in DOMAIN b.pos[p], NEW po,
         po.quantity = b.pos[p][n].quantity, po.estado = "OPEN" => b.pos[p][n].estado = "OPEN"
  PROVE  ItemsStand(WithPO(b, p, n, po))
<1> DEFINE c == WithPO(b, p, n, po)
<1>1. b \in BookType
  BY DEF BookOK
<1>2. c.needs = b.needs
  BY <1>1 DEF WithPO, BookType
<1>3. ASSUME NEW x \in Suppliers, NEW m \in DOMAIN b.pos[x]
      PROVE  /\ c.pos[x][m].quantity = b.pos[x][m].quantity
             /\ c.pos[x][m].estado = "OPEN" => b.pos[x][m].estado = "OPEN"
  <2>1. CASE <<x, m>> = <<p, n>>
    BY <1>1, <2>1 DEF WithPO, BookType
  <2>2. CASE <<x, m>> # <<p, n>>
    BY <1>1, <2>2 DEF WithPO, BookType
  <2> QED BY <2>1, <2>2
<1> HIDE DEF c
<1> SUFFICES ASSUME NEW q \in Orders, NEW s \in Skus, Book!LinkedOpen(c, q, s)
             PROVE  Book!LinkedPO(c, q, s).quantity[s] > 0
  BY DEF ItemsStand, c
<1> DEFINE x == b.needs[q][s].supplier
           m == b.needs[q][s].link
<1>4. /\ x \in Suppliers /\ m \in DOMAIN b.pos[x] /\ Book!LinkedOpen(b, q, s)
      /\ Book!LinkedPO(b, q, s) = b.pos[x][m] /\ Book!LinkedPO(c, q, s) = c.pos[x][m]
  <2>1. NoneReopened(b, c)
    BY <1>3 DEF NoneReopened
  <2> QED BY <1>2, <2>1, SamePlace
<1> HIDE DEF x, m
<1>5. b.pos[x][m].quantity[s] > 0
  BY <1>4 DEF ItemsStand
<1> QED BY <1>3, <1>4, <1>5

LEMMA NeedsStand ==
  ASSUME OrderInv, ItemsFromCatalog, BookOK(book), ItemsStand(book), NEW o \in Orders,
         ~AutoSourceRaises(o), NEW last \in [MissingSkus(o) -> Missing(o)]
  PROVE  /\ ItemsStand(AfterNeeds(o, last))
         /\ \A q \in Orders \ {o}, t \in Skus : AfterNeeds(o, last).needs[q][t] = book.needs[q][t]
         /\ /\ SumsOK(book) /\ \A s \in Skus : ~Book!Linked(book, o, s)
            /\ AutoSourcedSkus(o) \cap MissingSkus(o) = {}
            => SumsOK(AfterNeeds(o, last))
<1> DEFINE K == MissingSkus(o)
           fresh == /\ SumsOK(book) /\ \A s \in Skus : ~Book!Linked(book, o, s)
                    /\ AutoSourcedSkus(o) \cap K = {}
           fine(b) == /\ ItemsStand(b)
                      /\ \A q \in Orders \ {o}, t \in Skus : b.needs[q][t] = book.needs[q][t]
                      /\ fresh => SumsOK(b) /\ \A s \in K : ~Book!Linked(b, o, s)
           B == { b \in BookType : BookOK(b) /\ fine(b) }
<1>1. PICK iter :
        /\ AfterNeeds(o, last) = iter[K]
        /\ iter[{}] = AfterAutoSource(o)
        /\ \A J \in SUBSET K : J # {} =>
             \E s \in J : iter[J] = Book!UpsertNeed(iter[J \ {s}], o, s, Gap(o, last[s]))
  BY NeedsLoop
<1>2. ASSUME NEW J \in SUBSET K, J # {}
      PROVE  \E s \in J : iter[J \ {s}] \in B => iter[J] \in B
  <2>1. PICK s \in J : iter[J] = Book!UpsertNeed(iter[J \ {s}], o, s, Gap(o, last[s]))
    BY <1>1, <1>2
  <2> SUFFICES ASSUME iter[J \ {s}] \in B PROVE iter[J] \in B
    OBVIOUS
  <2>2. Gap(o, last[s]) \in Nat /\ s \in Skus
    BY GapOK, LineSkus DEF OrderInv
  <2> DEFINE b == iter[J \ {s}]
             c == Book!UpsertNeed(b, o, s, Gap(o, last[s]))
  <2>3. BookOK(b) /\ fine(b)
    OBVIOUS
  <2> HIDE DEF b, fresh
  <2>4. BookOK(c)
    BY <2>2, <2>3, UpsertNeedOK
  <2>5. /\ ItemsStand(c)
        /\ \A q \in Orders \ {o}, t \in Skus : c.needs[q][t] = b.needs[q][t]
    BY <2>2, <2>3, UpsertStands
  <2>6. fresh => SumsOK(c)
    BY <2>2, <2>3, UpsertSums
  <2>7. \A t \in Skus : c.needs[o][t].link = b.needs[o][t].link
    <3> TAKE t \in Skus
    <3> DEFINE need == b.needs[o][t]
    <3>1. c.needs[o][t] = IF t = s THEN [need EXCEPT !.missing = Gap(o, last[s])] ELSE need
      BY <2>2, <2>3, UpsertEffect
    <3>2. need \in Book!Need
      BY <2>3 DEF BookOK, BookType
    <3> HIDE DEF need, c
    <3>3. c.needs[o][t].link = need.link
      BY <3>1, <3>2 DEF Book!Need
    <3> QED BY <3>3 DEF need
  <2> HIDE DEF c
  <2>8. K \in SUBSET Skus
    BY LineSkus DEF OrderInv
  <2>9. fresh => \A t \in K : ~Book!Linked(c, o, t)
    BY <2>3, <2>7, <2>8 DEF Book!Linked
  <2>10. fine(c)
    BY <2>3, <2>5, <2>6, <2>9
  <2>11. iter[J] = c
    BY <2>1 DEF b, c
  <2> HIDE DEF fine
  <2> QED BY <2>4, <2>10, <2>11 DEF BookOK
<1>3. iter[{}] \in B
  <2> DEFINE b == AfterAutoSource(o)
  <2>1. Along(book, b, o, AutoSourcedSkus(o)) /\ SumsKept(book, b, o, AutoSourcedSkus(o))
    BY AutoSourceStands
  <2> HIDE DEF b
  <2>2. AutoSourcedSkus(o) \in SUBSET Skus /\ K \in SUBSET Skus
    BY LineSkus DEF OrderInv
  <2>3. fresh => SumsOK(b)
    BY <2>1, <2>2 DEF SumsKept
  <2>4. fresh => \A s \in K : ~Book!Linked(b, o, s)
    BY <2>1, <2>2 DEF Along, SameSku, Book!Linked
  <2>5. BookOK(b) /\ fine(b)
    BY <2>1, <2>3, <2>4 DEF Along
  <2> HIDE DEF fine
  <2> QED BY <1>1, <2>5 DEF BookOK, b
<1>4. IsFiniteSet(K)
  BY LineSkus DEF OrderInv
<1> HIDE DEF B, K, fine
<1>5. iter[K] \in B
  BY <1>2, <1>3, <1>4, LoopInto
<1>6. fine(iter[K])
  BY <1>5 DEF B
<1> QED BY <1>1, <1>6 DEF fine, K

(* The purchase order's own transitions write one purchase order, which    *)
(* is then not OPEN, and keep what it asks for.                            *)
LEMMA PurchaseStepWrites ==
  ASSUME BookOK(book), NEW p \in Suppliers, NEW n \in DOMAIN book.pos[p],
         \/ SendPO(p, n) \/ CancelPO(p, n)
         \/ \E s \in Skus, quantity \in 1 .. MaxQuantity : ReceivePO(p, n, s, quantity)
  PROVE  \E po : /\ po.quantity = book.pos[p][n].quantity /\ po.estado # "OPEN"
                 /\ book' = WithPO(book, p, n, po)
<1> DEFINE old == book.pos[p][n]
<1>1. old \in Book!PurchaseOrder
  BY DEF BookOK, BookType
<1>2. \E po : po.quantity = old.quantity /\ po.estado # "OPEN" /\ book' = WithPO(book, p, n, po)
  <2>1. CASE SendPO(p, n)
    <3>1. book' = WithPO(book, p, n, [old EXCEPT !.estado = "SENT"])
      BY <2>1 DEF SendPO, Book!SendPO, WithPO
    <3> HIDE DEF old
    <3>2. /\ [old EXCEPT !.estado = "SENT"].quantity = old.quantity
          /\ [old EXCEPT !.estado = "SENT"].estado = "SENT"
      BY <1>1 DEF Book!PurchaseOrder
    <3> QED BY <3>1, <3>2
  <2>2. CASE CancelPO(p, n)
    <3>1. book' = WithPO(book, p, n, [old EXCEPT !.estado = "CANCELLED"])
      BY <2>2 DEF CancelPO, Book!CancelPO, WithPO
    <3> HIDE DEF old
    <3>2. /\ [old EXCEPT !.estado = "CANCELLED"].quantity = old.quantity
          /\ [old EXCEPT !.estado = "CANCELLED"].estado = "CANCELLED"
      BY <1>1 DEF Book!PurchaseOrder
    <3> QED BY <3>1, <3>2
  <2>3. CASE \E s \in Skus, quantity \in 1 .. MaxQuantity : ReceivePO(p, n, s, quantity)
    <3>0. PICK s \in Skus, quantity \in 1 .. MaxQuantity : book' = Book!ReceivePO(book, p, n, s, quantity)
      BY <2>3 DEF ReceivePO
    <3> DEFINE received == [old.received EXCEPT ![s] = @ + quantity]
               complete == \A t \in Skus : received[t] >= old.quantity[t]
               state == IF complete THEN "FULLY_RECEIVED" ELSE "PARTIALLY_RECEIVED"
    <3>1. book' = WithPO(book, p, n, [old EXCEPT !.received = received, !.estado = state])
      BY <3>0 DEF Book!ReceivePO, WithPO
    <3>4. state \in {"FULLY_RECEIVED", "PARTIALLY_RECEIVED"}
      OBVIOUS
    <3> HIDE DEF old, received, state
    <3> DEFINE po == [old EXCEPT !.received = received, !.estado = state]
    <3>2. po.quantity = old.quantity /\ po.estado = state
      BY <1>1 DEF Book!PurchaseOrder
    <3> HIDE DEF po
    <3>3. book' = WithPO(book, p, n, po) /\ po.estado # "OPEN"
      BY <3>1, <3>2, <3>4 DEF po
    <3> QED BY <3>2, <3>3
  <2> QED BY <2>1, <2>2, <2>3
<1> QED BY <1>2

LEMMA ItemsStandNext ==
  ASSUME PurchasingInv, ItemsStand(book), [Next]_vars
  PROVE  ItemsStand(book')
<1> USE DEF PurchasingInv
<1>1. CASE UNCHANGED book
  BY <1>1
<1>2. ASSUME NEW o \in Orders, OrderStep(o) PROVE ItemsStand(book')
  <2>1. CASE \/ PersistFinalizedDraft(o) \/ CreateManualOrder(o) \/ UpdateManualOrder(o)
             \/ RemoveDraftItem(o) \/ AddDraftItem(o) \/ TTLRunsOut(o) \/ ExpireReservations(o)
             \/ StartPicking(o) \/ CompletePicking(o) \/ DeliverOrder(o) \/ ModifyOrder(o)
    BY <1>1, <2>1 DEF PersistFinalizedDraft, CreateManualOrder, UpdateManualOrder, RemoveDraftItem,
                      AddDraftItem, TTLRunsOut, ExpireReservations, StartPicking, CompletePicking,
                      DeliverOrder, Advance, ModifyOrder
  <2>2. ASSUME NEW withSuppliers, ConfirmCaseA(o, withSuppliers) PROVE ItemsStand(book')
    <3>1. book' = AfterAutoSource(o) /\ ~AutoSourceRaises(o)
      BY <2>2 DEF ConfirmCaseA
    <3> QED BY <3>1, AutoSourceStands DEF Along
  <2>3. ASSUME NEW withSuppliers, ConfirmCaseB(o, withSuppliers) PROVE ItemsStand(book')
    <3>1. PICK last \in [MissingSkus(o) -> Missing(o)] : book' = AfterNeeds(o, last)
      BY <2>3 DEF ConfirmCaseB
    <3>2. ~AutoSourceRaises(o)
      BY <2>3 DEF ConfirmCaseB
    <3> QED BY <3>1, <3>2, NeedsStand
  <2>4. ASSUME NEW withSuppliers, ConfirmCaseC(o, withSuppliers) PROVE ItemsStand(book')
    <3>1. /\ book' = Book!ReleaseOrderNeeds(AfterAutoSource(o), o)
          /\ ~AutoSourceRaises(o) /\ ~Book!ReleaseRaises(AfterAutoSource(o), o)
      BY <2>4 DEF ConfirmCaseC
    <3>2. BookOK(AfterAutoSource(o)) /\ ItemsStand(AfterAutoSource(o))
      BY <3>1, AutoSourceStands DEF Along
    <3> QED BY <3>1, <3>2, ReleaseStands
  <2>5. CASE ConfirmSelection(o)
    <3>1. PICK K \in SUBSET offered[o] : \E answer \in [K -> Suppliers] :
            /\ book' = AfterSelection(o, answer)
            /\ \A s \in K : Book!HasNeed(book, o, s) /\ ~Book!AccumulateRaises(book, o, s, answer[s])
      BY <2>5 DEF ConfirmSelection
    <3>2. PICK answer \in [K -> Suppliers] :
            /\ book' = AfterSelection(o, answer)
            /\ \A s \in K : Book!HasNeed(book, o, s) /\ ~Book!AccumulateRaises(book, o, s, answer[s])
      BY <3>1
    <3>3. K \in SUBSET Skus /\ IsFiniteSet(K)
      BY FS_Subset DEF OfferedOK
    <3> QED BY <3>2, <3>3, SelectionStands DEF Along
  <2>6. CASE CancelBeforePicking(o) \/ CancelLate(o)
    <3>1. book' = Book!ReleaseOrderNeeds(book, o) /\ ~Book!ReleaseRaises(book, o)
      BY <2>6 DEF CancelBeforePicking, CancelLate, Cancel
    <3> QED BY <3>1, ReleaseStands
  <2> QED BY <1>2, <2>1, <2>2, <2>3, <2>4, <2>5, <2>6 DEF OrderStep
<1>3. ASSUME NEW p \in Suppliers, PurchaseStep(p) PROVE ItemsStand(book')
  <2>1. CASE ToggleSupplier(p)
    BY <1>1, <2>1 DEF ToggleSupplier
  <2>2. ASSUME NEW n \in DOMAIN book.pos[p],
               \/ SendPO(p, n) \/ CancelPO(p, n)
               \/ \E s \in Skus, quantity \in 1 .. MaxQuantity : ReceivePO(p, n, s, quantity)
        PROVE  ItemsStand(book')
    <3>1. PICK po : /\ po.quantity = book.pos[p][n].quantity /\ po.estado # "OPEN"
                    /\ book' = WithPO(book, p, n, po)
      BY <2>2, PurchaseStepWrites
    <3> QED BY <3>1, WithPOStands
  <2> QED BY <1>3, <2>1, <2>2 DEF PurchaseStep
<1>4. ASSUME NEW s \in Skus, NEW n, AdjustStock(s, n) PROVE UNCHANGED book
  BY <1>4 DEF AdjustStock
<1>5. SweepExpired \/ RecomputePendingConversion \/ UNCHANGED vars => UNCHANGED book
  BY DEF SweepExpired, RecomputePendingConversion, vars
<1> QED BY <1>1, <1>2, <1>3, <1>4, <1>5 DEF Next

(* Every need on a purchase order still to be sent asks for something of   *)
(* its item, so that releasing another order's needs leaves it standing.   *)
THEOREM NeedsStandOnTheirOrders == Spec => []ItemsStand(book)
<1>1. Init => ItemsStand(book)
  BY DEF Init, Book!EmptyBook, Book!NoNeed, ItemsStand, Book!LinkedOpen, Book!Linked
<1>2. PurchasingInv /\ ItemsStand(book) /\ [Next]_vars => ItemsStand(book)'
  <2> SUFFICES ASSUME PurchasingInv, ItemsStand(book), [Next]_vars PROVE ItemsStand(book)'
    OBVIOUS
  <2>1. ItemsStand(book')
    BY ItemsStandNext
  <2> QED BY <2>1 DEF ItemsStand, Book!LinkedOpen, Book!Linked, Book!LinkedPO
<1> QED BY <1>1, <1>2, PurchasingSafe, PTL DEF Spec

(* What a cancellation of o may do to the purchase orders.                 *)
ReleasedOnlyIts(o, b, c) ==
  /\ \A s \in Skus : ~Book!LinkedOpen(c, o, s)
  /\ \A p \in Suppliers : \A n \in DOMAIN b.pos[p] : \A q \in Orders \ {o}, s \in Skus :
       q \in Book!LinkedOrders(b, p, n, s) => c.pos[p][n].estado = b.pos[p][n].estado

LEMMA CancellationReleases ==
  ASSUME PurchasingInv, ItemsStand(book), [Next]_vars, NEW o \in Orders,
         estado'[o] = "CANCELED", estado[o] # "CANCELED"
  PROVE  ReleasedOnlyIts(o, book, book')
<1> USE DEF PurchasingInv
<1>1. PICK q \in Orders : OrderStep(q)
  <2>1. ASSUME NEW p \in Suppliers, PurchaseStep(p) PROVE UNCHANGED estado
    BY <2>1 DEF PurchaseStep, ToggleSupplier, SendPO, CancelPO, ReceivePO, orderVars
  <2>2. ASSUME NEW s \in Skus, NEW n, AdjustStock(s, n) PROVE UNCHANGED estado
    BY <2>2 DEF AdjustStock, orderVars
  <2>3. SweepExpired \/ RecomputePendingConversion \/ UNCHANGED vars => UNCHANGED estado
    BY DEF SweepExpired, RecomputePendingConversion, vars, orderVars
  <2> QED BY <2>1, <2>2, <2>3 DEF Next
<1>2. \A x \in OrderEstado : estado' = [estado EXCEPT ![q] = x] => x = "CANCELED" /\ q = o
  BY DEF OrderInv, EstadoOK
<1>3. estado' # estado
  OBVIOUS
<1>4. ~(PersistFinalizedDraft(q) \/ CreateManualOrder(q))
  BY <1>2 DEF PersistFinalizedDraft, CreateManualOrder, OrderEstado
<1>5. ~(UpdateManualOrder(q) \/ RemoveDraftItem(q) \/ AddDraftItem(q))
  BY <1>3 DEF UpdateManualOrder, RemoveDraftItem, AddDraftItem
<1>6. ~(TTLRunsOut(q) \/ ExpireReservations(q))
  BY <1>3 DEF TTLRunsOut, ExpireReservations, orderVars
<1>7. \A w : ~(ConfirmCaseA(q, w) \/ ConfirmCaseB(q, w))
  BY <1>2 DEF ConfirmCaseA, ConfirmCaseB, OrderEstado
<1>8. ~ConfirmSelection(q)
  <2>1. ConfirmSelection(q) => estado' = estado \/ estado' = [estado EXCEPT ![q] = "CONFIRMED"]
    BY DEF ConfirmSelection
  <2> QED BY <1>2, <1>3, <2>1 DEF OrderEstado
<1>9. ~(StartPicking(q) \/ CompletePicking(q) \/ DeliverOrder(q) \/ ModifyOrder(q))
  BY <1>2 DEF StartPicking, CompletePicking, DeliverOrder, Advance, ModifyOrder, OrderEstado
<1>10. ASSUME NEW w, ConfirmCaseC(q, w) PROVE ReleasedOnlyIts(o, book, book')
  <2>1. q = o
    BY <1>2, <1>10 DEF ConfirmCaseC, OrderEstado
  <2> DEFINE b == AfterAutoSource(o)
  <2>2. book' = Book!ReleaseOrderNeeds(b, o) /\ ~AutoSourceRaises(o) /\ ~Book!ReleaseRaises(b, o)
    BY <1>10, <2>1 DEF ConfirmCaseC
  <2>3. Along(book, b, o, AutoSourcedSkus(o))
    BY <2>2, AutoSourceStands
  <2> HIDE DEF b
  <2>4. BookOK(b) /\ ItemsStand(b) /\ SamePOs(book, b)
        /\ \A r \in Orders \ {o}, s \in Skus : b.needs[r][s] = book.needs[r][s]
    BY <2>3 DEF Along
  <2>5. ReleasedOnlyIts(o, b, book')
    BY <2>2, <2>4, ReleaseStands DEF ReleasedOnlyIts
  <2>6. ASSUME NEW p \in Suppliers, NEW n \in DOMAIN book.pos[p], NEW r \in Orders \ {o}, NEW s \in Skus,
               r \in Book!LinkedOrders(book, p, n, s)
        PROVE  book'.pos[p][n].estado = book.pos[p][n].estado
    <3>1. r \in Book!LinkedOrders(b, p, n, s)
      BY <2>4, <2>6 DEF Book!LinkedOrders
    <3>2. n \in DOMAIN b.pos[p] /\ b.pos[p][n].estado = book.pos[p][n].estado
      BY <2>4 DEF SamePOs
    <3> QED BY <2>5, <3>1, <3>2 DEF ReleasedOnlyIts
  <2> QED BY <2>5, <2>6 DEF ReleasedOnlyIts
<1>11. CASE CancelBeforePicking(q) \/ CancelLate(q)
  <2>1. q = o
    BY <1>2, <1>11 DEF CancelBeforePicking, CancelLate, Cancel, OrderEstado
  <2>2. book' = Book!ReleaseOrderNeeds(book, o) /\ ~Book!ReleaseRaises(book, o)
    BY <1>11, <2>1 DEF CancelBeforePicking, CancelLate, Cancel
  <2> QED BY <2>2, ReleaseStands DEF ReleasedOnlyIts
<1> QED BY <1>1, <1>4, <1>5, <1>6, <1>7, <1>8, <1>9, <1>10, <1>11 DEF OrderStep

(* A cancellation, by the owner or by Case C, leaves none of the order's   *)
(* needs on a purchase order still to be sent, and cancels no purchase     *)
(* order that another order's needs are on.                                *)
THEOREM OthersKeepTheirPurchases == Spec => CancelReleasesOnlyItsOwn
<1> DEFINE Only == \A o \in Orders : estado'[o] = "CANCELED" /\ estado[o] # "CANCELED" =>
                     /\ \A s \in Skus : ~Book!LinkedOpen(book', o, s)
                     /\ \A p \in Suppliers : \A n \in PO(p) : \A q \in Orders \ {o}, s \in Skus :
                          q \in Book!LinkedOrders(book, p, n, s) =>
                            book'.pos[p][n].estado = book.pos[p][n].estado
<1>1. PurchasingInv /\ ItemsStand(book) /\ [Next]_vars => [Only]_vars
  BY CancellationReleases DEF ReleasedOnlyIts, PO
<1> HIDE DEF Only
<1>2. Spec => [][Only]_vars
  BY <1>1, PurchasingSafe, NeedsStandOnTheirOrders, PTL DEF Spec
<1> QED BY <1>2 DEF CancelReleasesOnlyItsOwn, Only

-----------------------------------------------------------------------------
(* The sums hold where an order buys a SKU from one source, and no order   *)
(* comes back to DRAFT: a confirmation then writes only needs that are on  *)
(* no purchase order yet.                                                  *)
BoughtFromOneSource ==
  /\ ~Uncalled
  /\ \A k, l \in Kinds : k.sku = l.sku => k = l

Unlinked(b, o) == \A s \in Skus : ~Book!Linked(b, o, s)

DraftsUnbought ==
  \A o \in Orders : estado[o] \in {"NONE", "DRAFT"} => offered[o] = {} /\ Unlinked(book, o)

LEMMA SourcesDisjoint ==
  ASSUME BoughtFromOneSource, ItemsOK, ItemsFromCatalog, NEW o
  PROVE  AutoSourcedSkus(o) \cap MissingSkus(o) = {}
<1> SUFFICES ASSUME NEW s \in AutoSourcedSkus(o), s \in MissingSkus(o) PROVE FALSE
  OBVIOUS
<1>1. PICK i \in RagItems(o) : i.sku = s
  BY DEF AutoSourcedSkus, AutoSourced
<1>2. PICK j \in Classified(o) : j.sku = s
  BY DEF MissingSkus, Missing
<1>3. j \in LocalItems(o)
  BY <1>2 DEF Classified, NewItem
<1>4. i \in items /\ j \in items /\ i.source = "RAG" /\ j.source = "LOCAL"
  BY <1>1, <1>3 DEF RagItems, LocalItems, OfOrder, ItemsOK, Item
<1>5. PICK k \in Kinds : SameLine(i, k)
  BY <1>4 DEF ItemsFromCatalog
<1>6. PICK l \in Kinds : SameLine(j, l)
  BY <1>4 DEF ItemsFromCatalog, BoughtFromOneSource
<1>7. k = l
  BY <1>1, <1>2, <1>5, <1>6 DEF SameLine, BoughtFromOneSource
<1> QED BY <1>4, <1>5, <1>6, <1>7 DEF SameLine

(* What a step of order o does to the needs of the others, and to the sums.*)
LEMMA OrderStepSums ==
  ASSUME PurchasingInv, ItemsStand(book), NEW o \in Orders, OrderStep(o),
         BoughtFromOneSource, SumsOK(book), DraftsUnbought
  PROVE  /\ SumsOK(book')
         /\ \A q \in Orders \ {o}, t \in Skus : book'.needs[q][t].link = book.needs[q][t].link
         /\ \A q \in Orders \ {o} : offered'[q] = offered[q] /\ estado'[q] = estado[q]
         /\ estado'[o] \in {"NONE", "DRAFT"} =>
              /\ estado[o] \in {"NONE", "DRAFT"} /\ offered'[o] = offered[o]
              /\ \A t \in Skus : book'.needs[o][t].link = book.needs[o][t].link
<1>a. /\ OrderInv /\ ItemsOK /\ ItemsFromCatalog /\ BookOK(book)
      /\ estado \in [Orders -> OrderEstado] /\ offered \in [Orders -> SUBSET Skus]
      /\ \A q \in Orders : IsFiniteSet(offered[q])
  BY DEF PurchasingInv, OrderInv, EstadoOK, OfferedOK
<1>b. AutoSourcedSkus(o) \cap MissingSkus(o) = {}
  BY <1>a, SourcesDisjoint
<1>1. CASE \/ PersistFinalizedDraft(o) \/ CreateManualOrder(o) \/ UpdateManualOrder(o)
           \/ RemoveDraftItem(o) \/ AddDraftItem(o) \/ TTLRunsOut(o) \/ ExpireReservations(o)
  <2>1. UNCHANGED << book, offered >>
    BY <1>1 DEF PersistFinalizedDraft, CreateManualOrder, UpdateManualOrder, RemoveDraftItem,
                AddDraftItem, TTLRunsOut, ExpireReservations, orderVars
  <2>2. \/ UNCHANGED estado
        \/ estado[o] = "NONE" /\ estado' = [estado EXCEPT ![o] = "DRAFT"]
    <3>1. PersistFinalizedDraft(o) \/ CreateManualOrder(o) =>
            estado[o] = "NONE" /\ estado' = [estado EXCEPT ![o] = "DRAFT"]
      BY DEF PersistFinalizedDraft, CreateManualOrder
    <3>2. UpdateManualOrder(o) \/ RemoveDraftItem(o) \/ AddDraftItem(o) => UNCHANGED estado
      BY DEF UpdateManualOrder, RemoveDraftItem, AddDraftItem
    <3>3. TTLRunsOut(o) \/ ExpireReservations(o) => UNCHANGED estado
      BY DEF TTLRunsOut, ExpireReservations, orderVars
    <3> QED BY <1>1, <3>1, <3>2, <3>3
  <2> QED BY <1>a, <2>1, <2>2
<1>2. ASSUME NEW w, Confirm(o, w)
      PROVE  /\ estado[o] = "DRAFT" /\ ~AutoSourceRaises(o)
             /\ \A q \in Orders \ {o} : offered'[q] = offered[q] /\ estado'[q] = estado[q]
             /\ estado'[o] \in {"CONFIRMED", "CANCELED"}
  <2>1. offered' = offered \/ \E d : offered' = [offered EXCEPT ![o] = d]
    BY <1>2 DEF Confirm, ConfirmCaseA, ConfirmCaseB, ConfirmCaseC, OfferSuppliers
  <2>2. \E x \in {"CONFIRMED", "CANCELED"} : estado' = [estado EXCEPT ![o] = x]
    BY <1>2 DEF Confirm, ConfirmCaseA, ConfirmCaseB, ConfirmCaseC
  <2>3. estado[o] = "DRAFT" /\ ~AutoSourceRaises(o)
    BY <1>2 DEF Confirm, ConfirmCaseA, ConfirmCaseB, ConfirmCaseC, MayConfirm
  <2> QED BY <1>a, <2>1, <2>2, <2>3
<1>c. ASSUME estado[o] = "DRAFT", ~AutoSourceRaises(o)
      PROVE  /\ \A s \in Skus : ~Book!Linked(book, o, s)
             /\ Along(book, AfterAutoSource(o), o, AutoSourcedSkus(o))
             /\ SumsOK(AfterAutoSource(o))
  <2>1. \A s \in Skus : ~Book!Linked(book, o, s)
    BY <1>c DEF DraftsUnbought, Unlinked
  <2>2. AutoSourcedSkus(o) \in SUBSET Skus
    BY <1>a, LineSkus
  <2>3. /\ Along(book, AfterAutoSource(o), o, AutoSourcedSkus(o))
        /\ SumsKept(book, AfterAutoSource(o), o, AutoSourcedSkus(o))
    BY <1>a, <1>c, AutoSourceStands
  <2> QED BY <2>1, <2>2, <2>3 DEF SumsKept
<1>3. ASSUME NEW w, ConfirmCaseA(o, w)
      PROVE  /\ SumsOK(book')
             /\ \A q \in Orders \ {o}, t \in Skus : book'.needs[q][t].link = book.needs[q][t].link
  <2>1. book' = AfterAutoSource(o) /\ Confirm(o, w)
    BY <1>3 DEF ConfirmCaseA, Confirm
  <2> QED BY <1>2, <1>c, <2>1 DEF Along
<1>4. ASSUME NEW w, ConfirmCaseB(o, w)
      PROVE  /\ SumsOK(book')
             /\ \A q \in Orders \ {o}, t \in Skus : book'.needs[q][t].link = book.needs[q][t].link
  <2>1. PICK last \in [MissingSkus(o) -> Missing(o)] : book' = AfterNeeds(o, last)
    BY <1>4 DEF ConfirmCaseB
  <2>2. ~AutoSourceRaises(o) /\ \A s \in Skus : ~Book!Linked(book, o, s)
    BY <1>2, <1>4, <1>c DEF Confirm
  <2> QED BY <1>a, <1>b, <2>1, <2>2, NeedsStand
<1>5. ASSUME NEW w, ConfirmCaseC(o, w)
      PROVE  /\ SumsOK(book')
             /\ \A q \in Orders \ {o}, t \in Skus : book'.needs[q][t].link = book.needs[q][t].link
  <2> DEFINE b == AfterAutoSource(o)
  <2>1. book' = Book!ReleaseOrderNeeds(b, o) /\ Confirm(o, w)
    BY <1>5 DEF ConfirmCaseC, Confirm
  <2>2. Along(book, b, o, AutoSourcedSkus(o)) /\ SumsOK(b)
    BY <1>2, <1>c, <2>1
  <2> HIDE DEF b
  <2>3. BookOK(b) /\ \A q \in Orders \ {o}, t \in Skus : b.needs[q][t] = book.needs[q][t]
    BY <2>2 DEF Along
  <2>4. \A q \in Orders \ {o}, t \in Skus : book'.needs[q][t] = b.needs[q][t]
    BY <1>a, <2>1, <2>3, ReleaseLeavesOthers
  <2>5. SumsOK(book')
    BY <2>1, <2>2, <2>3, ReleaseSums
  <2> QED BY <2>3, <2>4, <2>5
<1>6. CASE ConfirmSelection(o)
  <2>1. PICK K \in SUBSET offered[o] : \E answer \in [K -> Suppliers] :
          /\ book' = AfterSelection(o, answer) /\ K # {}
          /\ \A s \in K : Book!HasNeed(book, o, s) /\ ~Book!AccumulateRaises(book, o, s, answer[s])
    BY <1>6 DEF ConfirmSelection
  <2>2. PICK answer \in [K -> Suppliers] :
          /\ book' = AfterSelection(o, answer)
          /\ \A s \in K : Book!HasNeed(book, o, s) /\ ~Book!AccumulateRaises(book, o, s, answer[s])
    BY <2>1
  <2>3. K \in SUBSET Skus /\ IsFiniteSet(K)
    BY <1>a, FS_Subset
  <2>4. SumsOK(book') /\ Along(book, book', o, K)
    BY <1>a, <2>2, <2>3, SelectionStands
  <2>5. estado[o] \notin {"NONE", "DRAFT"}
    BY <2>1 DEF DraftsUnbought
  <2>6. estado' = estado /\ offered' = offered
    BY <1>6, <2>5 DEF ConfirmSelection
  <2> QED BY <2>4, <2>5, <2>6 DEF Along
<1>7. CASE StartPicking(o) \/ CompletePicking(o) \/ DeliverOrder(o)
  <2>1. UNCHANGED << book, offered >>
    BY <1>7 DEF StartPicking, CompletePicking, DeliverOrder, Advance
  <2>2. \E x \in {"PICKING", "READY_FOR_DELIVERY", "CLOSED"} : estado' = [estado EXCEPT ![o] = x]
    BY <1>7 DEF StartPicking, CompletePicking, DeliverOrder, Advance
  <2> QED BY <1>a, <2>1, <2>2
<1>8. ~ModifyOrder(o)
  BY DEF ModifyOrder, BoughtFromOneSource
<1>9. CASE CancelBeforePicking(o) \/ CancelLate(o)
  <2>1. /\ book' = Book!ReleaseOrderNeeds(book, o) /\ offered' = offered
        /\ estado' = [estado EXCEPT ![o] = "CANCELED"]
    BY <1>9 DEF CancelBeforePicking, CancelLate, Cancel
  <2>2. \A q \in Orders \ {o}, t \in Skus : book'.needs[q][t] = book.needs[q][t]
    BY <1>a, <2>1, ReleaseLeavesOthers
  <2>3. SumsOK(book')
    BY <1>a, <2>1, ReleaseSums
  <2> QED BY <1>a, <2>1, <2>2, <2>3
<1>10. ASSUME NEW w, Confirm(o, w)
       PROVE  /\ SumsOK(book')
              /\ \A q \in Orders \ {o}, t \in Skus : book'.needs[q][t].link = book.needs[q][t].link
              /\ \A q \in Orders \ {o} : offered'[q] = offered[q] /\ estado'[q] = estado[q]
              /\ estado'[o] \notin {"NONE", "DRAFT"}
  <2>1. estado'[o] \notin {"NONE", "DRAFT"}
    BY <1>2, <1>10
  <2> QED BY <1>2, <1>3, <1>4, <1>5, <1>10, <2>1 DEF Confirm
<1> QED BY <1>1, <1>6, <1>7, <1>8, <1>9, <1>10 DEF OrderStep, Confirm

(* The invariant behind the sums: besides them, that an order not yet      *)
(* confirmed is on no purchase order and has been offered no supplier.     *)
SumsInv == BoughtFromOneSource => SumsOK(book) /\ DraftsUnbought

LEMMA SumsInvNext ==
  ASSUME PurchasingInv, ItemsStand(book), [Next]_vars, BoughtFromOneSource,
         SumsOK(book), DraftsUnbought
  PROVE  SumsOK(book') /\ DraftsUnbought'
<1>1. CASE UNCHANGED << book, estado, offered >>
  <2>1. SumsOK(book')
    BY <1>1
  <2> QED BY <1>1, <2>1 DEF DraftsUnbought, Unlinked, Book!Linked
<1>2. ASSUME NEW o \in Orders, OrderStep(o) PROVE SumsOK(book') /\ DraftsUnbought'
  <2>1. /\ SumsOK(book')
        /\ \A q \in Orders \ {o}, t \in Skus : book'.needs[q][t].link = book.needs[q][t].link
        /\ \A q \in Orders \ {o} : offered'[q] = offered[q] /\ estado'[q] = estado[q]
        /\ estado'[o] \in {"NONE", "DRAFT"} =>
             /\ estado[o] \in {"NONE", "DRAFT"} /\ offered'[o] = offered[o]
             /\ \A t \in Skus : book'.needs[o][t].link = book.needs[o][t].link
    BY <1>2, OrderStepSums
  <2>2. ASSUME NEW q \in Orders, estado'[q] \in {"NONE", "DRAFT"}
        PROVE  offered'[q] = {} /\ \A t \in Skus : book'.needs[q][t].link = 0
    <3>1. /\ estado[q] \in {"NONE", "DRAFT"} /\ offered'[q] = offered[q]
          /\ \A t \in Skus : book'.needs[q][t].link = book.needs[q][t].link
      BY <2>1, <2>2
    <3> QED BY <3>1 DEF DraftsUnbought, Unlinked, Book!Linked
  <2> QED BY <2>1, <2>2 DEF DraftsUnbought, Unlinked, Book!Linked
<1>3. ASSUME NEW p \in Suppliers, PurchaseStep(p) PROVE SumsOK(book') /\ DraftsUnbought'
  <2>1. CASE ToggleSupplier(p)
    BY <1>1, <2>1 DEF ToggleSupplier, orderVars
  <2>2. ASSUME NEW n \in DOMAIN book.pos[p],
               \/ SendPO(p, n) \/ CancelPO(p, n)
               \/ \E s \in Skus, quantity \in 1 .. MaxQuantity : ReceivePO(p, n, s, quantity)
        PROVE  SumsOK(book') /\ DraftsUnbought'
    <3>1. UNCHANGED << estado, offered >>
      BY <2>2 DEF SendPO, CancelPO, ReceivePO, orderVars
    <3>2. BookOK(book)
      BY DEF PurchasingInv
    <3>3. PICK po : /\ po.quantity = book.pos[p][n].quantity /\ po.estado # "OPEN"
                    /\ book' = WithPO(book, p, n, po)
      BY <2>2, <3>2, PurchaseStepWrites
    <3>4. SumsOK(book')
      BY <3>2, <3>3, WithPOSums
    <3>5. book'.needs = book.needs
      BY <3>2, <3>3 DEF WithPO, BookOK, BookType
    <3> QED BY <3>1, <3>4, <3>5 DEF DraftsUnbought, Unlinked, Book!Linked
  <2> QED BY <1>3, <2>1, <2>2 DEF PurchaseStep
<1>4. ASSUME NEW s \in Skus, NEW n, AdjustStock(s, n) PROVE UNCHANGED << book, estado, offered >>
  BY <1>4 DEF AdjustStock, orderVars
<1>5. SweepExpired \/ RecomputePendingConversion \/ UNCHANGED vars => UNCHANGED << book, estado, offered >>
  BY DEF SweepExpired, RecomputePendingConversion, vars, orderVars
<1> QED BY <1>1, <1>2, <1>3, <1>4, <1>5 DEF Next

(* A purchase order still to be sent asks for exactly what the linked      *)
(* needs of all orders miss (accumulate_need, _detach_from_previous_po,    *)
(* release_order_needs).                                                   *)
THEOREM PurchasesAddUp ==
  BoughtFromOneSource /\ Spec => []ItemQuantityIsSumOfNeeds
<1>1. Init => SumsInv
  BY DEF Init, Book!EmptyBook, Book!NoNeed, Book!OpenPOs, SumsInv, SumsOK, DraftsUnbought,
         Unlinked, Book!Linked
<1>2. PurchasingInv /\ ItemsStand(book) /\ SumsInv /\ [Next]_vars => SumsInv'
  <2> SUFFICES ASSUME PurchasingInv, ItemsStand(book), SumsInv, [Next]_vars, BoughtFromOneSource'
               PROVE  SumsOK(book)' /\ DraftsUnbought'
    BY DEF SumsInv
  <2>1. BoughtFromOneSource
    BY DEF BoughtFromOneSource
  <2>2. SumsOK(book') /\ DraftsUnbought'
    BY <2>1, SumsInvNext DEF SumsInv
  <2> QED BY <2>2 DEF SumsOK, ItemSums, SumOver, NeedRow, Book!OpenPOs, Book!LinkedOrders
<1>3. Spec => []SumsInv
  BY <1>1, <1>2, PurchasingSafe, NeedsStandOnTheirOrders, PTL DEF Spec
<1>4. SumsInv => (BoughtFromOneSource => ItemQuantityIsSumOfNeeds)
  <2> SUFFICES ASSUME SumsOK(book), NEW p \in Suppliers, NEW n \in Book!OpenPOs(book, p), NEW s \in Skus
               PROVE  book.pos[p][n].quantity[s] = Quantity(AccumulatedNeeds(p, n, s))
    BY DEF SumsInv, ItemQuantityIsSumOfNeeds
  <2>1. book.pos[p][n].quantity[s] = SumOver(book, Book!LinkedOrders(book, p, n, s), s)
    BY DEF SumsOK, ItemSums
  <2> QED BY <2>1 DEF SumOver, NeedRow, AccumulatedNeeds
<1>5. BoughtFromOneSource /\ [Next]_vars => BoughtFromOneSource'
  BY DEF BoughtFromOneSource
<1> QED BY <1>3, <1>4, <1>5, PTL DEF Spec

=============================================================================
