-------------------------- MODULE Receipts_proofs --------------------------
(***************************************************************************)
(* Proofs about the goods receipts: the page and the books keep their      *)
(* types, the goods received under one code go to one product, and a       *)
(* confirmed receipt is in the stock as a whole, for any suppliers, codes, *)
(* documents and rebuilds of the index.                                    *)
(*                                                                         *)
(* A confirmation is one session over any number of lines.  What has to    *)
(* hold between two lines is Consistent: products that were added and not  *)
(* flushed count, and no SKU is both in the catalog and among them.  It    *)
(* holds of a session that has met no duplicate key; the others roll back. *)
(***************************************************************************)
EXTENDS Receipts, RowSums_proofs, SequenceTheorems

-----------------------------------------------------------------------------
(* Sums over shelves.                                                      *)
ShelfRows(f) == {[sku |-> k, cantidad |-> f[k]] : k \in DOMAIN f}

OtherRows(f, k) == {[sku |-> x, cantidad |-> f[x]] : x \in DOMAIN f \ {k}}

LEMMA ShelfRowsOK ==
  ASSUME NEW S, IsFiniteSet(S), NEW f \in [S -> Nat], NEW T \in SUBSET S
  PROVE  Rows({[sku |-> x, cantidad |-> f[x]] : x \in T})
<1> DEFINE row == [x \in T |-> [sku |-> x, cantidad |-> f[x]]]
           R == {[sku |-> x, cantidad |-> f[x]] : x \in T}
<1>1. IsFiniteSet(T)
  BY FS_Subset
<1>2. row \in Surjection(T, R)
  <2>1. row \in [T -> R]
    OBVIOUS
  <2>2. \A r \in R : \E x \in T : row[x] = r
    OBVIOUS
  <2> QED BY <2>1, <2>2 DEF Surjection
<1>3. IsFiniteSet(R)
  BY <1>1, <1>2, FS_Surjection
<1>4. \A r \in R : r.cantidad \in Nat
  OBVIOUS
<1> QED BY <1>3, <1>4 DEF Rows

LEMMA TotalNat ==
  ASSUME NEW S, IsFiniteSet(S), NEW f \in [S -> Nat]
  PROVE  /\ Rows(ShelfRows(f)) /\ Total(f) = Quantity(ShelfRows(f)) /\ Total(f) \in Nat
<1>1. ShelfRows(f) = {[sku |-> x, cantidad |-> f[x]] : x \in S}
  BY DEF ShelfRows
<1>2. Rows({[sku |-> x, cantidad |-> f[x]] : x \in S})
  BY ShelfRowsOK
<1>3. Rows(ShelfRows(f))
  BY <1>1, <1>2
<1>4. Total(f) = Quantity(ShelfRows(f))
  BY DEF Total, ShelfRows
<1> QED BY <1>3, <1>4, QuantityNat

LEMMA TotalEmpty ==
  ASSUME NEW f, DOMAIN f = {}
  PROVE  Total(f) = 0
<1>1. {[sku |-> k, cantidad |-> f[k]] : k \in DOMAIN f} = {}
  OBVIOUS
<1> QED BY <1>1, QuantityEmpty DEF Total

(* One row apart.                                                          *)
LEMMA TotalSplit ==
  ASSUME NEW S, IsFiniteSet(S), NEW f \in [S -> Nat], NEW k \in S
  PROVE  /\ Total(f) = Quantity(OtherRows(f, k)) + f[k]
         /\ Quantity(OtherRows(f, k)) \in Nat
<1> DEFINE r == [sku |-> k, cantidad |-> f[k]]
<1>1. OtherRows(f, k) = {[sku |-> x, cantidad |-> f[x]] : x \in S \ {k}}
  BY DEF OtherRows
<1>2. Rows(OtherRows(f, k))
  <2>1. Rows({[sku |-> x, cantidad |-> f[x]] : x \in S \ {k}})
    <3>1. S \ {k} \in SUBSET S
      OBVIOUS
    <3> QED BY <3>1, ShelfRowsOK
  <2> QED BY <1>1, <2>1
<1>3. Rows({r}) /\ Quantity({r}) = f[k]
  <2>1. r.cantidad = f[k] /\ r.cantidad \in Nat
    OBVIOUS
  <2> HIDE DEF r
  <2> QED BY <2>1, QuantitySingleton
<1>4. ShelfRows(f) = OtherRows(f, k) \cup {r}
  BY DEF ShelfRows, OtherRows
<1>5. OtherRows(f, k) \cap {r} = {}
  BY DEF OtherRows
<1> HIDE DEF r
<1>6. Quantity(OtherRows(f, k) \cup {r}) = Quantity(OtherRows(f, k)) + Quantity({r})
  BY <1>2, <1>3, <1>5, QuantityUnion
<1> QED BY <1>2, <1>3, <1>4, <1>6, TotalNat, QuantityNat

(* More of what is on the shelf already.                                   *)
LEMMA TotalChange ==
  ASSUME NEW S, IsFiniteSet(S), NEW f \in [S -> Nat], NEW k \in S, NEW q \in Nat
  PROVE  /\ [f EXCEPT ![k] = @ + q] \in [S -> Nat]
         /\ Total([f EXCEPT ![k] = @ + q]) = Total(f) + q
<1> DEFINE g == [f EXCEPT ![k] = @ + q]
<1>1. g \in [S -> Nat] /\ g[k] = f[k] + q
  OBVIOUS
<1>2. OtherRows(g, k) = OtherRows(f, k)
  BY DEF OtherRows
<1> HIDE DEF g
<1>3. Total(g) = Quantity(OtherRows(g, k)) + g[k]
  BY <1>1, TotalSplit
<1>4. Total(f) = Quantity(OtherRows(f, k)) + f[k] /\ Quantity(OtherRows(f, k)) \in Nat
  BY TotalSplit
<1>5. Total(g) = Total(f) + q
  BY <1>1, <1>2, <1>3, <1>4
<1> QED BY <1>1, <1>5 DEF g

(* A row the shelf did not have.                                           *)
LEMMA TotalPut ==
  ASSUME NEW f, IsFiniteSet(DOMAIN f), f \in [DOMAIN f -> Nat],
         NEW k, k \notin DOMAIN f, NEW q \in Nat
  PROVE  Total(Put(f, k, q)) = Total(f) + q
<1> DEFINE g == Put(f, k, q)
           S == DOMAIN f
<1>1. g \in [S \cup {k} -> Nat] /\ g[k] = q
  BY DEF Put
<1>2. OtherRows(g, k) = ShelfRows(f)
  <2>1. DOMAIN g \ {k} = DOMAIN f /\ \A x \in DOMAIN f : g[x] = f[x]
    BY DEF Put
  <2> HIDE DEF g
  <2> QED BY <2>1 DEF OtherRows, ShelfRows
<1>3. IsFiniteSet(S \cup {k}) /\ k \in S \cup {k}
  BY FS_AddElement
<1> HIDE DEF g
<1>4. Total(g) = Quantity(OtherRows(g, k)) + g[k]
  BY <1>1, <1>3, TotalSplit
<1>5. Total(g) = Total(f) + q
  BY <1>1, <1>2, <1>4, TotalNat
<1> QED BY <1>5 DEF g

(* Two shelves with nothing in common.                                     *)
LEMMA TotalMerge ==
  ASSUME NEW S, IsFiniteSet(S), NEW f \in [S -> Nat],
         NEW T, IsFiniteSet(T), NEW g \in [T -> Nat], S \cap T = {}
  PROVE  LET h == [k \in S \cup T |-> IF k \in S THEN f[k] ELSE g[k]]
         IN  h \in [S \cup T -> Nat] /\ Total(h) = Total(f) + Total(g)
<1> DEFINE h == [k \in S \cup T |-> IF k \in S THEN f[k] ELSE g[k]]
<1>1. h \in [S \cup T -> Nat] /\ \A k \in S : h[k] = f[k]
  OBVIOUS
<1>2. \A k \in T : h[k] = g[k]
  OBVIOUS
<1> HIDE DEF h
<1>3. ShelfRows(h) = ShelfRows(f) \cup ShelfRows(g)
  <2>1. DOMAIN h = S \cup T /\ DOMAIN f = S /\ DOMAIN g = T
    BY <1>1
  <2> QED BY <1>1, <1>2, <2>1 DEF ShelfRows
<1>4. ShelfRows(f) \cap ShelfRows(g) = {}
  BY DEF ShelfRows
<1>5. IsFiniteSet(S \cup T)
  BY FS_Union
<1>6. /\ Rows(ShelfRows(f)) /\ Total(f) = Quantity(ShelfRows(f))
      /\ Rows(ShelfRows(g)) /\ Total(g) = Quantity(ShelfRows(g))
      /\ Total(h) = Quantity(ShelfRows(h))
  BY <1>1, <1>5, TotalNat
<1>7. Total(h) = Total(f) + Total(g)
  BY <1>3, <1>4, <1>6, QuantityUnion
<1> QED BY <1>1, <1>7 DEF h

-----------------------------------------------------------------------------
(* What a session is, and what each of its operations does to its fields.  *)
IsSession(t) ==
    /\ t = [catalog |-> t.catalog, stock |-> t.stock, mappings |-> t.mappings,
            newProducts |-> t.newProducts, newStock |-> t.newStock,
            ok |-> t.ok, credited |-> t.credited]
    /\ t.ok \in BOOLEAN

(* The shelf after a flush, and after more of one product.                 *)
Merged(f, g) == [k \in DOMAIN f \cup DOMAIN g |-> IF k \in DOMAIN f THEN f[k] ELSE g[k]]
Raised(f, k, q) == [f EXCEPT ![k] = @ + q]

LEMMA FlushEffect ==
  ASSUME NEW t, IsSession(t)
  PROVE  LET u == Flush(t)
         IN  /\ IsSession(u)
             /\ u.catalog = t.catalog \cup t.newProducts
             /\ u.stock = Merged(t.stock, t.newStock)
             /\ u.mappings = t.mappings /\ u.newProducts = {} /\ u.newStock = <<>>
             /\ u.ok = t.ok /\ u.credited = t.credited
<1> DEFINE c == t.catalog \cup t.newProducts
           shelf == Merged(t.stock, t.newStock)
           none == <<>>
           v == [catalog |-> c, stock |-> shelf, mappings |-> t.mappings, newProducts |-> {},
                 newStock |-> none, ok |-> t.ok, credited |-> t.credited]
<1>1. Flush(t) = [t EXCEPT !.catalog = c, !.stock = shelf, !.newProducts = {}, !.newStock = none]
  BY DEF Flush, Merged
<1> HIDE DEF c, shelf, none
<1>2. [t EXCEPT !.catalog = c, !.stock = shelf, !.newProducts = {}, !.newStock = none] = v
  <2>1. DOMAIN t = {"catalog", "stock", "mappings", "newProducts", "newStock", "ok", "credited"}
    BY DEF IsSession
  <2>2. [t EXCEPT !.catalog = c, !.stock = shelf, !.newProducts = {}, !.newStock = none]
          = [k \in DOMAIN t |-> IF k = "catalog" THEN c ELSE IF k = "stock" THEN shelf ELSE IF k = "newProducts" THEN {} ELSE IF k = "newStock" THEN none ELSE t[k]]
    OBVIOUS
  <2> QED BY <2>1, <2>2
<1>3. Flush(t) = v /\ t.ok \in BOOLEAN
  BY <1>1, <1>2 DEF IsSession
<1>4. IsSession(v)
  BY <1>3 DEF IsSession
<1> QED BY <1>3, <1>4 DEF c, shelf, none

LEMMA AddProductEffect ==
  ASSUME NEW t, IsSession(t), NEW p
  PROVE  LET u == AddProduct(t, p)
         IN  /\ IsSession(u)
             /\ u.catalog = t.catalog /\ u.stock = t.stock /\ u.mappings = t.mappings
             /\ u.newProducts = t.newProducts \cup {p} /\ u.newStock = t.newStock
             /\ u.ok = (t.ok /\ \A x \in t.catalog \cup t.newProducts : x.sku # p.sku)
             /\ u.credited = t.credited
<1> DEFINE new == t.newProducts \cup {p}
           ok == t.ok /\ \A x \in t.catalog \cup t.newProducts : x.sku # p.sku
           v == [catalog |-> t.catalog, stock |-> t.stock, mappings |-> t.mappings,
                 newProducts |-> new, newStock |-> t.newStock, ok |-> ok, credited |-> t.credited]
<1>1. AddProduct(t, p) = [t EXCEPT !.newProducts = new, !.ok = ok]
  BY DEF AddProduct
<1>2. ok \in BOOLEAN
  OBVIOUS
<1> HIDE DEF new, ok
<1>3. [t EXCEPT !.newProducts = new, !.ok = ok] = v
  <2>1. DOMAIN t = {"catalog", "stock", "mappings", "newProducts", "newStock", "ok", "credited"}
    BY DEF IsSession
  <2>2. [t EXCEPT !.newProducts = new, !.ok = ok]
          = [k \in DOMAIN t |-> IF k = "newProducts" THEN new ELSE IF k = "ok" THEN ok ELSE t[k]]
    OBVIOUS
  <2> QED BY <2>1, <2>2
<1>4. IsSession(v)
  BY <1>2 DEF IsSession
<1> QED BY <1>1, <1>3, <1>4 DEF new, ok

LEMMA AddStockEffect ==
  ASSUME NEW t, IsSession(t), NEW k, NEW q
  PROVE  LET u == AddStock(t, k, q)
         IN  /\ IsSession(u)
             /\ u.catalog = t.catalog /\ u.stock = t.stock /\ u.mappings = t.mappings
             /\ u.newProducts = t.newProducts /\ u.newStock = Put(t.newStock, k, q)
             /\ u.ok = (t.ok /\ k \notin DOMAIN t.stock \cup DOMAIN t.newStock)
             /\ u.credited = t.credited
<1> DEFINE new == Put(t.newStock, k, q)
           ok == t.ok /\ k \notin DOMAIN t.stock \cup DOMAIN t.newStock
           v == [catalog |-> t.catalog, stock |-> t.stock, mappings |-> t.mappings,
                 newProducts |-> t.newProducts, newStock |-> new, ok |-> ok, credited |-> t.credited]
<1>1. AddStock(t, k, q) = [t EXCEPT !.newStock = new, !.ok = ok]
  BY DEF AddStock
<1>2. ok \in BOOLEAN
  OBVIOUS
<1> HIDE DEF new, ok
<1>3. [t EXCEPT !.newStock = new, !.ok = ok] = v
  <2>1. DOMAIN t = {"catalog", "stock", "mappings", "newProducts", "newStock", "ok", "credited"}
    BY DEF IsSession
  <2>2. [t EXCEPT !.newStock = new, !.ok = ok]
          = [c \in DOMAIN t |-> IF c = "newStock" THEN new ELSE IF c = "ok" THEN ok ELSE t[c]]
    OBVIOUS
  <2> QED BY <2>1, <2>2
<1>4. IsSession(v)
  BY <1>2 DEF IsSession
<1> QED BY <1>1, <1>3, <1>4 DEF new, ok

LEMMA BumpStockEffect ==
  ASSUME NEW t, IsSession(t), NEW k, NEW q, k \in DOMAIN t.stock
  PROVE  LET u == BumpStock(t, k, q)
         IN  /\ IsSession(u)
             /\ u.catalog = t.catalog /\ u.stock = Raised(t.stock, k, q)
             /\ u.mappings = t.mappings
             /\ u.newProducts = t.newProducts /\ u.newStock = t.newStock
             /\ u.ok = t.ok /\ u.credited = t.credited
<1> DEFINE more == Raised(t.stock, k, q)
<1>1. BumpStock(t, k, q) = [t EXCEPT !.stock = more]
  <2>1. BumpStock(t, k, q) = [t EXCEPT !.stock[k] = @ + q]
    BY DEF BumpStock
  <2> QED BY <2>1 DEF Raised
<1> HIDE DEF more
<1> QED BY <1>1 DEF IsSession, more

LEMMA CreditEffect ==
  ASSUME NEW t, IsSession(t), NEW s, NEW code, NEW sku
  PROVE  LET u == Credit(t, s, code, sku)
         IN  /\ IsSession(u)
             /\ u.catalog = t.catalog /\ u.stock = t.stock /\ u.mappings = t.mappings
             /\ u.newProducts = t.newProducts /\ u.newStock = t.newStock /\ u.ok = t.ok
             /\ u.credited = IF code = NoCode THEN t.credited
                             ELSE t.credited \cup {<<s, Key[code], sku>>}
BY DEF IsSession, Credit

(* A new mapping, before the flush.                                        *)
Mapped(t, s, code, sku) == [t EXCEPT !.mappings = Put(@, <<s, Key[code]>>, sku)]

LEMMA MappedEffect ==
  ASSUME NEW t, IsSession(t), NEW s, NEW code, NEW sku
  PROVE  LET u == Mapped(t, s, code, sku)
         IN  /\ IsSession(u)
             /\ u.catalog = t.catalog /\ u.stock = t.stock
             /\ u.mappings = Put(t.mappings, <<s, Key[code]>>, sku)
             /\ u.newProducts = t.newProducts /\ u.newStock = t.newStock
             /\ u.ok = t.ok /\ u.credited = t.credited
BY DEF IsSession, Mapped

LEMMA RecordIs ==
  ASSUME NEW t, NEW s, NEW code, NEW sku
  PROVE  RecordSupplierSku(t, s, code, sku) =
           IF code = NoCode \/ <<s, Key[code]>> \in DOMAIN t.mappings THEN t
           ELSE Flush(Mapped(t, s, code, sku))
BY DEF RecordSupplierSku, Mapped

-----------------------------------------------------------------------------
(* Products added and not flushed are products.                            *)
SkusOf(products) == {p.sku : p \in products}

ProductsOK(products) ==
    /\ IsFiniteSet(products)
    /\ \A p, q \in products : p.sku = q.sku => p = q
    /\ \A p \in products : p.sku[1] = p.prov

MappingsOK(m, products) == \A k \in DOMAIN m : \E p \in products : p.sku = m[k] /\ p.prov = k[1]

CreditedOK(c, m) == \A x \in c : <<x[1], x[2]>> \in DOMAIN m /\ m[<<x[1], x[2]>>] = x[3]

Consistent(t) ==
    /\ ProductsOK(t.catalog \cup t.newProducts)
    /\ SkusOf(t.catalog) \cap SkusOf(t.newProducts) = {}
    /\ t.stock \in [SkusOf(t.catalog) -> Nat]
    /\ t.newStock \in [SkusOf(t.newProducts) -> Nat]
    /\ MappingsOK(t.mappings, t.catalog)
    /\ CreditedOK(t.credited, t.mappings)

SessionOK(t) == IsSession(t) /\ (t.ok => Consistent(t))

(* A product of the supplier has the SKU, flushed or not.                  *)
Holds(t, s, sku) == \E p \in t.catalog \cup t.newProducts : p.sku = sku /\ p.prov = s

(* The goods of a session, flushed or not.                                 *)
InStock(t) == Total(t.stock) + Total(t.newStock)

LEMMA SkusFinite ==
  ASSUME NEW P, IsFiniteSet(P)
  PROVE  IsFiniteSet(SkusOf(P))
<1> DEFINE sku == [p \in P |-> p.sku]
<1>1. sku \in Surjection(P, SkusOf(P))
  BY DEF Surjection, SkusOf
<1> QED BY <1>1, FS_Surjection

LEMMA ConsistentFinite ==
  ASSUME NEW t, Consistent(t)
  PROVE  /\ IsFiniteSet(SkusOf(t.catalog)) /\ IsFiniteSet(SkusOf(t.newProducts))
         /\ Total(t.stock) \in Nat /\ Total(t.newStock) \in Nat /\ InStock(t) \in Nat
<1>1. IsFiniteSet(t.catalog) /\ IsFiniteSet(t.newProducts)
  BY FS_Subset DEF Consistent, ProductsOK
<1>2. IsFiniteSet(SkusOf(t.catalog)) /\ IsFiniteSet(SkusOf(t.newProducts))
  BY <1>1, SkusFinite
<1>3. Total(t.stock) \in Nat /\ Total(t.newStock) \in Nat
  BY <1>2, TotalNat DEF Consistent
<1> QED BY <1>2, <1>3 DEF InStock

(* A flush changes where the goods are, and nothing else.                  *)
LEMMA FlushKeeps ==
  ASSUME NEW t, IsSession(t), Consistent(t)
  PROVE  Consistent(Flush(t)) /\ InStock(Flush(t)) = InStock(t)
<1> DEFINE u == Flush(t)
           S == SkusOf(t.catalog)
           T == SkusOf(t.newProducts)
<1>1. /\ u.catalog = t.catalog \cup t.newProducts
      /\ u.stock = Merged(t.stock, t.newStock)
      /\ u.mappings = t.mappings /\ u.newProducts = {} /\ u.newStock = <<>>
      /\ u.credited = t.credited
  BY FlushEffect
<1> HIDE DEF u
<1>2. t.stock \in [S -> Nat] /\ t.newStock \in [T -> Nat] /\ S \cap T = {}
  BY DEF Consistent
<1>3. SkusOf(u.catalog) = S \cup T /\ SkusOf(u.newProducts) = {}
  BY <1>1 DEF SkusOf
<1> HIDE DEF S, T
<1>4. IsFiniteSet(S) /\ IsFiniteSet(T)
  BY ConsistentFinite DEF S, T
<1>5. u.stock = [k \in S \cup T |-> IF k \in S THEN t.stock[k] ELSE t.newStock[k]]
  <2>1. DOMAIN t.stock = S /\ DOMAIN t.newStock = T
    BY <1>2
  <2> QED BY <1>1, <2>1 DEF Merged
<1>6. u.stock \in [S \cup T -> Nat] /\ Total(u.stock) = Total(t.stock) + Total(t.newStock)
  BY <1>2, <1>4, <1>5, TotalMerge
<1>7. DOMAIN u.newStock = {} /\ u.newStock \in [{} -> Nat]
  BY <1>1
<1>8. InStock(u) = InStock(t)
  BY <1>6, <1>7, TotalEmpty, ConsistentFinite DEF InStock
<1>9. Consistent(u)
  <2>1. u.catalog \cup u.newProducts = t.catalog \cup t.newProducts
    BY <1>1
  <2>2. MappingsOK(u.mappings, u.catalog) /\ CreditedOK(u.credited, u.mappings)
    BY <1>1 DEF Consistent, MappingsOK
  <2> QED BY <1>3, <1>6, <1>7, <2>1, <2>2 DEF Consistent
<1> QED BY <1>8, <1>9 DEF u

(* A product that is new, with its first stock.                            *)
LEMMA AddNewKeeps ==
  ASSUME NEW t, SessionOK(t), NEW p, p.sku[1] = p.prov, NEW q \in Nat
  PROVE  LET u == AddStock(AddProduct(t, p), p.sku, q)
         IN  /\ SessionOK(u)
             /\ u.ok => /\ t.ok /\ InStock(u) = InStock(t) + q
                        /\ p \in u.catalog \cup u.newProducts
             /\ u.mappings = t.mappings
<1> DEFINE a == AddProduct(t, p)
           u == AddStock(a, p.sku, q)
<1>1. IsSession(t)
  BY DEF SessionOK
<1>2. /\ IsSession(a)
      /\ a.catalog = t.catalog /\ a.stock = t.stock /\ a.mappings = t.mappings
      /\ a.newProducts = t.newProducts \cup {p} /\ a.newStock = t.newStock
      /\ a.ok = (t.ok /\ \A x \in t.catalog \cup t.newProducts : x.sku # p.sku)
      /\ a.credited = t.credited
  BY <1>1, AddProductEffect
<1> HIDE DEF a
<1>3. /\ IsSession(u)
      /\ u.catalog = t.catalog /\ u.stock = t.stock /\ u.mappings = t.mappings
      /\ u.newProducts = t.newProducts \cup {p} /\ u.newStock = Put(t.newStock, p.sku, q)
      /\ u.ok = (a.ok /\ p.sku \notin DOMAIN t.stock \cup DOMAIN t.newStock)
      /\ u.credited = t.credited
  BY <1>2, AddStockEffect
<1> HIDE DEF u
<1>4. ASSUME u.ok
      PROVE  t.ok /\ Consistent(u) /\ InStock(u) = InStock(t) + q
  <2>1. /\ t.ok /\ Consistent(t)
        /\ \A x \in t.catalog \cup t.newProducts : x.sku # p.sku
        /\ p.sku \notin DOMAIN t.stock /\ p.sku \notin DOMAIN t.newStock
    BY <1>2, <1>3, <1>4 DEF SessionOK, IsSession
  <2> DEFINE S == SkusOf(t.catalog)
             T == SkusOf(t.newProducts)
  <2>2. t.stock \in [S -> Nat] /\ t.newStock \in [T -> Nat] /\ S \cap T = {}
    BY <2>1 DEF Consistent
  <2>3. SkusOf(u.catalog) = S /\ SkusOf(u.newProducts) = T \cup {p.sku}
    BY <1>3 DEF SkusOf
  <2>4. IsFiniteSet(T)
    BY <2>1, ConsistentFinite
  <2> HIDE DEF S, T
  <2>5. p.sku \notin S /\ p.sku \notin T
    BY <2>1, <2>2
  <2>6. /\ u.newStock \in [T \cup {p.sku} -> Nat]
        /\ Total(u.newStock) = Total(t.newStock) + q
    <3>1. /\ Put(t.newStock, p.sku, q) \in [T \cup {p.sku} -> Nat]
          /\ Total(Put(t.newStock, p.sku, q)) = Total(t.newStock) + q
      <4> DEFINE g == t.newStock
                 k == p.sku
      <4>1. IsFiniteSet(T) /\ g \in [T -> Nat] /\ k \notin T
        BY <2>2, <2>4, <2>5
      <4> HIDE DEF g, k
      <4>2. Put(g, k, q) \in [T \cup {k} -> Nat] /\ Total(Put(g, k, q)) = Total(g) + q
        <5>1. Put(g, k, q) \in [T \cup {k} -> Nat]
          BY <4>1 DEF Put
        <5>2. Total(Put(g, k, q)) = Total(g) + q
          <6>1. DOMAIN g = T
            BY <4>1
          <6> QED BY <4>1, <6>1, TotalPut
        <5> QED BY <5>1, <5>2
      <4> QED BY <4>2 DEF g, k
    <3> QED BY <1>3, <3>1
  <2>7. InStock(u) = InStock(t) + q
    BY <1>3, <2>1, <2>6, ConsistentFinite DEF InStock
  <2>8. ProductsOK(u.catalog \cup u.newProducts)
    <3>1. u.catalog \cup u.newProducts = (t.catalog \cup t.newProducts) \cup {p}
      BY <1>3
    <3>2. ProductsOK(t.catalog \cup t.newProducts)
      BY <2>1 DEF Consistent
    <3>3. IsFiniteSet((t.catalog \cup t.newProducts) \cup {p})
      BY <3>2, FS_AddElement DEF ProductsOK
    <3> QED BY <2>1, <3>1, <3>2, <3>3 DEF ProductsOK
  <2>9. MappingsOK(u.mappings, u.catalog) /\ CreditedOK(u.credited, u.mappings)
    BY <1>3, <2>1 DEF Consistent
  <2>10. /\ u.stock \in [SkusOf(u.catalog) -> Nat]
         /\ SkusOf(u.catalog) \cap SkusOf(u.newProducts) = {}
    BY <1>3, <2>2, <2>3, <2>5
  <2>11. Consistent(u)
    BY <2>3, <2>6, <2>8, <2>9, <2>10 DEF Consistent
  <2> QED BY <2>1, <2>7, <2>11
<1> QED BY <1>3, <1>4 DEF SessionOK, a, u

-----------------------------------------------------------------------------
(* More of a product the catalog has.                                      *)
LEMMA BumpKeeps ==
  ASSUME NEW t, IsSession(t), Consistent(t), NEW p \in t.catalog, NEW q \in Nat
  PROVE  LET u == BumpStock(t, p.sku, q)
         IN  /\ IsSession(u) /\ Consistent(u) /\ InStock(u) = InStock(t) + q
             /\ u.ok = t.ok /\ u.mappings = t.mappings /\ u.catalog = t.catalog
<1> DEFINE u == BumpStock(t, p.sku, q)
           S == SkusOf(t.catalog)
<1>1. p.sku \in S /\ t.stock \in [S -> Nat]
  BY DEF Consistent, SkusOf
<1>2. p.sku \in DOMAIN t.stock
  BY <1>1
<1>3. /\ IsSession(u)
      /\ u.catalog = t.catalog /\ u.stock = Raised(t.stock, p.sku, q)
      /\ u.mappings = t.mappings
      /\ u.newProducts = t.newProducts /\ u.newStock = t.newStock
      /\ u.ok = t.ok /\ u.credited = t.credited
  BY <1>2, BumpStockEffect
<1> HIDE DEF u
<1>4. IsFiniteSet(S)
  BY ConsistentFinite
<1> HIDE DEF S
<1>5. /\ [t.stock EXCEPT ![p.sku] = @ + q] \in [S -> Nat]
      /\ Total([t.stock EXCEPT ![p.sku] = @ + q]) = Total(t.stock) + q
  BY <1>1, <1>4, TotalChange
<1>6. u.stock \in [S -> Nat] /\ Total(u.stock) = Total(t.stock) + q
  BY <1>3, <1>5 DEF Raised
<1>7. InStock(u) = InStock(t) + q
  BY <1>3, <1>6, ConsistentFinite DEF InStock
<1>8. Consistent(u)
  BY <1>3, <1>6 DEF Consistent, S
<1> QED BY <1>3, <1>7, <1>8 DEF u

(* A mapping may be written before or after the flush that comes with it.  *)
LEMMA FlushMapped ==
  ASSUME NEW t, IsSession(t), NEW s, NEW code, NEW sku
  PROVE  Flush(Mapped(t, s, code, sku)) = Mapped(Flush(t), s, code, sku)
<1> DEFINE m == Mapped(t, s, code, sku)
           f == Flush(t)
           u == Flush(m)
           v == Mapped(f, s, code, sku)
<1>1. /\ IsSession(m) /\ m.catalog = t.catalog /\ m.stock = t.stock
      /\ m.mappings = Put(t.mappings, <<s, Key[code]>>, sku)
      /\ m.newProducts = t.newProducts /\ m.newStock = t.newStock
      /\ m.ok = t.ok /\ m.credited = t.credited
  BY MappedEffect
<1>2. /\ IsSession(f) /\ f.catalog = t.catalog \cup t.newProducts
      /\ f.stock = Merged(t.stock, t.newStock)
      /\ f.mappings = t.mappings /\ f.newProducts = {} /\ f.newStock = <<>>
      /\ f.ok = t.ok /\ f.credited = t.credited
  BY FlushEffect
<1> HIDE DEF m, f
<1>3. /\ IsSession(u) /\ u.catalog = m.catalog \cup m.newProducts
      /\ u.stock = Merged(m.stock, m.newStock)
      /\ u.mappings = m.mappings /\ u.newProducts = {} /\ u.newStock = <<>>
      /\ u.ok = m.ok /\ u.credited = m.credited
  BY <1>1, FlushEffect
<1>4. /\ IsSession(v) /\ v.catalog = f.catalog /\ v.stock = f.stock
      /\ v.mappings = Put(f.mappings, <<s, Key[code]>>, sku)
      /\ v.newProducts = f.newProducts /\ v.newStock = f.newStock
      /\ v.ok = f.ok /\ v.credited = f.credited
  BY <1>2, MappedEffect
<1> HIDE DEF u, v
<1>5. u.stock = v.stock
  BY <1>1, <1>2, <1>3, <1>4
<1>6. /\ u.catalog = v.catalog /\ u.mappings = v.mappings /\ u.newProducts = v.newProducts
      /\ u.newStock = v.newStock /\ u.ok = v.ok /\ u.credited = v.credited
  BY <1>1, <1>2, <1>3, <1>4
<1>7. u = v
  BY <1>3, <1>4, <1>5, <1>6 DEF IsSession
<1> QED BY <1>7 DEF u, v, m, f

LEMMA RecordKeeps ==
  ASSUME NEW t, SessionOK(t), NEW s, NEW code, NEW sku,
         t.ok => Holds(t, s, sku)
  PROVE  LET u == RecordSupplierSku(t, s, code, sku)
         IN  /\ SessionOK(u) /\ u.ok = t.ok
             /\ t.ok => InStock(u) = InStock(t)
             /\ \A x, k : Holds(t, x, k) => Holds(u, x, k)
             /\ \A k \in DOMAIN t.mappings :
                  k \in DOMAIN u.mappings /\ u.mappings[k] = t.mappings[k]
             /\ code # NoCode => <<s, Key[code]>> \in DOMAIN u.mappings
             /\ \A k \in DOMAIN u.mappings \ DOMAIN t.mappings : u.mappings[k] = sku
<1> DEFINE u == RecordSupplierSku(t, s, code, sku)
<1>1. IsSession(t)
  BY DEF SessionOK
<1>2. CASE code = NoCode \/ <<s, Key[code]>> \in DOMAIN t.mappings
  <2>1. u = t
    BY <1>2 DEF RecordSupplierSku
  <2> HIDE DEF u
  <2>2. code # NoCode => <<s, Key[code]>> \in DOMAIN u.mappings
    BY <1>2, <2>1
  <2> QED BY <2>1, <2>2 DEF u
<1>3. CASE ~(code = NoCode \/ <<s, Key[code]>> \in DOMAIN t.mappings)
  <2> DEFINE key == <<s, Key[code]>>
             f == Flush(t)
             v == Mapped(f, s, code, sku)
  <2>1. u = v
    BY <1>1, <1>3, RecordIs, FlushMapped
  <2> HIDE DEF u
  <2>2. /\ IsSession(f) /\ f.catalog = t.catalog \cup t.newProducts
        /\ f.mappings = t.mappings /\ f.newProducts = {}
        /\ f.ok = t.ok /\ f.credited = t.credited
    BY <1>1, FlushEffect
  <2>3. t.ok => Consistent(f) /\ InStock(f) = InStock(t)
    BY <1>1, FlushKeeps DEF SessionOK
  <2> HIDE DEF f
  <2>4. /\ IsSession(v) /\ v.catalog = f.catalog /\ v.stock = f.stock
        /\ v.mappings = Put(f.mappings, key, sku)
        /\ v.newProducts = f.newProducts /\ v.newStock = f.newStock
        /\ v.ok = f.ok /\ v.credited = f.credited
    BY <2>2, MappedEffect
  <2> HIDE DEF v
  <2>5. key \notin DOMAIN t.mappings /\ key[1] = s
    BY <1>3
  <2> HIDE DEF key
  <2>6. /\ DOMAIN v.mappings = DOMAIN t.mappings \cup {key} /\ v.mappings[key] = sku
        /\ \A k \in DOMAIN t.mappings : v.mappings[k] = t.mappings[k]
    BY <2>2, <2>4, <2>5 DEF Put
  <2>7. ASSUME t.ok PROVE Consistent(v)
    <3>1. Consistent(f)
      BY <2>3, <2>7
    <3>2. MappingsOK(v.mappings, v.catalog)
      <4>1. MappingsOK(t.mappings, f.catalog)
        BY <2>2, <3>1 DEF Consistent
      <4>2. \E p \in f.catalog : p.sku = sku /\ p.prov = s
        BY <2>2, <2>7 DEF Holds
      <4> QED BY <2>4, <2>5, <2>6, <4>1, <4>2 DEF MappingsOK
    <3>3. CreditedOK(v.credited, v.mappings)
      <4>1. CreditedOK(t.credited, t.mappings)
        BY <2>2, <3>1 DEF Consistent
      <4> QED BY <2>2, <2>4, <2>6, <4>1 DEF CreditedOK
    <3> QED BY <2>4, <3>1, <3>2, <3>3 DEF Consistent
  <2>8. t.ok => InStock(v) = InStock(t)
    BY <2>3, <2>4 DEF InStock
  <2>9. SessionOK(v) /\ v.ok = t.ok
    BY <2>2, <2>4, <2>7 DEF SessionOK
  <2>10. \A x, k : Holds(t, x, k) => Holds(v, x, k)
    <3>1. t.catalog \cup t.newProducts = v.catalog \cup v.newProducts
      BY <2>2, <2>4
    <3> QED BY <3>1 DEF Holds
  <2>11. code # NoCode => key \in DOMAIN v.mappings
    BY <2>6
  <2>12. \A k \in DOMAIN v.mappings \ DOMAIN t.mappings : v.mappings[k] = sku
    BY <2>6
  <2> QED BY <2>1, <2>6, <2>8, <2>9, <2>10, <2>11, <2>12 DEF u, key
<1> QED BY <1>2, <1>3

-----------------------------------------------------------------------------
(* What is found under the codes of a line is a product of the supplier,   *)
(* and the one the printed code is mapped to if it is.                     *)
LEMMA FindExistingOK ==
  ASSUME NEW t, Consistent(t), NEW s, NEW r
  PROVE  LET key == <<s, Key[r.line.code]>>
         IN  /\ \A sku \in FindExisting(t, s, r) :
                  /\ \E p \in t.catalog : p.sku = sku /\ p.prov = s
                  /\ r.line.code # NoCode /\ key \in DOMAIN t.mappings => sku = t.mappings[key]
             /\ FindExisting(t, s, r) = {} /\ r.line.code # NoCode => key \notin DOMAIN t.mappings
<1> DEFINE codes == <<r.line.code>> \o RowCode(r)
           mapped == {i \in DOMAIN codes : /\ codes[i] # NoCode
                                           /\ <<s, Key[codes[i]]>> \in DOMAIN t.mappings
                                           /\ Known(t, t.mappings[<<s, Key[codes[i]]>>])}
           known == {NewSku(s, r)} \cap {p.sku : p \in t.catalog}
           key == <<s, Key[r.line.code]>>
<1>1. DOMAIN codes \subseteq {1, 2} /\ 1 \in DOMAIN codes /\ codes[1] = r.line.code
  <2>1. CASE r.row = NoRow
    <3>1. codes = <<r.line.code>>
      BY <2>1 DEF RowCode
    <3>2. DOMAIN <<r.line.code>> = {1} /\ <<r.line.code>>[1] = r.line.code
      OBVIOUS
    <3> HIDE DEF codes
    <3> QED BY <3>1, <3>2
  <2>2. CASE r.row # NoRow
    <3>1. codes = <<r.line.code>> \o <<r.row.code>>
      BY <2>2 DEF RowCode
    <3> DEFINE S == {r.line.code, r.row.code}
    <3>2. /\ <<r.line.code>> \in Seq(S) /\ <<r.row.code>> \in Seq(S)
          /\ Len(<<r.line.code>>) = 1 /\ Len(<<r.row.code>>) = 1
          /\ <<r.line.code>>[1] = r.line.code
      OBVIOUS
    <3> HIDE DEF codes, S
    <3>3. codes \in Seq(S) /\ Len(codes) = 2 /\ codes[1] = r.line.code
      <4> DEFINE a == <<r.line.code>>
                 b == <<r.row.code>>
      <4>1. a \in Seq(S) /\ b \in Seq(S) /\ Len(a) = 1 /\ Len(b) = 1 /\ a[1] = r.line.code
            /\ codes = a \o b
        BY <3>1, <3>2
      <4> HIDE DEF a, b
      <4>2. /\ a \o b \in Seq(S) /\ Len(a \o b) = Len(a) + Len(b)
            /\ \A i \in 1 .. Len(a) + Len(b) : (a \o b)[i] = IF i <= Len(a) THEN a[i] ELSE b[i - Len(a)]
        BY <4>1, ConcatProperties
      <4> QED BY <4>1, <4>2
    <3>4. DOMAIN codes = 1..2
      BY <3>3, LenProperties
    <3> QED BY <3>3, <3>4
  <2> QED BY <2>1, <2>2
<1>2. FindExisting(t, s, r) =
        IF mapped # {} THEN {t.mappings[<<s, Key[codes[Min(mapped)]]>>]} ELSE known
  BY DEF FindExisting, FirstKnown
<1> HIDE DEF codes
<1>3. \A k \in DOMAIN t.mappings : \E p \in t.catalog : p.sku = t.mappings[k] /\ p.prov = k[1]
  BY DEF Consistent, MappingsOK
<1>4. r.line.code # NoCode /\ key \in DOMAIN t.mappings => 1 \in mapped
  BY <1>1, <1>3 DEF Known
<1>5. mapped \subseteq {1, 2}
  BY <1>1
<1>6. mapped # {} => Min(mapped) \in mapped /\ (1 \in mapped => Min(mapped) = 1)
  <2> HIDE DEF mapped
  <2> SUFFICES ASSUME mapped # {} PROVE Min(mapped) \in mapped /\ (1 \in mapped => Min(mapped) = 1)
    OBVIOUS
  <2>1. \E x \in mapped : \A y \in mapped : x <= y
    <3>1. CASE 1 \in mapped
      BY <1>5, <3>1
    <3>2. CASE 1 \notin mapped
      <4>1. mapped = {2}
        BY <1>5, <3>2
      <4> QED BY <4>1
    <3> QED BY <3>1, <3>2
  <2>2. Min(mapped) \in mapped /\ \A y \in mapped : Min(mapped) <= y
    BY <2>1 DEF Min
  <2> DEFINE m == Min(mapped)
  <2>3. m \in mapped /\ (1 \in mapped => m <= 1) /\ m \in {1, 2}
    BY <1>5, <2>2
  <2> HIDE DEF m
  <2>4. m \in mapped /\ (1 \in mapped => m = 1)
    BY <2>3
  <2> QED BY <2>4 DEF m
<1>7. CASE mapped # {}
  <2> DEFINE i == Min(mapped)
             sku == t.mappings[<<s, Key[codes[i]]>>]
  <2>1. i \in mapped /\ (1 \in mapped => i = 1)
    BY <1>6, <1>7
  <2>2. FindExisting(t, s, r) = {sku}
    BY <1>2, <1>7
  <2> HIDE DEF i
  <2>3. \E p \in t.catalog : p.sku = sku /\ p.prov = s
    <3>1. <<s, Key[codes[i]]>> \in DOMAIN t.mappings
      BY <2>1
    <3>2. <<s, Key[codes[i]]>>[1] = s
      OBVIOUS
    <3> QED BY <1>3, <3>1, <3>2
  <2>4. r.line.code # NoCode /\ key \in DOMAIN t.mappings => sku = t.mappings[key]
    BY <1>1, <1>4, <2>1
  <2> HIDE DEF sku, key, mapped
  <2> QED BY <2>2, <2>3, <2>4 DEF key
<1>8. CASE mapped = {}
  <2>1. FindExisting(t, s, r) = known
    BY <1>2, <1>8
  <2>2. r.line.code # NoCode => key \notin DOMAIN t.mappings
    BY <1>4, <1>8
  <2>3. NewSku(s, r)[1] = s
    BY DEF NewSku, BuildSku
  <2>4. \A p \in t.catalog : p.sku[1] = p.prov
    BY DEF Consistent, ProductsOK
  <2>5. \A sku \in known : \E p \in t.catalog : p.sku = sku /\ p.prov = s
    BY <2>3, <2>4
  <2> HIDE DEF known, key
  <2> QED BY <2>1, <2>2, <2>5 DEF key
<1> QED BY <1>7, <1>8

-----------------------------------------------------------------------------
(* One line.  Done says what a session has done for it, up to the credit.  *)
Received(r) == IF r.line.qty > 0 THEN r.line.qty ELSE 0

MappedTo(t, s, code, sku) ==
    code # NoCode => <<s, Key[code]>> \in DOMAIN t.mappings /\ t.mappings[<<s, Key[code]>>] = sku

Done(t, s, r, sku, d) ==
    /\ SessionOK(d)
    /\ d.ok => t.ok /\ InStock(d) = InStock(t) + r.line.qty /\ MappedTo(d, s, r.line.code, sku)

LEMMA BumpSession ==
  ASSUME NEW t, IsSession(t), NEW k, NEW q
  PROVE  LET u == BumpStock(t, k, q) IN IsSession(u) /\ (u.ok => t.ok)
<1>1. CASE k \in DOMAIN t.stock
  BY <1>1, BumpStockEffect
<1>2. CASE k \notin DOMAIN t.stock
  <2>1. BumpStock(t, k, q) = AddStock(t, k, q)
    BY <1>2 DEF BumpStock
  <2> QED BY <2>1, AddStockEffect
<1> QED BY <1>1, <1>2

LEMMA ExistingDone ==
  ASSUME NEW t, SessionOK(t), NEW s, NEW r, r.line.qty \in Nat, NEW sku \in FindExisting(t, s, r)
  PROVE  Done(t, s, r, sku,
              RecordSupplierSku(BumpStock(t, sku, r.line.qty), s, r.line.code, sku))
<1> DEFINE q == r.line.qty
           code == r.line.code
           key == <<s, Key[code]>>
           b == BumpStock(t, sku, q)
           d == RecordSupplierSku(b, s, code, sku)
<1>1. IsSession(t)
  BY DEF SessionOK
<1>2. IsSession(b) /\ (b.ok => t.ok)
  BY <1>1, BumpSession
<1>3. ASSUME t.ok
      PROVE  /\ Consistent(b) /\ InStock(b) = InStock(t) + q /\ b.mappings = t.mappings
             /\ \E p \in b.catalog : p.sku = sku /\ p.prov = s
             /\ code # NoCode /\ key \in DOMAIN t.mappings => sku = t.mappings[key]
  <2>1. Consistent(t)
    BY <1>3 DEF SessionOK
  <2>2. /\ \E p \in t.catalog : p.sku = sku /\ p.prov = s
        /\ code # NoCode /\ key \in DOMAIN t.mappings => sku = t.mappings[key]
    BY <2>1, FindExistingOK
  <2>3. PICK p \in t.catalog : p.sku = sku /\ p.prov = s
    BY <2>2
  <2>4. LET u == BumpStock(t, p.sku, q)
        IN  /\ IsSession(u) /\ Consistent(u) /\ InStock(u) = InStock(t) + q
            /\ u.ok = t.ok /\ u.mappings = t.mappings /\ u.catalog = t.catalog
    BY <1>1, <2>1, BumpKeeps
  <2>5. /\ Consistent(b) /\ InStock(b) = InStock(t) + q
        /\ b.mappings = t.mappings /\ b.catalog = t.catalog
    BY <2>3, <2>4
  <2> HIDE DEF b
  <2> QED BY <2>2, <2>5
<1> HIDE DEF b
<1>4. SessionOK(b) /\ (b.ok => Holds(b, s, sku))
  BY <1>2, <1>3 DEF SessionOK, Holds
<1>5. /\ SessionOK(d) /\ d.ok = b.ok
      /\ b.ok => InStock(d) = InStock(b)
      /\ \A k \in DOMAIN b.mappings : k \in DOMAIN d.mappings /\ d.mappings[k] = b.mappings[k]
      /\ code # NoCode => key \in DOMAIN d.mappings
      /\ \A k \in DOMAIN d.mappings \ DOMAIN b.mappings : d.mappings[k] = sku
  BY <1>4, RecordKeeps
<1> HIDE DEF d
<1>6. ASSUME d.ok PROVE t.ok /\ InStock(d) = InStock(t) + q /\ MappedTo(d, s, code, sku)
  <2>1. b.ok /\ t.ok
    BY <1>2, <1>5, <1>6
  <2>2. InStock(d) = InStock(t) + q
    BY <1>3, <1>5, <2>1
  <2> HIDE DEF key
  <2>3. code # NoCode => key \in DOMAIN d.mappings /\ d.mappings[key] = sku
    BY <1>3, <1>5, <2>1
  <2> QED BY <2>1, <2>2, <2>3 DEF MappedTo, key
<1> QED BY <1>5, <1>6 DEF Done, d, b

(* The mapping of a code that two records of one SKU may have written.     *)
LEMMA AdoptNewDone ==
  ASSUME NEW t, SessionOK(t), NEW s, NEW r, r.line.qty \in Nat, FindExisting(t, s, r) = {}
  PROVE  Done(t, s, r, NewSku(s, r), AdoptNew(t, s, r))
<1> DEFINE q == r.line.qty
           sku == NewSku(s, r)
           code == r.line.code
           key == <<s, Key[code]>>
           p == [sku |-> sku, prov |-> s, row |-> r.row]
           a == AddStock(AddProduct(t, p), sku, q)
           l == RecordSupplierSku(a, s, r.row.code, sku)
           d == RecordSupplierSku(l, s, code, sku)
<1>1. d = AdoptNew(t, s, r)
  BY DEF AdoptNew
<1>2. sku[1] = s
  BY DEF NewSku, BuildSku
<1> HIDE DEF sku
<1>3. p.sku = sku /\ p.prov = s
  OBVIOUS
<1>4. ASSUME t.ok, code # NoCode PROVE key \notin DOMAIN t.mappings
  BY <1>4, FindExistingOK DEF SessionOK
<1>5. /\ SessionOK(a)
      /\ a.ok => /\ t.ok /\ InStock(a) = InStock(t) + q
                 /\ p \in a.catalog \cup a.newProducts
      /\ a.mappings = t.mappings
  <2>1. a = AddStock(AddProduct(t, p), p.sku, q)
    BY <1>3
  <2> HIDE DEF a, p
  <2>2. LET u == AddStock(AddProduct(t, p), p.sku, q)
        IN  /\ SessionOK(u)
            /\ u.ok => /\ t.ok /\ InStock(u) = InStock(t) + q
                       /\ p \in u.catalog \cup u.newProducts
            /\ u.mappings = t.mappings
    BY <1>2, <1>3, AddNewKeeps
  <2> QED BY <2>1, <2>2
<1> HIDE DEF a, p
<1>6. a.ok => Holds(a, s, sku)
  BY <1>3, <1>5 DEF Holds
<1>7. /\ SessionOK(l) /\ l.ok = a.ok
      /\ a.ok => InStock(l) = InStock(a)
      /\ Holds(a, s, sku) => Holds(l, s, sku)
      /\ \A k \in DOMAIN l.mappings \ DOMAIN a.mappings : l.mappings[k] = sku
  <2> DEFINE c == r.row.code
  <2>1. SessionOK(a)
    BY <1>5
  <2> HIDE DEF c
  <2>2. LET u == RecordSupplierSku(a, s, c, sku)
        IN  /\ SessionOK(u) /\ u.ok = a.ok
            /\ a.ok => InStock(u) = InStock(a)
            /\ \A x, k : Holds(a, x, k) => Holds(u, x, k)
            /\ c # NoCode => <<s, Key[c]>> \in DOMAIN u.mappings
            /\ \A k \in DOMAIN u.mappings \ DOMAIN a.mappings : u.mappings[k] = sku
    BY <1>6, <2>1, RecordKeeps
  <2> QED BY <2>2 DEF c
<1> HIDE DEF l
<1>8. /\ SessionOK(d) /\ d.ok = l.ok
      /\ l.ok => InStock(d) = InStock(l)
      /\ \A k \in DOMAIN l.mappings : k \in DOMAIN d.mappings /\ d.mappings[k] = l.mappings[k]
      /\ code # NoCode => key \in DOMAIN d.mappings
      /\ \A k \in DOMAIN d.mappings \ DOMAIN l.mappings : d.mappings[k] = sku
  <2>1. SessionOK(l) /\ (l.ok => Holds(l, s, sku))
    BY <1>6, <1>7
  <2> QED BY <2>1, RecordKeeps
<1> HIDE DEF d
<1>9. ASSUME d.ok PROVE t.ok /\ InStock(d) = InStock(t) + q /\ MappedTo(d, s, code, sku)
  <2>1. l.ok /\ a.ok /\ t.ok
    BY <1>5, <1>7, <1>8, <1>9
  <2>2. InStock(d) = InStock(t) + q
    BY <1>5, <1>7, <1>8, <2>1
  <2>3. code # NoCode => key \notin DOMAIN a.mappings
    BY <1>4, <1>5, <2>1
  <2> HIDE DEF key
  <2>4. code # NoCode => key \in DOMAIN d.mappings /\ d.mappings[key] = sku
    BY <1>7, <1>8, <2>3
  <2> QED BY <2>1, <2>2, <2>4 DEF MappedTo, key
<1> QED BY <1>1, <1>8, <1>9 DEF Done, sku

LEMMA AdoptFromDocumentDone ==
  ASSUME NEW t, SessionOK(t), NEW s, NEW r, r.line.qty \in Nat, FindExisting(t, s, r) = {}
  PROVE  Done(t, s, r, NewSku(s, r), AdoptFromDocument(t, s, r))
<1> DEFINE q == r.line.qty
           sku == NewSku(s, r)
           code == r.line.code
           key == <<s, Key[code]>>
           p == [sku |-> sku, prov |-> s, row |-> NoRow]
           n == AddProduct(t, p)
           a == BumpStock(n, sku, q)
           d == RecordSupplierSku(a, s, code, sku)
<1>1. d = AdoptFromDocument(t, s, r)
  BY DEF AdoptFromDocument
<1>2. sku[1] = s
  BY DEF NewSku, BuildSku
<1> HIDE DEF sku
<1>3. p.sku = sku /\ p.prov = s
  OBVIOUS
<1>4. ASSUME t.ok, code # NoCode PROVE key \notin DOMAIN t.mappings
  BY <1>4, FindExistingOK DEF SessionOK
<1> HIDE DEF p
<1>5. /\ SessionOK(a)
      /\ a.ok => /\ t.ok /\ InStock(a) = InStock(t) + q
                 /\ p \in a.catalog \cup a.newProducts
                 /\ a.mappings = t.mappings
  <2>1. IsSession(t)
    BY DEF SessionOK
  <2>2. /\ IsSession(n) /\ n.stock = t.stock
        /\ n.ok = (t.ok /\ \A x \in t.catalog \cup t.newProducts : x.sku # sku)
    BY <1>3, <2>1, AddProductEffect
  <2>3. CASE sku \in DOMAIN n.stock
    <3>1. ~n.ok
      <4> SUFFICES ASSUME n.ok PROVE FALSE
        BY <2>2 DEF IsSession
      <4>1. t.ok /\ \A x \in t.catalog : x.sku # sku
        BY <2>2
      <4>2. DOMAIN t.stock = SkusOf(t.catalog)
        BY <4>1 DEF SessionOK, Consistent
      <4> QED BY <2>2, <2>3, <4>1, <4>2 DEF SkusOf
    <3>2. IsSession(a) /\ a.ok = n.ok
      <4> HIDE DEF n
      <4> QED BY <2>2, <2>3, BumpStockEffect
    <3> HIDE DEF a
    <3> QED BY <3>1, <3>2 DEF SessionOK
  <2>4. CASE sku \notin DOMAIN n.stock
    <3>1. a = AddStock(n, p.sku, q)
      BY <1>3, <2>4 DEF BumpStock
    <3> HIDE DEF a
    <3>2. LET u == AddStock(AddProduct(t, p), p.sku, q)
          IN  /\ SessionOK(u)
              /\ u.ok => /\ t.ok /\ InStock(u) = InStock(t) + q
                         /\ p \in u.catalog \cup u.newProducts
              /\ u.mappings = t.mappings
      BY <1>2, <1>3, AddNewKeeps
    <3> QED BY <3>1, <3>2
  <2> QED BY <2>3, <2>4
<1> HIDE DEF a, n
<1>6. /\ SessionOK(d) /\ d.ok = a.ok
      /\ a.ok => InStock(d) = InStock(a)
      /\ code # NoCode => key \in DOMAIN d.mappings
      /\ \A k \in DOMAIN d.mappings \ DOMAIN a.mappings : d.mappings[k] = sku
  <2>1. a.ok => Holds(a, s, sku)
    BY <1>3, <1>5 DEF Holds
  <2> QED BY <1>5, <2>1, RecordKeeps
<1> HIDE DEF d
<1>7. ASSUME d.ok PROVE t.ok /\ InStock(d) = InStock(t) + q /\ MappedTo(d, s, code, sku)
  <2>1. a.ok /\ t.ok /\ a.mappings = t.mappings
    BY <1>5, <1>6, <1>7
  <2>2. InStock(d) = InStock(t) + q
    BY <1>5, <1>6, <2>1
  <2>3. code # NoCode => key \notin DOMAIN a.mappings
    BY <1>4, <2>1
  <2> HIDE DEF key
  <2>4. code # NoCode => key \in DOMAIN d.mappings /\ d.mappings[key] = sku
    BY <1>6, <2>3
  <2> QED BY <2>1, <2>2, <2>4 DEF MappedTo, key
<1> QED BY <1>1, <1>6, <1>7 DEF Done, sku

LEMMA CreditKeeps ==
  ASSUME NEW t, SessionOK(t), NEW s, NEW code, NEW sku, t.ok => MappedTo(t, s, code, sku)
  PROVE  LET u == Credit(t, s, code, sku)
         IN  SessionOK(u) /\ u.ok = t.ok /\ InStock(u) = InStock(t)
<1> DEFINE u == Credit(t, s, code, sku)
<1>1. /\ IsSession(u)
      /\ u.catalog = t.catalog /\ u.stock = t.stock /\ u.mappings = t.mappings
      /\ u.newProducts = t.newProducts /\ u.newStock = t.newStock /\ u.ok = t.ok
      /\ u.credited = IF code = NoCode THEN t.credited
                      ELSE t.credited \cup {<<s, Key[code], sku>>}
  <2>1. IsSession(t)
    BY DEF SessionOK
  <2> QED BY <2>1, CreditEffect
<1> HIDE DEF u
<1>2. ASSUME t.ok PROVE Consistent(u)
  <2>1. CreditedOK(t.credited, t.mappings) /\ MappedTo(t, s, code, sku) /\ Consistent(t)
    BY <1>2 DEF SessionOK, Consistent
  <2>2. CreditedOK(u.credited, u.mappings)
    <3> SUFFICES ASSUME NEW x \in u.credited
                 PROVE  /\ <<x[1], x[2]>> \in DOMAIN t.mappings
                        /\ t.mappings[<<x[1], x[2]>>] = x[3]
      BY <1>1 DEF CreditedOK
    <3>1. CASE x \in t.credited
      BY <2>1, <3>1 DEF CreditedOK
    <3>2. CASE x \notin t.credited
      <4>1. code # NoCode /\ x = <<s, Key[code], sku>>
        BY <1>1, <3>2
      <4>2. x[1] = s /\ x[2] = Key[code] /\ x[3] = sku
        BY <4>1
      <4> QED BY <2>1, <4>1, <4>2 DEF MappedTo
    <3> QED BY <3>1, <3>2
  <2> QED BY <1>1, <2>1, <2>2 DEF Consistent
<1>3. InStock(u) = InStock(t)
  BY <1>1 DEF InStock
<1> QED BY <1>1, <1>2, <1>3 DEF SessionOK, u

(* A line brings its quantity once, to the product its code is mapped to.  *)
LEMMA IngestLineKeeps ==
  ASSUME NEW t, SessionOK(t), NEW s, NEW r, r.line.qty \in Int
  PROVE  LET u == IngestLine(t, s, r)
         IN  SessionOK(u) /\ (u.ok => t.ok /\ InStock(u) = InStock(t) + Received(r))
<1> DEFINE existing == FindExisting(t, s, r)
           sku == IF existing = {} THEN NewSku(s, r) ELSE CHOOSE k \in existing : TRUE
           done == CASE existing # {} ->
                          RecordSupplierSku(BumpStock(t, sku, r.line.qty), s, r.line.code, sku)
                     [] existing = {} /\ r.row # NoRow -> AdoptNew(t, s, r)
                     [] OTHER -> AdoptFromDocument(t, s, r)
           u == IngestLine(t, s, r)
<1>1. u = IF r.line.qty <= 0 THEN t ELSE Credit(done, s, r.line.code, sku)
  BY DEF IngestLine
<1> HIDE DEF u
<1>2. CASE r.line.qty <= 0
  <2>1. u = t /\ Received(r) = 0
    BY <1>1, <1>2 DEF Received
  <2>2. t.ok => InStock(t) \in Nat
    BY ConsistentFinite DEF SessionOK
  <2> QED BY <2>1, <2>2 DEF u
<1>3. CASE r.line.qty > 0
  <2>1. r.line.qty \in Nat /\ Received(r) = r.line.qty
    BY <1>3 DEF Received
  <2>2. Done(t, s, r, sku, done)
    <3>1. CASE existing # {}
      <4>1. sku \in existing
        BY <3>1
      <4>2. done = RecordSupplierSku(BumpStock(t, sku, r.line.qty), s, r.line.code, sku)
        BY <3>1
      <4> HIDE DEF done, sku
      <4> QED BY <2>1, <4>1, <4>2, ExistingDone
    <3>2. CASE existing = {} /\ r.row # NoRow
      <4>1. done = AdoptNew(t, s, r) /\ sku = NewSku(s, r)
        BY <3>2
      <4> HIDE DEF done, sku
      <4> QED BY <2>1, <3>2, <4>1, AdoptNewDone
    <3>3. CASE existing = {} /\ r.row = NoRow
      <4>1. done = AdoptFromDocument(t, s, r) /\ sku = NewSku(s, r)
        BY <3>3
      <4> HIDE DEF done, sku
      <4> QED BY <2>1, <3>3, <4>1, AdoptFromDocumentDone
    <3> QED BY <3>1, <3>2, <3>3
  <2>3. u = Credit(done, s, r.line.code, sku)
    BY <1>1, <1>3
  <2> HIDE DEF done, sku
  <2>4. SessionOK(u) /\ u.ok = done.ok /\ InStock(u) = InStock(done)
    BY <2>2, <2>3, CreditKeeps DEF Done
  <2>5. u.ok => t.ok /\ InStock(u) = InStock(t) + Received(r)
    BY <2>1, <2>2, <2>4 DEF Done
  <2> QED BY <2>4, <2>5 DEF u
<1> QED BY <1>2, <1>3

-----------------------------------------------------------------------------
(* A confirmation: any number of lines, one session.                       *)
ResolvedLine == [line : Line, row : Row \cup {NoRow},
                 reason : {"none", "no_candidates", "ambiguous"}, candidates : SUBSET Row]

(* The goods of the first lines.                                           *)
FirstGoods(lines, n) ==
    {[line |-> i, cantidad |-> lines[i].line.qty] : i \in {k \in 1..n : lines[k].line.qty > 0}}

LEMMA FirstGoodsGrow ==
  ASSUME NEW lines \in Seq(ResolvedLine), NEW n \in Nat, n + 1 <= Len(lines), Rows(FirstGoods(lines, n))
  PROVE  /\ Rows(FirstGoods(lines, n + 1))
         /\ Quantity(FirstGoods(lines, n + 1)) = Quantity(FirstGoods(lines, n)) + Received(lines[n + 1])
<1> DEFINE r == lines[n + 1]
           q == r.line.qty
           row == [line |-> n + 1, cantidad |-> q]
           G == FirstGoods(lines, n)
           H == FirstGoods(lines, n + 1)
<1>1. q \in Int
  <2>1. n + 1 \in 1..Len(lines)
    OBVIOUS
  <2>2. r \in ResolvedLine
    BY <2>1, ElementOfSeq
  <2> QED BY <2>2 DEF ResolvedLine, Line
<1>2. 1..(n + 1) = 1..n \cup {n + 1}
  OBVIOUS
<1>3. CASE q > 0
  <2>1. H = G \cup {row}
    BY <1>2, <1>3 DEF FirstGoods
  <2>2. G \cap {row} = {}
    BY DEF FirstGoods
  <2>3. row.cantidad = q /\ q \in Nat
    BY <1>1, <1>3
  <2> HIDE DEF row, G, H
  <2>4. Rows({row}) /\ Quantity({row}) = q
    BY <2>3, QuantitySingleton
  <2>5. Rows(H) /\ Quantity(H) = Quantity(G) + q
    BY <2>1, <2>2, <2>4, RowsUnion, QuantityUnion DEF G
  <2> QED BY <1>3, <2>5 DEF Received, G, H
<1>4. CASE ~(q > 0)
  <2>1. H = G
    BY <1>2, <1>4 DEF FirstGoods
  <2>2. Quantity(G) \in Nat /\ Received(r) = 0
    BY <1>4, QuantityNat DEF Received
  <2> HIDE DEF G, H
  <2>3. Rows(H) /\ Quantity(H) = Quantity(G) + 0
    BY <2>1, <2>2 DEF G
  <2> QED BY <2>2, <2>3 DEF G, H
<1> QED BY <1>3, <1>4

(* The sessions after each line exist.                                     *)
LEMMA LinesLoop ==
  ASSUME NEW s, NEW lines, NEW m \in Nat
  PROVE  \E f : f = [n \in 0..m |-> IF n = 0 THEN Tx ELSE IngestLine(f[n - 1], s, lines[n])]
<1> DEFINE body(f, k) == [n \in 0..k |-> IF n = 0 THEN Tx ELSE IngestLine(f[n - 1], s, lines[n])]
           B == {k \in Nat : \E f : f = body(f, k)}
<1>1. 0 \in B
  <2> DEFINE f == [n \in 0..0 |-> Tx]
  <2>1. f = body(f, 0)
    OBVIOUS
  <2> QED BY <2>1
<1>2. ASSUME NEW k \in Nat, k \in B PROVE k + 1 \in B
  <2>1. PICK f : f = body(f, k)
    BY <1>2
  <2> DEFINE g == [n \in 0..(k + 1) |-> IF n = k + 1 THEN IngestLine(f[k], s, lines[k + 1]) ELSE f[n]]
  <2>2. ASSUME NEW n \in 0..(k + 1)
        PROVE  g[n] = IF n = 0 THEN Tx ELSE IngestLine(g[n - 1], s, lines[n])
    <3>1. CASE n = k + 1
      <4>1. n # 0 /\ n - 1 = k /\ k \in 0..(k + 1) /\ k # k + 1
        BY <3>1
      <4>2. g[n] = IngestLine(f[k], s, lines[k + 1]) /\ g[k] = f[k]
        BY <3>1, <4>1
      <4> HIDE DEF g
      <4> QED BY <3>1, <4>1, <4>2
    <3>2. CASE n # k + 1
      <4>1. n \in 0..k
        BY <3>2
      <4>2. f[n] = IF n = 0 THEN Tx ELSE IngestLine(f[n - 1], s, lines[n])
        BY <2>1, <4>1
      <4>3. g[n] = f[n]
        BY <3>2
      <4>4. n # 0 => g[n - 1] = f[n - 1]
        BY <4>1
      <4> HIDE DEF g
      <4> QED BY <4>2, <4>3, <4>4
    <3> QED BY <3>1, <3>2
  <2>3. g = [n \in 0..(k + 1) |-> g[n]]
    OBVIOUS
  <2>4. g = body(g, k + 1)
    <3> HIDE DEF g
    <3> QED BY <2>2, <2>3
  <2> HIDE DEF g
  <2> QED BY <2>4
<1> HIDE DEF B
<1>3. m \in B
  BY <1>1, <1>2, NatInductiveSet
<1> QED BY <1>3 DEF B

LEMMA AfterLinesKeep ==
  ASSUME NEW s, NEW lines \in Seq(ResolvedLine), SessionOK(Tx)
  PROVE  LET u == AfterLines(s, lines)
         IN  /\ SessionOK(u) /\ Goods(lines) \in Nat
             /\ u.ok => InStock(u) = InStock(Tx) + Goods(lines)
<1> DEFINE N == Len(lines)
           after == CHOOSE f : f = [n \in 0..N |-> IF n = 0 THEN Tx ELSE IngestLine(f[n - 1], s, lines[n])]
<1>1. N \in Nat /\ DOMAIN lines = 1..N
  BY LenProperties
<1>2. AfterLines(s, lines) = after[N]
  BY DEF AfterLines
<1>3. after = [n \in 0..N |-> IF n = 0 THEN Tx ELSE IngestLine(after[n - 1], s, lines[n])]
  BY <1>1, LinesLoop
<1> HIDE DEF after, N
<1>4. after[0] = Tx
  BY <1>1, <1>3
<1>5. \A n \in Nat : n + 1 <= N => after[n + 1] = IngestLine(after[n], s, lines[n + 1])
  <2> SUFFICES ASSUME NEW n \in Nat, n + 1 <= N
               PROVE  after[n + 1] = IngestLine(after[n], s, lines[n + 1])
    OBVIOUS
  <2>1. n + 1 \in 0..N /\ n + 1 # 0 /\ (n + 1) - 1 = n
    BY <1>1
  <2> QED BY <1>3, <2>1
<1> DEFINE B == {n \in Nat : n <= N =>
                   /\ SessionOK(after[n]) /\ Rows(FirstGoods(lines, n))
                   /\ after[n].ok =>
                        InStock(after[n]) = InStock(Tx) + Quantity(FirstGoods(lines, n))}
<1>6. InStock(Tx) \in Nat
  BY ConsistentFinite DEF SessionOK, Tx
<1>7. 0 \in B
  <2>1. FirstGoods(lines, 0) = {}
    BY DEF FirstGoods
  <2>2. Rows({}) /\ Quantity({}) = 0
    BY QuantityEmpty, FS_EmptySet DEF Rows
  <2>3. SessionOK(after[0]) /\ Rows(FirstGoods(lines, 0))
    BY <1>4, <2>1, <2>2
  <2>4. InStock(after[0]) = InStock(Tx) + Quantity(FirstGoods(lines, 0))
    <3>1. Quantity(FirstGoods(lines, 0)) = 0
      BY <2>1, <2>2
    <3>2. InStock(after[0]) = InStock(Tx)
      BY <1>4
    <3> QED BY <1>6, <3>1, <3>2
  <2> QED BY <2>3, <2>4
<1>8. ASSUME NEW n \in Nat, n \in B PROVE n + 1 \in B
  <2> SUFFICES ASSUME n + 1 <= N
               PROVE  /\ SessionOK(after[n + 1]) /\ Rows(FirstGoods(lines, n + 1))
                      /\ after[n + 1].ok =>
                           InStock(after[n + 1]) = InStock(Tx) + Quantity(FirstGoods(lines, n + 1))
    OBVIOUS
  <2> DEFINE t == after[n]
             r == lines[n + 1]
             u == after[n + 1]
  <2>1. /\ SessionOK(t) /\ Rows(FirstGoods(lines, n))
        /\ t.ok => InStock(t) = InStock(Tx) + Quantity(FirstGoods(lines, n))
    BY <1>1, <1>8
  <2>2. u = IngestLine(t, s, r)
    BY <1>5
  <2>3. r.line.qty \in Int
    <3>1. n + 1 \in 1..Len(lines)
      BY <1>1 DEF N
    <3>2. r \in ResolvedLine
      BY <3>1, ElementOfSeq
    <3> QED BY <3>2 DEF ResolvedLine, Line
  <2>4. /\ Rows(FirstGoods(lines, n + 1))
        /\ Quantity(FirstGoods(lines, n + 1)) = Quantity(FirstGoods(lines, n)) + Received(r)
    BY <2>1, FirstGoodsGrow DEF N
  <2> HIDE DEF t, r, u
  <2>5. SessionOK(u) /\ (u.ok => t.ok /\ InStock(u) = InStock(t) + Received(r))
    BY <2>1, <2>2, <2>3, IngestLineKeeps
  <2>6. Received(r) \in Nat /\ Quantity(FirstGoods(lines, n)) \in Nat
    BY <2>1, <2>3, QuantityNat DEF Received
  <2>7. u.ok => InStock(u) = InStock(Tx) + Quantity(FirstGoods(lines, n + 1))
    BY <1>6, <2>1, <2>4, <2>5, <2>6
  <2> QED BY <2>4, <2>5, <2>7 DEF u
<1>9. N \in B
  <2> HIDE DEF B
  <2> QED BY <1>1, <1>7, <1>8, NatInductiveSet
<1>10. Goods(lines) = Quantity(FirstGoods(lines, N))
  BY <1>1 DEF Goods, FirstGoods
<1> QED BY <1>1, <1>2, <1>9, <1>10, QuantityNat

-----------------------------------------------------------------------------
(* The page, the index and the books.                                      *)
Task == [prov : Suppliers, lines : Seq(Line), done : Seq(ResolvedLine), missed : BOOLEAN]

PageOK ==
    /\ active \subseteq Suppliers
    /\ rebuilt \in 1..Len(Indexes)
    /\ selected \in Suppliers \cup {NoSupplier}
    /\ parsed \in Seq(Line)
    /\ resolved \in Seq(ResolvedLine)
    /\ candidates \subseteq Row
    /\ tasks \in Seq(Task)

ReceiptsInv == PageOK /\ Consistent(Tx)

LEMMA TxIs ==
  /\ IsSession(Tx) /\ Tx.ok
  /\ Tx.catalog = catalog /\ Tx.stock = stock /\ Tx.mappings = mappings
  /\ Tx.newProducts = {} /\ Tx.newStock = <<>> /\ Tx.credited = credited
BY DEF Tx, IsSession

(* What the books are, when nothing is pending.                            *)
BooksOK ==
    /\ ProductsOK(catalog)
    /\ stock \in [SkusOf(catalog) -> Nat]
    /\ MappingsOK(mappings, catalog)
    /\ CreditedOK(credited, mappings)

LEMMA BooksAreConsistent == Consistent(Tx) <=> BooksOK
<1>1. SkusOf({}) = {} /\ <<>> \in [{} -> Nat]
  BY DEF SkusOf
<1>2. catalog \cup {} = catalog /\ SkusOf(catalog) \cap {} = {}
  OBVIOUS
<1> QED BY <1>1, <1>2, TxIs DEF Consistent, BooksOK

LEMMA CommitKeeps ==
  ASSUME NEW t, Consistent(t), t.newProducts = {}, Commit(t)
  PROVE  BooksOK'
<1>1. t.catalog \cup t.newProducts = t.catalog
  OBVIOUS
<1> QED BY <1>1 DEF Consistent, Commit, BooksOK

-----------------------------------------------------------------------------
LEMMA IndexRows == PageOK => index \subseteq Row
<1> SUFFICES ASSUME PageOK PROVE index \subseteq Row
  OBVIOUS
<1>1. Indexes \in Seq(SUBSET Row) /\ rebuilt \in 1..Len(Indexes)
  BY ReceiptsAssumption DEF PageOK
<1>2. Indexes[rebuilt] \in SUBSET Row
  BY <1>1, ElementOfSeq
<1> QED BY <1>2 DEF index

LEMMA ClassifyType ==
  ASSUME NEW line \in Line, NEW rows \in SUBSET Row
  PROVE  Classify(line, rows) \in ResolvedLine
<1>1. \A row \in Row : Resolved(line, row) \in ResolvedLine
  BY DEF Resolved, ResolvedLine
<1>2. \A reason \in {"none", "no_candidates", "ambiguous"}, c \in SUBSET Row :
        Pending(line, reason, c) \in ResolvedLine
  BY DEF Pending, ResolvedLine
<1>3. CASE Cardinality(rows) = 1
  <2>1. rows # {}
    BY <1>3, FS_EmptySet
  <2>2. (CHOOSE r \in rows : TRUE) \in Row
    BY <2>1
  <2>3. Classify(line, rows) = Resolved(line, CHOOSE r \in rows : TRUE)
    BY <1>3, <2>1 DEF Classify
  <2> QED BY <1>1, <2>2, <2>3
<1>4. CASE Cardinality(rows) # 1
  <2>1. \/ Classify(line, rows) = Pending(line, "no_candidates", {})
        \/ Classify(line, rows) = Pending(line, "ambiguous", rows)
    BY <1>4 DEF Classify
  <2> QED BY <1>2, <2>1
<1> QED BY <1>3, <1>4

LEMMA EnqueueType ==
  ASSUME tasks \in Seq(Task), NEW lines \in Seq(Line), NEW s \in Suppliers \cup {NoSupplier},
         Enqueue(lines, s)
  PROVE  tasks' \in Seq(Task)
<1>1. CASE lines = <<>> \/ s = NoSupplier
  BY <1>1 DEF Enqueue
<1>2. CASE ~(lines = <<>> \/ s = NoSupplier)
  <2> DEFINE task == [prov |-> s, lines |-> lines, done |-> <<>>, missed |-> FALSE]
  <2>1. task \in Task
    BY <1>2, EmptySeq DEF Task
  <2>2. tasks' = Append(tasks, task)
    BY <1>2 DEF Enqueue
  <2> HIDE DEF task
  <2> QED BY <2>1, <2>2, AppendProperties
<1> QED BY <1>1, <1>2

LEMMA FirstTask ==
  ASSUME tasks \in Seq(Task), Running
  PROVE  /\ Head(tasks) \in Task /\ Head(tasks) = tasks[1] /\ 1 \in 1..Len(tasks)
         /\ Tail(tasks) \in Seq(Task)
<1>1. Len(tasks) \in Nat \ {0}
  BY EmptySeq DEF Running
<1>2. Head(tasks) \in Task /\ Tail(tasks) \in Seq(Task)
  BY HeadTailProperties DEF Running
<1> QED BY <1>1, <1>2 DEF Head

LEMMA CurrentLineType ==
  ASSUME tasks \in Seq(Task), Unfinished
  PROVE  CurrentLine \in Line
<1> DEFINE t == Head(tasks)
<1>1. t \in Task
  BY FirstTask DEF Unfinished
<1>2. t.lines \in Seq(Line) /\ t.done \in Seq(ResolvedLine) /\ Len(t.done) < Len(t.lines)
  BY <1>1 DEF Task, Unfinished
<1>3. CurrentLine = t.lines[Len(t.done) + 1]
  BY DEF CurrentLine
<1> HIDE DEF t
<1>4. Len(t.done) \in Nat /\ Len(t.lines) \in Nat
  BY <1>2, LenProperties
<1>5. Len(t.done) + 1 \in 1..Len(t.lines)
  BY <1>2, <1>4
<1> QED BY <1>2, <1>3, <1>5, ElementOfSeq

LEMMA SettleType ==
  ASSUME tasks \in Seq(Task), Unfinished, NEW r \in ResolvedLine, Settle(r)
  PROVE  tasks' \in Seq(Task)
<1> DEFINE t == tasks[1]
           u == [t EXCEPT !.done = Append(@, r), !.missed = FALSE]
<1>1. t \in Task /\ 1 \in 1..Len(tasks)
  BY FirstTask DEF Unfinished
<1>2. tasks' = [tasks EXCEPT ![1] = u]
  <2>1. tasks' = [tasks EXCEPT ![1].done = Append(@, r), ![1].missed = FALSE]
    BY DEF Settle
  <2> QED BY <2>1
<1> HIDE DEF t
<1>3. Append(t.done, r) \in Seq(ResolvedLine)
  BY <1>1, AppendProperties DEF Task
<1>4. u \in Task
  BY <1>1, <1>3 DEF Task
<1> HIDE DEF u
<1> QED BY <1>1, <1>2, <1>4, ExceptSeq

-----------------------------------------------------------------------------
(* Types of the page and consistency of the books.                         *)
LEMMA ReceiptsInit == Init => ReceiptsInv
<1> SUFFICES ASSUME Init PROVE ReceiptsInv
  OBVIOUS
<1>1. 1 \in 1..Len(Indexes)
  <2>1. Len(Indexes) \in Nat \ {0}
    BY ReceiptsAssumption, EmptySeq
  <2> QED BY <2>1
<1>2. <<>> \in Seq(Line) /\ <<>> \in Seq(ResolvedLine) /\ <<>> \in Seq(Task)
  BY EmptySeq
<1>3. PageOK
  BY <1>1, <1>2 DEF Init, PageOK
<1>4. BooksOK
  <2>1. SkusOf({}) = {} /\ <<>> \in [{} -> Nat] /\ IsFiniteSet({})
    BY FS_EmptySet DEF SkusOf
  <2>2. DOMAIN mappings = {}
    BY DEF Init
  <2> QED BY <2>1, <2>2 DEF Init, BooksOK, ProductsOK, MappingsOK, CreditedOK
<1> QED BY <1>3, <1>4, BooksAreConsistent DEF ReceiptsInv

LEMMA BooksUnchanged == BooksOK /\ UNCHANGED books => BooksOK'
BY DEF BooksOK, books

(* The steps of the page.                                                  *)
LEMMA UploadType == PageOK /\ Upload => PageOK'
<1> SUFFICES ASSUME PageOK, Upload PROVE PageOK'
  OBVIOUS
<1>1. parsed' \in Seq(Line)
  <2>1. \A d \in DOMAIN Documents : ParseDocument(d) \subseteq Seq(Line)
    <3> TAKE d \in DOMAIN Documents
    <3>1. Documents[d] \in Seq(Seq(Line)) /\ Documents[d] # <<>>
      BY ReceiptsAssumption
    <3>2. Parse(d) \in Seq(Line)
      BY <3>1, FlattenType DEF Parse
    <3> QED BY <3>2, EmptySeq DEF ParseDocument
  <2>2. \/ parsed' \in UNION {ParseDocument(d) : d \in DOMAIN Documents}
        \/ parsed' = <<>>
    BY DEF Upload
  <2> QED BY <2>1, <2>2, EmptySeq
<1>2. tasks \in Seq(Task) /\ selected \in Suppliers \cup {NoSupplier} /\ Enqueue(parsed', selected)
  BY DEF PageOK, Upload
<1>3. tasks' \in Seq(Task)
  BY <1>1, <1>2, EnqueueType
<1> QED BY <1>1, <1>3 DEF PageOK, Upload

LEMMA SelectSupplierType ==
  ASSUME PageOK, NEW s \in Suppliers \cup {NoSupplier}, SelectSupplier(s)
  PROVE  PageOK'
<1>1. tasks \in Seq(Task) /\ parsed \in Seq(Line) /\ Enqueue(parsed, s)
  BY DEF PageOK, SelectSupplier
<1>2. tasks' \in Seq(Task)
  BY <1>1, EnqueueType
<1> QED BY <1>2 DEF PageOK, SelectSupplier

LEMMA SkipLineType == PageOK /\ SkipLine => PageOK'
<1> SUFFICES ASSUME PageOK, SkipLine PROVE PageOK'
  OBVIOUS
<1> DEFINE r == Pending(CurrentLine, "none", {})
<1>1. tasks \in Seq(Task) /\ Unfinished /\ Settle(r)
  BY DEF PageOK, SkipLine
<1>2. r \in ResolvedLine
  BY <1>1, CurrentLineType DEF Pending, ResolvedLine
<1> HIDE DEF r
<1>3. tasks' \in Seq(Task)
  BY <1>1, <1>2, SettleType
<1> QED BY <1>3 DEF PageOK, SkipLine

LEMMA LookUpExactType == PageOK /\ LookUpExact => PageOK'
<1> SUFFICES ASSUME PageOK, LookUpExact PROVE PageOK'
  OBVIOUS
<1> DEFINE rows == ExactLookup(CurrentLine.code, Head(tasks).prov)
           r == Classify(CurrentLine, rows)
<1>1. tasks \in Seq(Task) /\ Unfinished
  BY DEF PageOK, LookUpExact
<1>2. IF rows = {} THEN tasks' = [tasks EXCEPT ![1].missed = TRUE] ELSE Settle(r)
  BY DEF LookUpExact
<1>3. r \in ResolvedLine
  <2>1. rows \in SUBSET Row
    BY IndexRows DEF ExactLookup
  <2> HIDE DEF rows
  <2> QED BY <1>1, <2>1, CurrentLineType, ClassifyType
<1> HIDE DEF rows, r
<1>4. CASE rows = {}
  <2> DEFINE t == tasks[1]
             u == [t EXCEPT !.missed = TRUE]
  <2>1. t \in Task /\ 1 \in 1..Len(tasks)
    BY <1>1, FirstTask DEF Unfinished
  <2>2. tasks' = [tasks EXCEPT ![1] = u]
    BY <1>2, <1>4
  <2> HIDE DEF t
  <2>3. u \in Task
    BY <2>1 DEF Task
  <2> HIDE DEF u
  <2>4. tasks' \in Seq(Task)
    BY <1>1, <2>1, <2>2, <2>3, ExceptSeq
  <2> QED BY <2>4 DEF PageOK, LookUpExact
<1>5. CASE rows # {}
  <2>1. tasks' \in Seq(Task)
    BY <1>1, <1>2, <1>3, <1>5, SettleType
  <2> QED BY <2>1 DEF PageOK, LookUpExact
<1> QED BY <1>4, <1>5

LEMMA OfSupplierRows ==
  ASSUME PageOK, NEW s, NEW rows \in OfSupplier(s)
  PROVE  rows \in SUBSET Row
BY IndexRows DEF OfSupplier

LEMMA LookUpHybridType == PageOK /\ LookUpHybrid => PageOK'
<1> SUFFICES ASSUME PageOK, LookUpHybrid PROVE PageOK'
  OBVIOUS
<1>1. tasks \in Seq(Task) /\ Unfinished
  BY DEF PageOK, LookUpHybrid
<1>2. PICK rows \in OfSupplier(Head(tasks).prov) : Settle(Classify(CurrentLine, rows))
  BY DEF LookUpHybrid
<1>3. Classify(CurrentLine, rows) \in ResolvedLine
  BY <1>1, OfSupplierRows, CurrentLineType, ClassifyType
<1>4. tasks' \in Seq(Task)
  BY <1>1, <1>2, <1>3, SettleType
<1> QED BY <1>4 DEF PageOK, LookUpHybrid

LEMMA FinishResolveType == PageOK /\ FinishResolve => PageOK'
<1> SUFFICES ASSUME PageOK, FinishResolve PROVE PageOK'
  OBVIOUS
<1>1. tasks \in Seq(Task) /\ Running
  BY DEF PageOK, FinishResolve
<1>2. Head(tasks).done \in Seq(ResolvedLine) /\ Tail(tasks) \in Seq(Task)
  BY <1>1, FirstTask DEF Task
<1> QED BY <1>2 DEF PageOK, FinishResolve

LEMMA FailResolveType == PageOK /\ FailResolve => PageOK'
<1> SUFFICES ASSUME PageOK, FailResolve PROVE PageOK'
  OBVIOUS
<1>1. tasks \in Seq(Task) /\ Running
  BY DEF PageOK, FailResolve
<1>2. Tail(tasks) \in Seq(Task)
  BY <1>1, FirstTask
<1> QED BY <1>2 DEF PageOK, FailResolve

LEMMA ManualSearchType == PageOK /\ ManualSearch => PageOK'
<1> SUFFICES ASSUME PageOK, ManualSearch PROVE PageOK'
  OBVIOUS
<1>1. candidates' \subseteq Row
  BY OfSupplierRows DEF ManualSearch
<1> QED BY <1>1 DEF PageOK, ManualSearch

LEMMA ResolvedTypes ==
  ASSUME PageOK, NEW i \in DOMAIN resolved
  PROVE  /\ i \in 1..Len(resolved) /\ resolved[i] \in ResolvedLine
         /\ resolved[i].line \in Line /\ resolved[i].candidates \subseteq Row
<1>1. resolved \in Seq(ResolvedLine)
  BY DEF PageOK
<1>2. i \in 1..Len(resolved)
  BY <1>1, LenProperties
<1>3. resolved[i] \in ResolvedLine
  BY <1>1, <1>2, ElementOfSeq
<1> QED BY <1>2, <1>3 DEF ResolvedLine

LEMMA RowActionsType ==
  ASSUME PageOK, NEW i \in DOMAIN resolved, SelectRow(i) \/ Assign(i) \/ MarkNew(i)
  PROVE  PageOK'
<1>1. resolved \in Seq(ResolvedLine)
  BY DEF PageOK
<1>2. CASE SelectRow(i)
  <2>1. candidates' \subseteq Row
    BY <1>2, ResolvedTypes DEF SelectRow
  <2> QED BY <1>2, <2>1 DEF PageOK, SelectRow
<1>3. CASE Assign(i)
  <2>1. PICK row \in candidates :
          resolved' = [resolved EXCEPT ![i] = Resolved(resolved[i].line, row)]
    BY <1>3 DEF Assign
  <2>2. Resolved(resolved[i].line, row) \in ResolvedLine
    BY ResolvedTypes DEF PageOK, Resolved, ResolvedLine
  <2>3. resolved' \in Seq(ResolvedLine)
    BY <1>1, <2>1, <2>2, ResolvedTypes, ExceptSeq
  <2> QED BY <1>3, <2>3 DEF PageOK, Assign
<1>4. CASE MarkNew(i)
  <2>1. resolved' = [resolved EXCEPT ![i] = Pending(resolved[i].line, "no_candidates", {})]
    BY <1>4 DEF MarkNew
  <2>2. Pending(resolved[i].line, "no_candidates", {}) \in ResolvedLine
    BY ResolvedTypes DEF Pending, ResolvedLine
  <2>3. resolved' \in Seq(ResolvedLine)
    BY <1>1, <2>1, <2>2, ResolvedTypes, ExceptSeq
  <2> QED BY <1>4, <2>3 DEF PageOK, MarkNew
<1> QED BY <1>2, <1>3, <1>4

(* The steps of the books.                                                 *)
LEMMA ConfirmKeeps ==
  ASSUME ReceiptsInv, Confirm
  PROVE  BooksOK' /\ Total(stock') - Total(stock) = Goods(resolved)
<1> DEFINE a == AfterLines(selected, resolved)
           t == Flush(a)
<1>1. t.ok /\ Commit(t)
  BY DEF Confirm, Ingest
<1>2. resolved \in Seq(ResolvedLine) /\ SessionOK(Tx)
  BY TxIs DEF ReceiptsInv, PageOK, SessionOK
<1>3. SessionOK(a) /\ (a.ok => InStock(a) = InStock(Tx) + Goods(resolved))
  BY <1>2, AfterLinesKeep
<1> HIDE DEF a
<1>4. IsSession(a) /\ t.ok = a.ok /\ t.newProducts = {} /\ t.newStock = <<>>
  BY <1>3, FlushEffect DEF SessionOK
<1>5. Consistent(a)
  BY <1>1, <1>3, <1>4 DEF SessionOK
<1>6. Consistent(t) /\ InStock(t) = InStock(a)
  BY <1>4, <1>5, FlushKeeps
<1>7. InStock(t) = InStock(Tx) + Goods(resolved)
  BY <1>1, <1>3, <1>4, <1>6
<1> HIDE DEF t
<1>8. BooksOK'
  BY <1>1, <1>4, <1>6, CommitKeeps
<1>9. DOMAIN <<>> = {}
  OBVIOUS
<1>10. Total(t.newStock) = 0 /\ Total(Tx.newStock) = 0
  BY <1>4, <1>9, TotalEmpty, TxIs
<1>11. /\ Total(t.stock) \in Nat /\ Total(Tx.stock) \in Nat
  BY <1>6, ConsistentFinite DEF ReceiptsInv
<1>12. stock' = t.stock /\ Tx.stock = stock
  BY <1>1, TxIs DEF Commit
<1>13. Total(t.stock) = Total(Tx.stock) + Goods(resolved)
  BY <1>7, <1>10, <1>11 DEF InStock
<1>14. Total(stock') = Total(t.stock) /\ Total(stock) = Total(Tx.stock)
  BY <1>12
<1>15. Goods(resolved) \in Int
  BY <1>2, AfterLinesKeep
<1> QED BY <1>8, <1>11, <1>13, <1>14, <1>15

LEMMA AdoptKeeps == BooksOK /\ Adopt => BooksOK'
<1> SUFFICES ASSUME BooksOK, Adopt PROVE BooksOK'
  OBVIOUS
<1>1. SessionOK(Tx)
  BY TxIs, BooksAreConsistent DEF SessionOK
<1>2. PICK row \in Adoptable, qty \in Stocks \ {0} :
        LET sku == BuildSku(row.prov, row.code)
            t == AddStock(AddProduct(Tx, [sku |-> sku, prov |-> row.prov, row |-> row]), sku, qty)
        IN  t.ok /\ Commit(Flush(RecordSupplierSku(t, row.prov, row.code, sku)))
  BY DEF Adopt
<1> DEFINE sku == BuildSku(row.prov, row.code)
           p == [sku |-> sku, prov |-> row.prov, row |-> row]
           t == AddStock(AddProduct(Tx, p), sku, qty)
           l == RecordSupplierSku(t, row.prov, row.code, sku)
           f == Flush(l)
<1>3. t.ok /\ Commit(f)
  BY <1>2
<1>4. sku[1] = row.prov
  BY DEF BuildSku
<1> HIDE DEF sku
<1>5. p.sku = sku /\ p.prov = row.prov
  OBVIOUS
<1>6. qty \in Nat
  BY ReceiptsAssumption
<1>7. SessionOK(t) /\ (t.ok => p \in t.catalog \cup t.newProducts)
  <2>1. t = AddStock(AddProduct(Tx, p), p.sku, qty)
    BY <1>5
  <2> HIDE DEF t, p
  <2>2. LET u == AddStock(AddProduct(Tx, p), p.sku, qty)
        IN  /\ SessionOK(u)
            /\ u.ok => /\ Tx.ok /\ InStock(u) = InStock(Tx) + qty
                       /\ p \in u.catalog \cup u.newProducts
            /\ u.mappings = Tx.mappings
    BY <1>1, <1>4, <1>5, <1>6, AddNewKeeps
  <2> QED BY <2>1, <2>2
<1> HIDE DEF t, p
<1>8. SessionOK(l) /\ l.ok = t.ok
  <2>1. t.ok => Holds(t, row.prov, sku)
    BY <1>5, <1>7 DEF Holds
  <2> DEFINE c == row.code
             v == row.prov
  <2>2. SessionOK(t) /\ (t.ok => Holds(t, v, sku))
    BY <1>7, <2>1
  <2> HIDE DEF c, v
  <2>3. LET u == RecordSupplierSku(t, v, c, sku)
        IN  /\ SessionOK(u) /\ u.ok = t.ok
            /\ c # NoCode => <<v, Key[c]>> \in DOMAIN u.mappings
    BY <2>2, RecordKeeps
  <2> QED BY <2>3 DEF c, v
<1> HIDE DEF l
<1>9. IsSession(l) /\ Consistent(l)
  BY <1>3, <1>8 DEF SessionOK
<1>10. Consistent(f) /\ f.newProducts = {}
  BY <1>9, FlushKeeps, FlushEffect
<1> HIDE DEF f
<1> QED BY <1>3, <1>10, CommitKeeps

LEMMA EditStockKeeps == BooksOK /\ EditStock => BooksOK'
<1> SUFFICES ASSUME BooksOK, EditStock PROVE BooksOK'
  OBVIOUS
<1>1. PICK p \in catalog, n \in Stocks : stock' = Put(stock, p.sku, n)
  BY DEF EditStock
<1>2. n \in Nat /\ p.sku \in SkusOf(catalog)
  BY ReceiptsAssumption DEF SkusOf
<1> DEFINE S == SkusOf(catalog)
<1>3. stock \in [S -> Nat]
  BY DEF BooksOK
<1> HIDE DEF S
<1>4. stock' \in [S -> Nat]
  <2>1. S \cup {p.sku} = S
    BY <1>2 DEF S
  <2>2. DOMAIN stock = S
    BY <1>3
  <2> QED BY <1>1, <1>2, <1>3, <2>1, <2>2 DEF Put
<1>5. catalog' = catalog /\ mappings' = mappings /\ credited' = credited
  BY DEF EditStock
<1> QED BY <1>4, <1>5 DEF BooksOK, S

-----------------------------------------------------------------------------
LEMMA ReceiptsNext == ReceiptsInv /\ [Next]_vars => ReceiptsInv'
<1> SUFFICES ASSUME ReceiptsInv, [Next]_vars PROVE PageOK' /\ BooksOK'
  <2>1. Consistent(Tx)' <=> BooksOK'
    BY BooksAreConsistent, PTL
  <2> QED BY <2>1 DEF ReceiptsInv
<1>0. PageOK /\ BooksOK
  BY BooksAreConsistent DEF ReceiptsInv
<1>1. CASE Upload
  <2>1. UNCHANGED books
    BY <1>1 DEF Upload
  <2> QED BY <1>0, <1>1, <2>1, UploadType, BooksUnchanged
<1>2. ASSUME NEW s \in Suppliers \cup {NoSupplier}, SelectSupplier(s) PROVE PageOK' /\ BooksOK'
  <2>1. UNCHANGED books
    BY <1>2 DEF SelectSupplier
  <2> QED BY <1>0, <1>2, <2>1, SelectSupplierType, BooksUnchanged
<1>3. CASE SkipLine
  <2>1. UNCHANGED books
    BY <1>3 DEF SkipLine
  <2> QED BY <1>0, <1>3, <2>1, SkipLineType, BooksUnchanged
<1>4. CASE LookUpExact
  <2>1. UNCHANGED books
    BY <1>4 DEF LookUpExact
  <2> QED BY <1>0, <1>4, <2>1, LookUpExactType, BooksUnchanged
<1>5. CASE LookUpHybrid
  <2>1. UNCHANGED books
    BY <1>5 DEF LookUpHybrid
  <2> QED BY <1>0, <1>5, <2>1, LookUpHybridType, BooksUnchanged
<1>6. CASE FinishResolve
  <2>1. UNCHANGED books
    BY <1>6 DEF FinishResolve
  <2> QED BY <1>0, <1>6, <2>1, FinishResolveType, BooksUnchanged
<1>7. CASE FailResolve
  <2>1. UNCHANGED books
    BY <1>7 DEF FailResolve
  <2> QED BY <1>0, <1>7, <2>1, FailResolveType, BooksUnchanged
<1>8. CASE ManualSearch
  <2>1. UNCHANGED books
    BY <1>8 DEF ManualSearch
  <2> QED BY <1>0, <1>8, <2>1, ManualSearchType, BooksUnchanged
<1>9. ASSUME NEW i \in DOMAIN resolved, SelectRow(i) \/ Assign(i) \/ MarkNew(i)
      PROVE  PageOK' /\ BooksOK'
  <2>1. UNCHANGED books
    BY <1>9 DEF SelectRow, Assign, MarkNew
  <2> QED BY <1>0, <1>9, <2>1, RowActionsType, BooksUnchanged
<1>10. CASE Confirm
  <2>1. BooksOK'
    BY <1>10, ConfirmKeeps
  <2> QED BY <1>0, <1>10, <2>1 DEF Confirm, PageOK, page
<1>11. CASE Adopt
  <2> QED BY <1>0, <1>11, AdoptKeeps DEF Adopt, PageOK, page
<1>12. CASE EditStock
  <2> QED BY <1>0, <1>12, EditStockKeeps DEF EditStock, PageOK, page
<1>13. CASE Reindex
  <2>1. UNCHANGED books /\ UNCHANGED <<active, page>>
    BY <1>13 DEF Reindex
  <2>2. rebuilt' \in 1..Len(Indexes)
    <3>1. Len(Indexes) \in Nat
      BY ReceiptsAssumption, LenProperties
    <3> QED BY <1>0, <1>13, <3>1 DEF Reindex, PageOK
  <2> QED BY <1>0, <2>1, <2>2, BooksUnchanged DEF PageOK, page
<1>14. ASSUME NEW s \in Retirable, ToggleSupplier(s) PROVE PageOK' /\ BooksOK'
  <2>1. UNCHANGED books /\ UNCHANGED <<rebuilt, page>>
    BY <1>14 DEF ToggleSupplier
  <2>2. active' \subseteq Suppliers
    BY <1>0, <1>14, ReceiptsAssumption DEF ToggleSupplier, PageOK
  <2> QED BY <1>0, <2>1, <2>2, BooksUnchanged DEF PageOK, page
<1>15. CASE UNCHANGED vars
  BY <1>0, <1>15, BooksUnchanged DEF vars, PageOK, page
<1> QED BY <1>1, <1>2, <1>3, <1>4, <1>5, <1>6, <1>7, <1>8, <1>9, <1>10, <1>11, <1>12, <1>13,
           <1>14, <1>15 DEF Next

(* The books are consistent and the page is typed in every state.          *)
LEMMA ReceiptsSafe == Spec => []ReceiptsInv
BY ReceiptsInit, ReceiptsNext, PTL DEF Spec

(* ReceiptsTypeOK: a SKU is one product, every quantity and every mapping  *)
(* is about a product of the catalog, a mapping about one of its supplier. *)
THEOREM ReceiptsTyped == Spec => []ReceiptsTypeOK
<1>1. ReceiptsInv => ReceiptsTypeOK
  <2> SUFFICES ASSUME ReceiptsInv PROVE ReceiptsTypeOK
    OBVIOUS
  <2>1. PageOK /\ BooksOK
    BY BooksAreConsistent DEF ReceiptsInv
  <2>2. \A i \in DOMAIN resolved : resolved[i].row \in Row \cup {NoRow}
    BY <2>1, ResolvedTypes DEF ResolvedLine
  <2>3. DOMAIN stock = {p.sku : p \in catalog}
    BY <2>1 DEF BooksOK, SkusOf
  <2>4. \A a, b \in catalog : a.sku = b.sku => a = b
    BY <2>1 DEF BooksOK, ProductsOK
  <2>5. \A k \in DOMAIN mappings : \E p \in catalog : p.sku = mappings[k] /\ p.prov = k[1]
    BY <2>1 DEF BooksOK, MappingsOK
  <2> QED BY <2>1, <2>2, <2>3, <2>4, <2>5 DEF PageOK, ReceiptsTypeOK
<1> QED BY <1>1, ReceiptsSafe, PTL

(* OneProductPerCode: goods received under one code of a supplier went to  *)
(* one product, because a code keeps the mapping of its first receipt and  *)
(* the mapping goes before everything else that could name a product.      *)
THEOREM ReceiptsGoToOneProduct == Spec => []OneProductPerCode
<1>1. ReceiptsInv => OneProductPerCode
  BY BooksAreConsistent DEF ReceiptsInv, BooksOK, CreditedOK, OneProductPerCode
<1> QED BY <1>1, ReceiptsSafe, PTL

(* ConfirmedReceiptIsWhole: a confirmation that commits adds to the stock  *)
(* what its lines say, whichever of them are new, repeated or mapped.      *)
THEOREM ReceiptsAreWhole == Spec => ConfirmedReceiptIsWhole
<1> DEFINE Whole == confirms' # confirms => Total(stock') - Total(stock) = Goods(resolved)
<1>1. ReceiptsInv /\ [Next]_vars => [Whole]_vars
  <2> SUFFICES ASSUME ReceiptsInv, [Next]_vars PROVE Whole
    OBVIOUS
  <2>1. CASE Confirm
    BY <2>1, ConfirmKeeps
  <2>2. CASE ~Confirm
    <3>1. confirms' = confirms
      BY <2>2 DEF Next, vars, counts, Upload, SelectSupplier, SkipLine, LookUpExact, LookUpHybrid,
                  FinishResolve, FailResolve, ManualSearch, SelectRow, Assign, MarkNew, Adopt,
                  EditStock, Reindex, ToggleSupplier
    <3> QED BY <3>1
  <2> QED BY <2>1, <2>2
<1>2. Spec => [][Whole]_vars
  <2> HIDE DEF Whole
  <2> QED BY <1>1, ReceiptsSafe, PTL DEF Spec
<1> QED BY <1>2 DEF ConfirmedReceiptIsWhole

=============================================================================
