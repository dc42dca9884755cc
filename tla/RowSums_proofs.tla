--------------------------- MODULE RowSums_proofs ---------------------------
(***************************************************************************)
(* The laws of SUM(cantidad): it is a natural number, zero for no rows,    *)
(* additive over disjoint sets of rows and monotone.  And the induction    *)
(* that loops are reasoned about with, stated with sets of numbers.        *)
(***************************************************************************)
EXTENDS RowSums, SequencesExt, FiniteSetTheorems, SequenceTheorems, WellFoundedInduction, TLAPS

(* A set of numbers that has 0 and is closed under successor has them all. *)
LEMMA NatInductiveSet ==
  ASSUME NEW B, 0 \in B, \A n \in Nat : n \in B => n + 1 \in B
  PROVE  Nat \subseteq B
<1> SUFFICES ASSUME Nat \ B # {} PROVE FALSE
  OBVIOUS
<1> DEFINE T == Nat \ B
           less == OpToRel(<, Nat)
<1>1. \A x, y \in Nat : x < y => <<x, y>> \in less
  BY DEF OpToRel
<1>2. IsWellFoundedOn(less, Nat)
  BY NatLessThanWellFounded
<1> HIDE DEF less
<1>3. PICK n \in T : \A m \in T : <<m, n>> \notin less
  <2> HIDE DEF T
  <2>1. T \subseteq Nat /\ T # {}
    BY DEF T
  <2> QED BY <1>2, <2>1, WFMin
<1>4. n # 0 /\ n \in Nat
  OBVIOUS
<1>5. n - 1 \in Nat /\ n - 1 < n /\ (n - 1) + 1 = n
  BY <1>4
<1> QED BY <1>1, <1>3, <1>4, <1>5

-----------------------------------------------------------------------------
(* A finite set of rows with a quantity each.                              *)
Rows(R) == IsFiniteSet(R) /\ \A r \in R : r.cantidad \in Nat

(* Any part of a finite set of rows is one, and so is the union of two.    *)
LEMMA RowsSubset ==
  ASSUME NEW R, Rows(R), NEW T \in SUBSET R
  PROVE  Rows(T)
  BY FS_Subset DEF Rows

LEMMA RowsUnion ==
  ASSUME NEW R, NEW T, Rows(R), Rows(T)
  PROVE  Rows(R \cup T)
  BY FS_Union DEF Rows

(* Finitely many rows of finitely many units are finitely many units.      *)
LEMMA UnitsFinite ==
  ASSUME NEW R, Rows(R)
  PROVE  IsFiniteSet(Units(R))
<1> DEFINE unitsOf == [r \in R |-> {r} \X (1 .. r.cantidad)]
           parts == { {r} \X (1 .. r.cantidad) : r \in R }
<1>1. unitsOf \in Surjection(R, parts)
  <2>1. unitsOf \in [R -> parts]
    OBVIOUS
  <2>2. \A t \in parts : \E r \in R : unitsOf[r] = t
    OBVIOUS
  <2> QED BY <2>1, <2>2 DEF Surjection
<1>2. IsFiniteSet(parts)
  <2> HIDE DEF unitsOf, parts
  <2> QED BY <1>1, FS_Surjection DEF Rows
<1>3. \A t \in parts : IsFiniteSet(t)
  <2> SUFFICES ASSUME NEW r \in R PROVE IsFiniteSet({r} \X (1 .. r.cantidad))
    OBVIOUS
  <2>1. IsFiniteSet({r})
    BY FS_Singleton
  <2>2. r.cantidad \in Int /\ 1 \in Int
    BY DEF Rows
  <2>3. IsFiniteSet(1 .. r.cantidad)
    BY <2>2, FS_Interval
  <2> QED BY <2>1, <2>3, FS_Product
<1>4. Units(R) = UNION parts
  BY DEF Units
<1> HIDE DEF parts
<1> QED BY <1>2, <1>3, <1>4, FS_UNION

LEMMA QuantityNat ==
  ASSUME NEW R, Rows(R)
  PROVE  Quantity(R) \in Nat
  BY UnitsFinite, FS_CardinalityType DEF Quantity

LEMMA QuantitySingleton ==
  ASSUME NEW r, r.cantidad \in Nat
  PROVE  Rows({r}) /\ Quantity({r}) = r.cantidad
<1>1. IsFiniteSet({r}) /\ Cardinality({r}) = 1
  BY FS_Singleton
<1>2. IsFiniteSet(1 .. r.cantidad) /\ Cardinality(1 .. r.cantidad) = r.cantidad
  BY FS_Interval
<1>3. Units({r}) = {r} \X (1 .. r.cantidad)
  BY DEF Units
<1>4. Cardinality({r} \X (1 .. r.cantidad)) = Cardinality({r}) * Cardinality(1 .. r.cantidad)
  BY <1>1, <1>2, FS_Product, Zenon
<1>5. Quantity({r}) = Cardinality({r}) * Cardinality(1 .. r.cantidad)
  BY <1>3, <1>4, Zenon DEF Quantity
<1>6. Rows({r})
  BY <1>1 DEF Rows
<1> HIDE DEF Rows
<1> QED BY <1>1, <1>2, <1>5, <1>6

LEMMA QuantityEmpty == Quantity({}) = 0
<1>1. Units({}) = {}
  BY DEF Units
<1> QED BY <1>1, FS_EmptySet DEF Quantity

(* The sum over two disjoint sets of rows is the sum of the sums.          *)
LEMMA QuantityUnion ==
  ASSUME NEW R, NEW T, Rows(R), Rows(T), R \cap T = {}
  PROVE  Quantity(R \cup T) = Quantity(R) + Quantity(T)
<1>1. Units(R \cup T) = Units(R) \cup Units(T)
  BY DEF Units
<1>2. Units(R) \cap Units(T) = {}
  BY DEF Units
<1>3. IsFiniteSet(Units(R)) /\ IsFiniteSet(Units(T))
  BY UnitsFinite
<1>4. Cardinality(Units(R) \cup Units(T)) =
        Cardinality(Units(R)) + Cardinality(Units(T)) - Cardinality({})
  BY <1>2, <1>3, FS_Union
<1>5. Cardinality(Units(R)) \in Nat /\ Cardinality(Units(T)) \in Nat
  BY <1>3, FS_CardinalityType
<1>6. Cardinality({}) = 0
  BY FS_EmptySet
<1>7. Quantity(R \cup T) = Cardinality(Units(R) \cup Units(T))
  BY <1>1, Zenon DEF Quantity
<1> QED BY <1>4, <1>5, <1>6, <1>7 DEF Quantity

LEMMA QuantitySubset ==
  ASSUME NEW R, Rows(R), NEW T \in SUBSET R
  PROVE  Quantity(T) <= Quantity(R)
<1>1. Units(T) \in SUBSET Units(R)
  BY DEF Units
<1> QED BY <1>1, UnitsFinite, FS_Subset DEF Quantity

(* Overlapping or not, a union sums to no more than the two sums.          *)
LEMMA QuantityUnionBound ==
  ASSUME NEW R, NEW T, Rows(R), Rows(T)
  PROVE  Quantity(R \cup T) <= Quantity(R) + Quantity(T)
<1>1. Rows(T \ R) /\ T \ R \in SUBSET T
  BY RowsSubset
<1>2. Quantity(R \cup (T \ R)) = Quantity(R) + Quantity(T \ R)
  BY <1>1, QuantityUnion
<1>3. Quantity(T \ R) <= Quantity(T)
  BY <1>1, QuantitySubset
<1>4. Quantity(R) \in Nat /\ Quantity(T) \in Nat /\ Quantity(T \ R) \in Nat
  BY <1>1, QuantityNat
<1>5. R \cup (T \ R) = R \cup T
  OBVIOUS
<1>6. Quantity(R \cup T) = Quantity(R \cup (T \ R))
  BY <1>5, Zenon
<1> HIDE DEF Rows
<1> QED BY <1>2, <1>3, <1>4, <1>6

(* Splitting a set of rows along a part of it.                             *)
LEMMA QuantitySplit ==
  ASSUME NEW R, Rows(R), NEW T \in SUBSET R
  PROVE  /\ Quantity(R) = Quantity(T) + Quantity(R \ T)
         /\ Quantity(T) \in Nat /\ Quantity(R \ T) \in Nat
<1>1. Rows(T) /\ Rows(R \ T)
  <2>1. R \ T \in SUBSET R
    OBVIOUS
  <2> QED BY <2>1, RowsSubset
<1>2. R = T \cup (R \ T) /\ T \cap (R \ T) = {}
  OBVIOUS
<1> QED BY <1>1, <1>2, QuantityUnion, QuantityNat

-----------------------------------------------------------------------------
(* A bounded non-empty set of numbers has a greatest one.                  *)
LEMMA GreatestExists ==
  ASSUME NEW n \in Nat, NEW T \in SUBSET (0 .. n), T # {}
  PROVE  \E m \in T : \A k \in T : k <= m
<1> DEFINE less == { p \in Nat \X Nat : p[1] < p[2] }
           flipped == { n - k : k \in T }
<1>1. IsWellFoundedOn(less, Nat)
  BY NatLessThanWellFounded DEF OpToRel
<1>2. flipped \subseteq Nat /\ flipped # {}
  <2>1. \A k \in T : k \in Nat /\ n - k \in Nat
    OBVIOUS
  <2>2. PICK k \in T : TRUE
    OBVIOUS
  <2>3. n - k \in flipped
    BY <2>2
  <2>4. flipped \subseteq Nat
    BY <2>1
  <2> QED BY <2>3, <2>4
<1>3. PICK x \in flipped : \A y \in flipped : ~ (<<y, x>> \in less)
  <2> HIDE DEF less, flipped
  <2> QED BY <1>1, <1>2, WFMin
<1>4. PICK m \in T : x = n - m
  OBVIOUS
<1>5. ASSUME NEW k \in T PROVE k <= m
  <2>1. n - k \in flipped /\ n - k \in Nat /\ n - m \in Nat
    OBVIOUS
  <2>2. ~ (n - k < n - m)
    BY <1>3, <1>4, <2>1
  <2> QED BY <2>2
<1> QED BY <1>5

(* Appending the parts of a sequence, one after the other.                 *)
LEMMA FlattenLoop ==
  ASSUME NEW seqs, NEW m \in Nat
  PROVE  \E f : f = [i \in 1..m |-> IF i = 1 THEN seqs[i] ELSE f[i - 1] \o seqs[i]]
<1> DEFINE body(f, k) == [i \in 1..k |-> IF i = 1 THEN seqs[i] ELSE f[i - 1] \o seqs[i]]
           B == {k \in Nat : \E f : f = body(f, k)}
<1>1. 0 \in B
  <2> DEFINE f == [i \in 1..0 |-> seqs[i]]
  <2>1. f = body(f, 0)
    OBVIOUS
  <2> QED BY <2>1
<1>2. ASSUME NEW k \in Nat, k \in B PROVE k + 1 \in B
  <2>1. PICK f : f = body(f, k)
    BY <1>2
  <2> DEFINE next == IF k = 0 THEN seqs[k + 1] ELSE f[k] \o seqs[k + 1]
             g == [i \in 1..(k + 1) |-> IF i = k + 1 THEN next ELSE f[i]]
  <2>2. ASSUME NEW i \in 1..(k + 1)
        PROVE  g[i] = IF i = 1 THEN seqs[i] ELSE g[i - 1] \o seqs[i]
    <3>1. CASE i = k + 1
      <4>1. g[i] = next
        BY <3>1
      <4>2. k # 0 => g[k] = f[k]
        OBVIOUS
      <4>3. i - 1 = k /\ (i = 1 <=> k = 0)
        BY <3>1
      <4> HIDE DEF g
      <4> QED BY <3>1, <4>1, <4>2, <4>3
    <3>2. CASE i # k + 1
      <4>1. i \in 1..k
        BY <3>2
      <4>2. f[i] = IF i = 1 THEN seqs[i] ELSE f[i - 1] \o seqs[i]
        BY <2>1, <4>1
      <4>3. g[i] = f[i] /\ (i # 1 => g[i - 1] = f[i - 1])
        BY <3>2, <4>1
      <4> HIDE DEF g
      <4> QED BY <4>2, <4>3
    <3> QED BY <3>1, <3>2
  <2>3. g = [i \in 1..(k + 1) |-> g[i]]
    OBVIOUS
  <2>4. g = body(g, k + 1)
    <3> HIDE DEF g
    <3> QED BY <2>2, <2>3
  <2> HIDE DEF g, body
  <2> QED BY <2>4
<1> HIDE DEF B
<1>3. m \in B
  BY <1>1, <1>2, NatInductiveSet
<1> QED BY <1>3 DEF B

(* The pages of a document are one sequence of lines.                      *)
LEMMA FlattenType ==
  ASSUME NEW S, NEW seqs \in Seq(Seq(S)), seqs # <<>>
  PROVE  FlattenSeq(seqs) \in Seq(S)
<1> DEFINE N == Len(seqs)
           flatten == CHOOSE f : f = [i \in 1..N |-> IF i = 1 THEN seqs[i] ELSE f[i - 1] \o seqs[i]]
<1>1. N \in Nat /\ N # 0
  BY LenProperties, EmptySeq
<1>2. FlattenSeq(seqs) = flatten[N]
  BY <1>1 DEF FlattenSeq
<1>3. flatten = [i \in 1..N |-> IF i = 1 THEN seqs[i] ELSE flatten[i - 1] \o seqs[i]]
  BY <1>1, FlattenLoop
<1>4. \A i \in 1..N : seqs[i] \in Seq(S)
  BY ElementOfSeq
<1> HIDE DEF flatten, N
<1> DEFINE B == {n \in Nat : n + 1 <= N => flatten[n + 1] \in Seq(S)}
<1>5. 0 \in B
  <2>1. 1 \in 1..N
    BY <1>1
  <2>2. flatten[1] \in Seq(S)
    BY <1>3, <1>4, <2>1
  <2> QED BY <2>2
<1>6. ASSUME NEW n \in Nat, n \in B PROVE n + 1 \in B
  <2> SUFFICES ASSUME (n + 1) + 1 <= N PROVE flatten[(n + 1) + 1] \in Seq(S)
    OBVIOUS
  <2> DEFINE i == (n + 1) + 1
  <2>1. i \in 1..N /\ i # 1 /\ i - 1 = n + 1
    BY <1>1
  <2>2. flatten[n + 1] \in Seq(S) /\ seqs[i] \in Seq(S)
    BY <1>1, <1>4, <1>6, <2>1
  <2>3. flatten[i] = flatten[n + 1] \o seqs[i]
    BY <1>3, <2>1
  <2> HIDE DEF i
  <2>4. flatten[i] \in Seq(S)
    BY <2>2, <2>3, ConcatProperties
  <2> QED BY <2>4 DEF i
<1>7. N - 1 \in B
  <2> HIDE DEF B
  <2>1. N - 1 \in Nat
    BY <1>1
  <2> QED BY <1>5, <1>6, <2>1, NatInductiveSet
<1>8. (N - 1) + 1 = N
  BY <1>1
<1> QED BY <1>1, <1>2, <1>7, <1>8

=============================================================================
