------------------------ MODULE OrderLifecycle_proofs ------------------------
(***************************************************************************)
(* The stock ledger keeps its promises, and the order machine implements   *)
(* it, for every set of orders, SKUs, suppliers and catalog lines and      *)
(* every value of the bounds; the promises hold of it in consequence.      *)
(*                                                                         *)
(* Each transaction maps to a step of the ledger or to a stutter.  That a  *)
(* full-stock confirmation settles its order to the unit needs one fact    *)
(* the ledger does not know: a draft holds no CONVERTED row, so that what  *)
(* is newly converted is all that is deducted for it.  With the types of   *)
(* the order lines this makes the invariant inductive.                     *)
(***************************************************************************)
EXTENDS OrderLifecycle, RowSums_proofs

-----------------------------------------------------------------------------
(* The ledger: StockLedger keeps its promises for every set of orders and  *)
(* SKUs.  No unit is lost or counted twice, and soft-locks exceed the      *)
(* shelf only by what the owner wrote off.  The invariant is inductive as  *)
(* it stands.                                                              *)
LedgerInv == LedgerTypeOK /\ StockConserved /\ OversoldOnlyByWriteOff

-----------------------------------------------------------------------------
(* The sums taken over reservation rows are natural numbers.               *)
LEMMA ReservationRows ==
  ASSUME NEW R, R \subseteq Reservation, IsFiniteSet(R), NEW T \in SUBSET R
  PROVE  Rows(T) /\ Quantity(T) \in Nat
<1>1. Rows(R)
  BY DEF Rows, Reservation
<1> QED BY <1>1, RowsSubset, QuantityNat

LEMMA LedgerSums ==
  ASSUME LedgerTypeOK, NEW s \in Skus
  PROVE  /\ Rows(LiveLocks(s)) /\ Quantity(LiveLocks(s)) \in Nat
         /\ Rows(OfSku(converted, s)) /\ Quantity(OfSku(converted, s)) \in Nat
         /\ \A o : Deducted(o, s) \in Nat
         /\ onHand[s] \in Int /\ Available(s) \in Int
         /\ supplied[s] \in Int /\ shrunk[s] \in Nat
<1>1. LiveLocks(s) \in SUBSET active
  BY DEF LiveLocks
<1>2. OfSku(converted, s) \in SUBSET converted
  BY DEF OfSku
<1>3. \A o : OfSku(OfOrder(converted, o), s) \in SUBSET converted
  BY DEF OfSku, OfOrder
<1>4. Rows(LiveLocks(s)) /\ Quantity(LiveLocks(s)) \in Nat
  BY <1>1, ReservationRows DEF LedgerTypeOK
<1>5. Rows(OfSku(converted, s)) /\ Quantity(OfSku(converted, s)) \in Nat
  BY <1>2, ReservationRows DEF LedgerTypeOK
<1>6. \A o : Deducted(o, s) \in Nat
  <2> TAKE o
  <2> QED BY <1>3, ReservationRows DEF LedgerTypeOK, Deducted
<1>7. onHand[s] \in Int /\ supplied[s] \in Int /\ shrunk[s] \in Nat
  BY DEF LedgerTypeOK
<1>8. Available(s) \in Int
  BY <1>4, <1>7 DEF Available
<1> QED BY <1>4, <1>5, <1>6, <1>7, <1>8

(* The same in the next state.                                             *)
Sums ==
  \A s \in Skus : onHand[s] \in Int /\ Available(s) \in Int /\ Quantity(LiveLocks(s)) \in Nat

LEMMA LedgerSumsNext == LedgerTypeOK' => Sums'
<1>1. LedgerTypeOK => Sums
  BY LedgerSums DEF Sums
<1> QED BY <1>1, PTL

(* What is deducted of a SKU is what is deducted for one order and the     *)
(* rest.                                                                   *)
LEMMA DeductedOfOne ==
  ASSUME NEW R, R \subseteq Reservation, IsFiniteSet(R), NEW o, NEW s
  PROVE  LET own == OfSku(OfOrder(R, o), s)
             rest == { r \in OfSku(R, s) : r.order # o }
         IN  /\ Quantity(OfSku(R, s)) = Quantity(own) + Quantity(rest)
             /\ Quantity(own) \in Nat /\ Quantity(rest) \in Nat
<1> DEFINE own == OfSku(OfOrder(R, o), s)
           rest == { r \in OfSku(R, s) : r.order # o }
<1>1. OfSku(R, s) \in SUBSET R
  BY DEF OfSku
<1>2. Rows(OfSku(R, s))
  BY <1>1, ReservationRows
<1>3. own \in SUBSET OfSku(R, s) /\ OfSku(R, s) \ own = rest
  BY DEF OfSku, OfOrder
<1> HIDE DEF own, rest
<1>4. /\ Quantity(OfSku(R, s)) = Quantity(own) + Quantity(rest)
      /\ Quantity(own) \in Nat /\ Quantity(rest) \in Nat
  BY <1>2, <1>3, QuantitySplit
<1> QED BY <1>4 DEF own, rest

-----------------------------------------------------------------------------

LEMMA LedgerInitInv == LedgerInit => LedgerInv
<1> SUFFICES ASSUME LedgerInit PROVE LedgerInv
  OBVIOUS
<1>1. LedgerTypeOK
  BY FS_EmptySet DEF LedgerInit, LedgerTypeOK
<1>2. StockConserved
  <2> SUFFICES ASSUME NEW s \in Skus
               PROVE  onHand[s] + Quantity(OfSku(converted, s)) = supplied[s]
    BY DEF StockConserved
  <2>1. OfSku(converted, s) = {}
    BY DEF LedgerInit, OfSku
  <2>2. onHand[s] \in Int /\ supplied[s] = onHand[s]
    BY DEF LedgerInit
  <2>3. Quantity(OfSku(converted, s)) = 0
    BY <2>1, QuantityEmpty
  <2> QED BY <2>2, <2>3
<1>3. OversoldOnlyByWriteOff
  <2> SUFFICES ASSUME NEW s \in Skus PROVE Available(s) + shrunk[s] >= 0
    BY DEF OversoldOnlyByWriteOff
  <2>1. LiveLocks(s) = {}
    BY DEF LedgerInit, LiveLocks
  <2>2. onHand[s] \in Nat /\ shrunk[s] = 0
    BY DEF LedgerInit
  <2>3. Quantity(LiveLocks(s)) = 0
    BY <2>1, QuantityEmpty
  <2> QED BY <2>2, <2>3 DEF Available
<1> QED BY <1>1, <1>2, <1>3 DEF LedgerInv

(* An operation on an order moves as many units between the shelf and the  *)
(* order's deducted rows as it adds or takes rows.                         *)
LEMMA SettleInv ==
  ASSUME LedgerInv, NEW o \in Orders, Settle(o)
  PROVE  LedgerInv'
<1>1. LedgerTypeOK'
  <2>1. \A s \in Skus : onHand'[s] = onHand[s] + Deducted(o, s) - Deducted(o, s)'
    BY DEF Settle
  <2>2. \A s \in Skus : Deducted(o, s)' \in Nat
    <3> TAKE s \in Skus
    <3>1. OfSku(OfOrder(converted', o), s) \in SUBSET converted'
      BY DEF OfSku, OfOrder
    <3>2. Quantity(OfSku(OfOrder(converted', o), s)) \in Nat
      BY <3>1, ReservationRows DEF Settle
    <3> QED BY <3>2 DEF Deducted
  <2>3. \A s \in Skus : onHand[s] \in Int /\ Deducted(o, s) \in Nat
    BY LedgerSums DEF LedgerInv
  <2>4. onHand' \in [Skus -> Int]
    BY <2>2, <2>3 DEF Settle
  <2> QED BY <2>4 DEF LedgerInv, LedgerTypeOK, Settle
<1>2. StockConserved'
  <2> SUFFICES ASSUME NEW s \in Skus
               PROVE  onHand'[s] + Quantity(OfSku(converted', s)) = supplied'[s]
    BY DEF StockConserved
  <2> DEFINE rest(R) == { r \in OfSku(R, s) : r.order # o }
  <2>1. rest(converted') = rest(converted)
    BY DEF Settle, OfSku
  <2>2. /\ Quantity(OfSku(converted, s)) = Deducted(o, s) + Quantity(rest(converted))
        /\ Deducted(o, s) \in Nat /\ Quantity(rest(converted)) \in Nat
    BY DeductedOfOne DEF LedgerInv, LedgerTypeOK, Deducted
  <2>3. /\ Quantity(OfSku(converted', s)) = Deducted(o, s)' + Quantity(rest(converted'))
        /\ Deducted(o, s)' \in Nat
    <3>1. converted' \subseteq Reservation /\ IsFiniteSet(converted')
      BY DEF Settle
    <3>2. Deducted(o, s)' = Quantity(OfSku(OfOrder(converted', o), s))
      BY DEF Deducted
    <3> QED BY <3>1, <3>2, DeductedOfOne
  <2>4. onHand'[s] = onHand[s] + Deducted(o, s) - Deducted(o, s)'
    BY DEF Settle
  <2>5. supplied'[s] = onHand[s] + Quantity(OfSku(converted, s)) /\ onHand[s] \in Int
    BY DEF Settle, LedgerInv, LedgerTypeOK, StockConserved
  <2> HIDE DEF rest
  <2> QED BY <2>1, <2>2, <2>3, <2>4, <2>5
<1>3. OversoldOnlyByWriteOff'
  <2> SUFFICES ASSUME NEW s \in Skus PROVE Available(s)' + shrunk'[s] >= 0
    BY DEF OversoldOnlyByWriteOff
  <2>1. Available(s)' \in Int
    BY <1>1, LedgerSumsNext DEF Sums
  <2>2. Available(s) \in Int /\ shrunk[s] \in Nat /\ shrunk' = shrunk
    BY LedgerSums DEF LedgerInv, Settle
  <2>3. Available(s) + shrunk[s] >= 0
    BY DEF LedgerInv, OversoldOnlyByWriteOff
  <2>4. Available(s)' >= 0 \/ Available(s)' >= Available(s)
    BY DEF Settle
  <2> QED BY <2>1, <2>2, <2>3, <2>4
<1> QED BY <1>1, <1>2, <1>3 DEF LedgerInv

(* Fewer live locks on the same shelf: nothing else can go wrong when a    *)
(* quote lapses or its locks are expired.                                  *)
LEMMA FewerLocksInv ==
  ASSUME LedgerInv, UNCHANGED << onHand, converted, supplied, shrunk >>,
         LedgerTypeOK', \A s \in Skus : LiveLocks(s)' \subseteq LiveLocks(s)
  PROVE  LedgerInv'
<1>1. StockConserved'
  BY DEF LedgerInv, StockConserved
<1>2. OversoldOnlyByWriteOff'
  <2> SUFFICES ASSUME NEW s \in Skus PROVE Available(s)' + shrunk'[s] >= 0
    BY DEF OversoldOnlyByWriteOff
  <2>1. Rows(LiveLocks(s)) /\ onHand[s] \in Int /\ shrunk[s] \in Nat
    BY LedgerSums DEF LedgerInv
  <2>2. Quantity(LiveLocks(s)') <= Quantity(LiveLocks(s))
    BY <2>1, QuantitySubset
  <2>3. Quantity(LiveLocks(s)) \in Nat /\ Quantity(LiveLocks(s)') \in Nat
    BY LedgerSums, LedgerSumsNext DEF LedgerInv, Sums
  <2>4. onHand[s] - Quantity(LiveLocks(s)) + shrunk[s] >= 0
    BY DEF LedgerInv, OversoldOnlyByWriteOff, Available
  <2>5. Available(s)' = onHand[s] - Quantity(LiveLocks(s)')
    BY DEF Available
  <2> QED BY <2>1, <2>2, <2>3, <2>4, <2>5
<1> QED BY <1>1, <1>2 DEF LedgerInv

LEMMA LapseInv ==
  ASSUME LedgerInv, NEW o \in Orders, Lapse(o)
  PROVE  LedgerInv'
<1>1. LedgerTypeOK'
  BY DEF LedgerInv, LedgerTypeOK, Lapse
<1>2. \A s \in Skus : LiveLocks(s)' \subseteq LiveLocks(s)
  BY DEF Lapse, LiveLocks
<1> QED BY <1>1, <1>2, FewerLocksInv DEF Lapse

LEMMA ExpireInv ==
  ASSUME LedgerInv, Expire
  PROVE  LedgerInv'
<1>1. LedgerTypeOK'
  <2>1. active' \in SUBSET active
    BY DEF Expire
  <2>2. IsFiniteSet(active')
    BY <2>1, FS_Subset DEF LedgerInv, LedgerTypeOK
  <2> QED BY <2>1, <2>2 DEF LedgerInv, LedgerTypeOK, Expire
<1>2. \A s \in Skus : LiveLocks(s)' \subseteq LiveLocks(s)
  BY DEF Expire, LiveLocks
<1> QED BY <1>1, <1>2, FewerLocksInv DEF Expire

(* Goods that arrive and goods that are written off change one SKU's shelf,*)
(* with supplied and shrunk keeping the account.                           *)
LEMMA CountInv ==
  ASSUME LedgerInv, NEW s \in Skus, Restock(s) \/ WriteOff(s)
  PROVE  LedgerInv'
<1>1. UNCHANGED << active, converted, lapsed >>
  BY DEF Restock, WriteOff
<1>2. PICK up \in Int, off \in Nat :
        /\ up + off >= 0
        /\ \A t \in Skus : /\ onHand'[t] = onHand[t] + (IF t = s THEN up ELSE 0)
                           /\ supplied'[t] = supplied[t] + (IF t = s THEN up ELSE 0)
                           /\ shrunk'[t] = shrunk[t] + (IF t = s THEN off ELSE 0)
  <2>1. \A t \in Skus : onHand[t] \in Int /\ supplied[t] \in Int /\ shrunk[t] \in Nat
    BY DEF LedgerInv, LedgerTypeOK
  <2>2. CASE Restock(s)
    <3> DEFINE n == onHand'[s] - onHand[s]
    <3>1. /\ n \in Nat /\ n + 0 >= 0
          /\ onHand' = [onHand EXCEPT ![s] = @ + n]
          /\ supplied' = [supplied EXCEPT ![s] = @ + n]
          /\ shrunk' = shrunk
      BY <2>2 DEF Restock
    <3> HIDE DEF n
    <3>2. /\ n \in Int /\ 0 \in Nat
          /\ \A t \in Skus : /\ onHand'[t] = onHand[t] + (IF t = s THEN n ELSE 0)
                             /\ supplied'[t] = supplied[t] + (IF t = s THEN n ELSE 0)
                             /\ shrunk'[t] = shrunk[t] + (IF t = s THEN 0 ELSE 0)
      BY <2>1, <3>1 DEF LedgerInv, LedgerTypeOK
    <3> QED BY <3>1, <3>2
  <2>3. CASE WriteOff(s)
    <3> DEFINE n == onHand[s] - onHand'[s]
    <3>1. /\ n \in Nat
          /\ onHand' = [onHand EXCEPT ![s] = @ - n]
          /\ supplied' = [supplied EXCEPT ![s] = @ - n]
          /\ shrunk' = [shrunk EXCEPT ![s] = @ + n]
      BY <2>3 DEF WriteOff
    <3> HIDE DEF n
    <3>2. /\ -n \in Int /\ -n + n >= 0
          /\ \A t \in Skus : /\ onHand'[t] = onHand[t] + (IF t = s THEN -n ELSE 0)
                             /\ supplied'[t] = supplied[t] + (IF t = s THEN -n ELSE 0)
                             /\ shrunk'[t] = shrunk[t] + (IF t = s THEN n ELSE 0)
      BY <2>1, <3>1 DEF LedgerInv, LedgerTypeOK
    <3> QED BY <3>1, <3>2
  <2> QED BY <2>2, <2>3
<1>3. LedgerTypeOK'
  <2>1. /\ onHand \in [Skus -> Int] /\ supplied \in [Skus -> Int] /\ shrunk \in [Skus -> Nat]
    BY DEF LedgerInv, LedgerTypeOK
  <2>2. CASE Restock(s)
    BY <2>1, <2>2 DEF Restock, LedgerInv, LedgerTypeOK
  <2>3. CASE WriteOff(s)
    BY <2>1, <2>3 DEF WriteOff, LedgerInv, LedgerTypeOK
  <2> QED BY <2>2, <2>3
<1>4. StockConserved'
  <2> SUFFICES ASSUME NEW t \in Skus
               PROVE  onHand'[t] + Quantity(OfSku(converted', t)) = supplied'[t]
    BY DEF StockConserved
  <2>1. onHand[t] + Quantity(OfSku(converted, t)) = supplied[t]
    BY DEF LedgerInv, StockConserved
  <2>2. onHand[t] \in Int /\ Quantity(OfSku(converted, t)) \in Nat
    BY LedgerSums DEF LedgerInv
  <2>3. /\ onHand'[t] = onHand[t] + (IF t = s THEN up ELSE 0)
        /\ supplied'[t] = supplied[t] + (IF t = s THEN up ELSE 0)
    BY <1>2
  <2>4. Quantity(OfSku(converted', t)) = Quantity(OfSku(converted, t))
    BY <1>1
  <2> QED BY <2>1, <2>2, <2>3, <2>4
<1>5. OversoldOnlyByWriteOff'
  <2> SUFFICES ASSUME NEW t \in Skus PROVE Available(t)' + shrunk'[t] >= 0
    BY DEF OversoldOnlyByWriteOff
  <2>1. Available(t)' = onHand'[t] - Quantity(LiveLocks(t))
    BY <1>1 DEF Available, LiveLocks
  <2>2. onHand[t] - Quantity(LiveLocks(t)) + shrunk[t] >= 0
    BY DEF LedgerInv, OversoldOnlyByWriteOff, Available
  <2>3. onHand[t] \in Int /\ Quantity(LiveLocks(t)) \in Nat /\ shrunk[t] \in Nat
    BY LedgerSums DEF LedgerInv
  <2>4. /\ up + off >= 0
        /\ onHand'[t] = onHand[t] + (IF t = s THEN up ELSE 0)
        /\ shrunk'[t] = shrunk[t] + (IF t = s THEN off ELSE 0)
    BY <1>2
  <2> QED BY <2>1, <2>2, <2>3, <2>4
<1> QED BY <1>3, <1>4, <1>5 DEF LedgerInv

LEMMA LedgerNextInv == LedgerInv /\ [LedgerNext]_ledgerVars => LedgerInv'
<1> SUFFICES ASSUME LedgerInv, [LedgerNext]_ledgerVars PROVE LedgerInv'
  OBVIOUS
<1>1. ASSUME NEW o \in Orders, Settle(o) PROVE LedgerInv'
  BY <1>1, SettleInv
<1>2. ASSUME NEW o \in Orders, Lapse(o) PROVE LedgerInv'
  BY <1>2, LapseInv
<1>3. CASE Expire
  BY <1>3, ExpireInv
<1>4. ASSUME NEW s \in Skus, Restock(s) \/ WriteOff(s) PROVE LedgerInv'
  BY <1>4, CountInv
<1>5. CASE UNCHANGED ledgerVars
  BY <1>5 DEF ledgerVars, LedgerInv, LedgerTypeOK, StockConserved, OversoldOnlyByWriteOff,
              Available, LiveLocks
<1> QED BY <1>1, <1>2, <1>3, <1>4, <1>5 DEF LedgerNext

-----------------------------------------------------------------------------

(* The ledger is well-typed, loses no unit and oversells only what was     *)
(* written off, for every set of orders and SKUs and every opening stock.  *)
THEOREM LedgerSafe == LedgerSpec => []LedgerInv
  BY LedgerInitInv, LedgerNextInv, PTL DEF LedgerSpec

(* Every unit that entered is on the shelf or deducted for an order.       *)
THEOREM LedgerConserves == LedgerSpec => []StockConserved
<1>1. LedgerInv => StockConserved
  BY DEF LedgerInv
<1> QED BY <1>1, LedgerSafe, PTL

(* The orders never lock or deduct the same unit twice.                    *)
THEOREM LedgerNeverOversells == LedgerSpec => []OversoldOnlyByWriteOff
<1>1. LedgerInv => OversoldOnlyByWriteOff
  BY DEF LedgerInv
<1> QED BY <1>1, LedgerSafe, PTL

-----------------------------------------------------------------------------
(* The order machine.                                                      *)
ItemsOK == items \subseteq Item /\ IsFiniteSet(items)

EstadoOK == estado \in [Orders -> OrderEstado]

OrderInv == LedgerInv /\ ItemsOK /\ EstadoOK /\ DraftHoldsNoDeduction

-----------------------------------------------------------------------------
(* Sets built from finitely many things are finite.                        *)
LEMMA ImageFinite ==
  ASSUME NEW f, NEW S, f = [x \in S |-> f[x]], IsFiniteSet(S)
  PROVE  IsFiniteSet({ f[x] : x \in S })
<1> DEFINE image == { f[x] : x \in S }
<1>1. f \in Surjection(S, image)
  <2>1. f \in [S -> image]
    OBVIOUS
  <2>2. \A y \in image : \E x \in S : f[x] = y
    OBVIOUS
  <2> QED BY <2>1, <2>2 DEF Surjection
<1> HIDE DEF image
<1>2. IsFiniteSet(image)
  BY <1>1, FS_Surjection
<1> QED BY <1>2 DEF image

(* What the LOCAL lines of an order want of a SKU is a quantity.           *)
LEMMA WantedNat ==
  ASSUME ItemsOK, NEW o, NEW s
  PROVE  Wanted(o, s) \in Nat
<1>1. OfSku(LocalItems(o), s) \in SUBSET items
  BY DEF OfSku, LocalItems, OfOrder
<1>2. Rows(items)
  BY DEF ItemsOK, Rows, Item
<1>3. Rows(OfSku(LocalItems(o), s))
  BY <1>1, <1>2, RowsSubset
<1> QED BY <1>3, QuantityNat DEF Wanted

-----------------------------------------------------------------------------
(* Three ways of settling an order.                                        *)

(* A transaction that only takes away locks of the order.                  *)
LEMMA ReleasingSettles ==
  ASSUME OrderInv, NEW o \in Orders,
         active' \subseteq active, \A r \in active \ active' : r.order = o,
         UNCHANGED << onHand, converted, lapsed, supplied, shrunk >>
  PROVE  Settle(o)
<1>1. IsFiniteSet(active') /\ active' \subseteq Reservation
  BY FS_Subset DEF OrderInv, LedgerInv, LedgerTypeOK
<1>2. onHand' = [s \in Skus |-> onHand[s] + Deducted(o, s) - Deducted(o, s)']
  <2>1. \A s \in Skus : onHand[s] + Deducted(o, s) - Deducted(o, s)' = onHand[s]
    <3> TAKE s \in Skus
    <3>1. Deducted(o, s)' = Deducted(o, s)
      BY DEF Deducted
    <3>2. Deducted(o, s) \in Nat /\ onHand[s] \in Int
      BY LedgerSums DEF OrderInv, LedgerInv
    <3> QED BY <3>1, <3>2
  <2>2. onHand = [s \in Skus |-> onHand[s]]
    BY DEF OrderInv, LedgerInv, LedgerTypeOK
  <2> QED BY <2>1, <2>2
<1>3. \A s \in Skus : Available(s)' >= Available(s)
  <2> TAKE s \in Skus
  <2>1. LiveLocks(s)' \in SUBSET LiveLocks(s)
    BY DEF LiveLocks
  <2>2. Rows(LiveLocks(s)) /\ Quantity(LiveLocks(s)) \in Nat /\ onHand[s] \in Int
    BY LedgerSums DEF OrderInv, LedgerInv
  <2>3. Quantity(LiveLocks(s)') <= Quantity(LiveLocks(s)) /\ Quantity(LiveLocks(s)') \in Nat
    BY <2>1, <2>2, QuantitySubset, RowsSubset, QuantityNat
  <2>4. Available(s)' = onHand[s] - Quantity(LiveLocks(s)')
    BY DEF Available
  <2>5. Available(s) = onHand[s] - Quantity(LiveLocks(s))
    BY DEF Available
  <2> QED BY <2>2, <2>3, <2>4, <2>5
<1> QED BY <1>1, <1>2, <1>3 DEF Settle, OrderInv, LedgerInv, LedgerTypeOK

(* A transaction that gives back all that was deducted for the order and   *)
(* may take away locks of it.                                              *)
LEMMA RestoringSettles ==
  ASSUME OrderInv, NEW o \in Orders, RestoreConvertedStock(o),
         active' \subseteq active, \A r \in active \ active' : r.order = o,
         UNCHANGED << lapsed, supplied, shrunk >>
  PROVE  Settle(o)
<1>1. IsFiniteSet(active') /\ active' \subseteq Reservation
  BY FS_Subset DEF OrderInv, LedgerInv, LedgerTypeOK
<1>2. converted' \in SUBSET converted
  BY DEF RestoreConvertedStock
<1>3. IsFiniteSet(converted') /\ converted' \subseteq Reservation
  BY <1>2, FS_Subset DEF OrderInv, LedgerInv, LedgerTypeOK
<1>4. \A r \in converted \cup converted' : r.order # o => (r \in converted <=> r \in converted')
  BY DEF RestoreConvertedStock, OfOrder
<1>5. \A s \in Skus : Deducted(o, s)' = 0
  <2> TAKE s \in Skus
  <2>1. OfSku(OfOrder(converted', o), s) = {}
    BY DEF RestoreConvertedStock, OfOrder, OfSku
  <2>2. Deducted(o, s)' = Quantity(OfSku(OfOrder(converted', o), s))
    BY DEF Deducted
  <2> QED BY <2>1, <2>2, QuantityEmpty
<1>6. \A s \in Skus : onHand[s] \in Int /\ Deducted(o, s) \in Nat
  BY LedgerSums DEF OrderInv, LedgerInv
<1>7. onHand' = [s \in Skus |-> onHand[s] + Deducted(o, s) - Deducted(o, s)']
  BY <1>5, <1>6 DEF RestoreConvertedStock
<1>8. \A s \in Skus : Available(s)' >= Available(s)
  <2> TAKE s \in Skus
  <2>1. LiveLocks(s)' \in SUBSET LiveLocks(s)
    BY DEF LiveLocks
  <2>2. Rows(LiveLocks(s)) /\ Quantity(LiveLocks(s)) \in Nat
    BY LedgerSums DEF OrderInv, LedgerInv
  <2>3. Quantity(LiveLocks(s)') <= Quantity(LiveLocks(s)) /\ Quantity(LiveLocks(s)') \in Nat
    BY <2>1, <2>2, QuantitySubset, RowsSubset, QuantityNat
  <2>4. onHand'[s] = onHand[s] + Deducted(o, s)
    BY DEF RestoreConvertedStock
  <2>5. Available(s)' = onHand'[s] - Quantity(LiveLocks(s)')
    BY DEF Available
  <2>6. Available(s) = onHand[s] - Quantity(LiveLocks(s))
    BY DEF Available
  <2> QED BY <1>6, <2>2, <2>3, <2>4, <2>5, <2>6
<1> QED BY <1>1, <1>3, <1>4, <1>7, <1>8 DEF Settle

-----------------------------------------------------------------------------
(* The quote.                                                              *)

(* A chat draft's lines are finitely many lines of the order, told apart by*)
(* their numbers.                                                          *)
LEMMA ChatLinesShape ==
  ASSUME NEW o \in Orders, NEW lines \in ChatLines(o)
  PROVE  /\ lines \subseteq Item /\ IsFiniteSet(lines)
         /\ \A i \in lines : i.order = o /\ i.line \in 0 .. MaxLines
         /\ \A i, j \in lines : i.line = j.line => i = j
<1>0. PICK len \in 1 .. MaxLines :
        lines \in { { NewItem(o, n, f[n][1], f[n][2]) : n \in 1 .. len } :
                     f \in [1 .. len -> Kinds \X (1 .. MaxQuantity)] }
  BY DEF ChatLines
<1>1. PICK f \in [1 .. len -> Kinds \X (1 .. MaxQuantity)] :
        lines = { NewItem(o, n, f[n][1], f[n][2]) : n \in 1 .. len }
  BY <1>0
<1> DEFINE g == [n \in 1 .. len |-> NewItem(o, n, f[n][1], f[n][2])]
<1>2. lines = { g[n] : n \in 1 .. len }
  BY <1>1
<1>3. IsFiniteSet(1 .. len)
  BY FS_Interval, BoundsAssumption
<1>4. IsFiniteSet({ g[n] : n \in 1 .. len })
  BY <1>3, ImageFinite
<1>5. \A n \in 1 .. len : g[n] \in Item /\ g[n].order = o /\ g[n].line = n
  <2> TAKE n \in 1 .. len
  <2>1. f[n][1] \in Kinds /\ f[n][2] \in 1 .. MaxQuantity
    OBVIOUS
  <2>2. f[n][2] \in Nat /\ n \in Nat
    BY <2>1, BoundsAssumption
  <2> QED BY <2>1, <2>2, KindsAssumption DEF NewItem, Item
<1>6. \A n \in 1 .. len : n \in 0 .. MaxLines
  BY BoundsAssumption
<1> HIDE DEF g
<1> QED BY <1>2, <1>4, <1>5, <1>6

(* No SKU is locked by the quote beyond what is available: the last lock of*)
(* the SKU was granted against what all the earlier ones left.             *)
LEMMA QuoteFits ==
  ASSUME OrderInv, NEW o \in Orders, NEW lines \in ChatLines(o), NEW locks,
         QuoteLocks(lines, locks), NEW s \in Skus, OfSku(locks, s) # {}
  PROVE  Quantity(OfSku(locks, s)) <= Available(s)
<1> DEFINE own == OfSku(locks, s)
           numbers == { n \in 0 .. MaxLines : \E r \in own : r.line = n }
<1>1. \A r \in own : \E i \in lines : r = LockOf(i) /\ i.source = "LOCAL" /\ i.sku = s
  BY DEF QuoteLocks, OfSku, LockOf
<1>2. \A i \in lines : i \in Item /\ i.line \in 0 .. MaxLines
  BY ChatLinesShape
<1>3. numbers # {} /\ numbers \in SUBSET (0 .. MaxLines)
  BY <1>1, <1>2 DEF LockOf
<1>4. PICK m \in numbers : \A k \in numbers : k <= m
  BY <1>3, GreatestExists, BoundsAssumption
<1>5. PICK r \in own : r.line = m
  OBVIOUS
<1>6. PICK i \in lines : r = LockOf(i) /\ i.source = "LOCAL" /\ i.sku = s
  BY <1>1
<1> DEFINE earlier == { q \in own : q.line < i.line }
<1>7. own \in SUBSET (earlier \cup {r})
  <2> SUFFICES ASSUME NEW q \in own, q # r PROVE q.line < i.line
    OBVIOUS
  <2>1. PICK j \in lines : q = LockOf(j)
    BY <1>1
  <2>2. q.line = j.line /\ r.line = i.line
    BY <2>1, <1>6 DEF LockOf
  <2>3. j.line # i.line
    BY <2>1, <1>6, ChatLinesShape
  <2>4. j.line \in 0 .. MaxLines /\ i.line \in 0 .. MaxLines
    BY <1>2
  <2>5. j.line <= i.line
    BY <2>2, <2>4, <1>4, <1>5
  <2> QED BY <2>2, <2>3, <2>4, <2>5, BoundsAssumption
<1>8. r \in locks /\ r.cantidad = i.cantidad /\ i.cantidad \in Nat
  BY <1>2, <1>6 DEF LockOf, OfSku, Item
<1>9. Available(s) - Quantity(earlier) >= i.cantidad
  BY <1>6, <1>8 DEF QuoteLocks
<1>10. Rows(own)
  <2>1. IsFiniteSet({ LockOf(j) : j \in lines })
    <3> DEFINE f == [j \in lines |-> LockOf(j)]
    <3>1. { LockOf(j) : j \in lines } = { f[j] : j \in lines }
      OBVIOUS
    <3>2. IsFiniteSet(lines)
      BY ChatLinesShape
    <3>3. IsFiniteSet({ f[j] : j \in lines })
      BY <3>2, ImageFinite
    <3> QED BY <3>1, <3>3
  <2>2. own \in SUBSET { LockOf(j) : j \in lines }
    BY <1>1
  <2>3. IsFiniteSet(own)
    BY <2>1, <2>2, FS_Subset
  <2>4. \A q \in own : q.cantidad \in Nat
    BY <1>1, <1>2 DEF LockOf, Item
  <2> QED BY <2>3, <2>4 DEF Rows
<1>11. Rows(earlier) /\ Rows({r}) /\ Rows(earlier \cup {r})
  BY <1>10, RowsSubset, RowsUnion, QuantitySingleton, <1>8
<1>12. /\ Quantity(own) <= Quantity(earlier \cup {r})
       /\ Quantity(earlier \cup {r}) <= Quantity(earlier) + Quantity({r})
       /\ Quantity({r}) = r.cantidad
  BY <1>7, <1>8, <1>11, QuantitySubset, QuantityUnionBound, QuantitySingleton
<1>13. /\ Quantity(own) \in Nat /\ Quantity(earlier) \in Nat
       /\ Quantity(earlier \cup {r}) \in Nat /\ Available(s) \in Int
  BY <1>10, <1>11, QuantityNat, LedgerSums DEF OrderInv, LedgerInv
<1> HIDE DEF own, earlier
<1>14. Quantity(own) <= Available(s)
  BY <1>8, <1>9, <1>12, <1>13
<1> QED BY <1>14 DEF own

LEMMA QuoteSettles ==
  ASSUME OrderInv, NEW o \in Orders, NEW lines \in ChatLines(o), NEW locks,
         QuoteLocks(lines, locks), active' = active \cup locks,
         UNCHANGED << onHand, converted, lapsed, supplied, shrunk >>
  PROVE  Settle(o)
<1> DEFINE lockOf == [i \in lines |-> LockOf(i)]
<1>1. locks \in SUBSET { lockOf[i] : i \in lines }
  BY DEF QuoteLocks
<1>2. IsFiniteSet(locks)
  <2>1. IsFiniteSet(lines)
    BY ChatLinesShape
  <2>2. IsFiniteSet({ lockOf[i] : i \in lines })
    BY <2>1, ImageFinite
  <2> QED BY <1>1, <2>2, FS_Subset
<1>3. locks \subseteq Reservation /\ \A r \in locks : r.order = o
  <2> SUFFICES ASSUME NEW r \in locks PROVE r \in Reservation /\ r.order = o
    OBVIOUS
  <2>1. PICK i \in lines : r = LockOf(i)
    BY <1>1
  <2>2. i \in Item /\ i.order = o
    BY ChatLinesShape
  <2> QED BY <2>1, <2>2 DEF LockOf, Item, Reservation
<1>4. Rows(locks)
  BY <1>2, <1>3 DEF Rows, Reservation
<1>5. IsFiniteSet(active') /\ active' \subseteq Reservation
  BY <1>2, <1>3, FS_Union DEF OrderInv, LedgerInv, LedgerTypeOK
<1>6. onHand' = [s \in Skus |-> onHand[s] + Deducted(o, s) - Deducted(o, s)']
  <2>1. \A s \in Skus : onHand[s] + Deducted(o, s) - Deducted(o, s)' = onHand[s]
    <3> TAKE s \in Skus
    <3>1. Deducted(o, s)' = Deducted(o, s)
      BY DEF Deducted
    <3>2. Deducted(o, s) \in Nat /\ onHand[s] \in Int
      BY LedgerSums DEF OrderInv, LedgerInv
    <3> QED BY <3>1, <3>2
  <2>2. onHand = [s \in Skus |-> onHand[s]]
    BY DEF OrderInv, LedgerInv, LedgerTypeOK
  <2> QED BY <2>1, <2>2
<1>7. ASSUME NEW s \in Skus PROVE Available(s)' >= 0 \/ Available(s)' >= Available(s)
  <2>1. Available(s)' = onHand[s] - Quantity(LiveLocks(s)')
    BY DEF Available
  <2>2. Available(s) = onHand[s] - Quantity(LiveLocks(s))
    BY DEF Available
  <2>3. Rows(LiveLocks(s)) /\ Quantity(LiveLocks(s)) \in Nat /\ onHand[s] \in Int
    BY LedgerSums DEF OrderInv, LedgerInv
  <2>4. CASE LiveLocks(s)' = LiveLocks(s)
    BY <2>1, <2>2, <2>3, <2>4
  <2>5. CASE LiveLocks(s)' # LiveLocks(s)
    <3>1. LiveLocks(s)' = LiveLocks(s) \cup OfSku(locks, s)
      BY <2>5, <1>3 DEF LiveLocks, OfSku
    <3>2. OfSku(locks, s) # {}
      BY <2>5, <3>1
    <3>3. Quantity(OfSku(locks, s)) <= Available(s)
      BY <3>2, QuoteFits
    <3>4. OfSku(locks, s) \in SUBSET locks
      BY DEF OfSku
    <3>5. Rows(OfSku(locks, s)) /\ Quantity(OfSku(locks, s)) \in Nat
      BY <3>4, <1>4, RowsSubset, QuantityNat
    <3>6. /\ Quantity(LiveLocks(s)') <= Quantity(LiveLocks(s)) + Quantity(OfSku(locks, s))
          /\ Quantity(LiveLocks(s)') \in Nat
      BY <3>1, <3>5, <2>3, QuantityUnionBound, RowsUnion, QuantityNat
    <3> QED BY <2>1, <2>2, <2>3, <3>3, <3>5, <3>6
  <2> QED BY <2>4, <2>5
<1> QED BY <1>3, <1>5, <1>6, <1>7 DEF Settle, OrderInv, LedgerInv, LedgerTypeOK

-----------------------------------------------------------------------------
(* The full-stock confirmation.                                            *)

(* What it converts: rows of the order, finitely many.                     *)
LEMMA ConvertedLocksShape ==
  ASSUME OrderInv, NEW o \in Orders
  PROVE  /\ ConvertedLocks(o) \subseteq Reservation /\ IsFiniteSet(ConvertedLocks(o))
         /\ \A r \in ConvertedLocks(o) : r.order = o
<1>1. \A s \in Skus : Wanted(o, s) \in Nat
  BY WantedNat DEF OrderInv
<1>2. IsFiniteSet(UnlockedSkus(o)) /\ UnlockedSkus(o) \subseteq Skus
  <2> DEFINE skuOf == [i \in LocalItems(o) |-> i.sku]
  <2>1. LocalItems(o) \in SUBSET items /\ IsFiniteSet(items)
    BY DEF LocalItems, OfOrder, OrderInv, ItemsOK
  <2>2. IsFiniteSet(LocalItems(o))
    BY <2>1, FS_Subset
  <2>3. IsFiniteSet({ skuOf[i] : i \in LocalItems(o) })
    BY <2>2, ImageFinite
  <2>4. UnlockedSkus(o) \in SUBSET { skuOf[i] : i \in LocalItems(o) }
    <3> SUFFICES ASSUME NEW s \in UnlockedSkus(o) PROVE \E i \in LocalItems(o) : i.sku = s
      OBVIOUS
    <3>1. Wanted(o, s) > 0
      BY DEF UnlockedSkus
    <3>2. OfSku(LocalItems(o), s) # {}
      BY <3>1, QuantityEmpty DEF Wanted
    <3> QED BY <3>2 DEF OfSku
  <2>5. IsFiniteSet(UnlockedSkus(o))
    BY <2>3, <2>4, FS_Subset
  <2> QED BY <2>5 DEF UnlockedSkus
<1> DEFINE fresh == [s \in UnlockedSkus(o) |->
                       [order |-> o, sku |-> s, line |-> 0, cantidad |-> Wanted(o, s)]]
<1>3. FreshLocks(o) = { fresh[s] : s \in UnlockedSkus(o) }
  BY DEF FreshLocks
<1>4. IsFiniteSet({ fresh[s] : s \in UnlockedSkus(o) })
  BY <1>2, ImageFinite
<1>5. MatchingLocks(o) \in SUBSET active /\ \A r \in MatchingLocks(o) : r.order = o
  BY DEF MatchingLocks, OfOrder
<1>6. IsFiniteSet(MatchingLocks(o)) /\ MatchingLocks(o) \subseteq Reservation
  BY <1>5, FS_Subset DEF OrderInv, LedgerInv, LedgerTypeOK
<1>7. IsFiniteSet(ConvertedLocks(o))
  BY <1>3, <1>4, <1>6, FS_Union DEF ConvertedLocks
<1>8. \A r \in FreshLocks(o) : r \in Reservation /\ r.order = o
  BY <1>1, <1>2 DEF FreshLocks, Reservation
<1> QED BY <1>5, <1>6, <1>7, <1>8 DEF ConvertedLocks

(* Of each SKU, what is converted is the matching locks or one fresh lock. *)
LEMMA ConvertedOfSku ==
  ASSUME OrderInv, NEW o \in Orders, NEW s \in Skus
  PROVE  \/ /\ OfSku(MatchingLocks(o), s) # {}
            /\ OfSku(ConvertedLocks(o), s) = OfSku(MatchingLocks(o), s)
         \/ /\ s \in UnlockedSkus(o)
            /\ OfSku(ConvertedLocks(o), s) =
                 {[order |-> o, sku |-> s, line |-> 0, cantidad |-> Wanted(o, s)]}
         \/ /\ Wanted(o, s) = 0 /\ OfSku(ConvertedLocks(o), s) = {}
<1>1. Wanted(o, s) \in Nat
  BY WantedNat DEF OrderInv
<1>2. OfSku(ConvertedLocks(o), s) = OfSku(MatchingLocks(o), s) \cup OfSku(FreshLocks(o), s)
  BY DEF ConvertedLocks, OfSku
<1>3. OfSku(FreshLocks(o), s) =
        IF s \in UnlockedSkus(o)
        THEN {[order |-> o, sku |-> s, line |-> 0, cantidad |-> Wanted(o, s)]} ELSE {}
  BY DEF FreshLocks, OfSku
<1>4. s \in UnlockedSkus(o) <=> Wanted(o, s) > 0 /\ OfSku(MatchingLocks(o), s) = {}
  BY DEF UnlockedSkus
<1>5. CASE s \in UnlockedSkus(o)
  BY <1>2, <1>3, <1>4, <1>5
<1>6. CASE s \notin UnlockedSkus(o)
  <2>1. OfSku(ConvertedLocks(o), s) = OfSku(MatchingLocks(o), s)
    BY <1>2, <1>3, <1>6
  <2>2. OfSku(MatchingLocks(o), s) # {} \/ Wanted(o, s) = 0
    BY <1>1, <1>4, <1>6
  <2> QED BY <2>1, <2>2
<1> QED BY <1>5, <1>6

(* After the confirmation the order's deducted rows are those it converted,*)
(* because as a draft it had none.                                         *)
LEMMA ConfirmDeducts ==
  ASSUME OrderInv, NEW o \in Orders, NEW withSuppliers, ConfirmCaseA(o, withSuppliers),
         NEW s \in Skus
  PROVE  /\ Deducted(o, s) = 0
         /\ Deducted(o, s)' = Quantity(OfSku(ConvertedLocks(o), s))
<1>1. OfOrder(converted, o) = {}
  BY DEF ConfirmCaseA, MayConfirm, OrderInv, DraftHoldsNoDeduction
<1>2. OfOrder(converted', o) = ConvertedLocks(o)
  BY <1>1, ConvertedLocksShape DEF ConfirmCaseA, OfOrder
<1>3. OfSku(OfOrder(converted, o), s) = {}
  BY <1>1 DEF OfSku
<1>4. Deducted(o, s)' = Quantity(OfSku(OfOrder(converted', o), s))
  BY DEF Deducted
<1> QED BY <1>2, <1>3, <1>4, QuantityEmpty DEF Deducted

LEMMA CaseASettles ==
  ASSUME OrderInv, NEW o \in Orders, NEW withSuppliers, ConfirmCaseA(o, withSuppliers)
  PROVE  Settle(o)
<1>1. active' \in SUBSET active /\ converted' = converted \cup ConvertedLocks(o)
  BY DEF ConfirmCaseA
<1>2. IsFiniteSet(active') /\ active' \subseteq Reservation
  BY <1>1, FS_Subset DEF OrderInv, LedgerInv, LedgerTypeOK
<1>3. IsFiniteSet(converted') /\ converted' \subseteq Reservation
  BY <1>1, ConvertedLocksShape, FS_Union DEF OrderInv, LedgerInv, LedgerTypeOK
<1>4. \A r \in active \cup active' : r.order # o => (r \in active <=> r \in active')
  BY DEF ConfirmCaseA, OfOrder
<1>5. \A r \in converted \cup converted' : r.order # o => (r \in converted <=> r \in converted')
  BY <1>1, ConvertedLocksShape
<1>6. \A s \in Skus : /\ onHand[s] \in Int
                      /\ Rows(OfSku(ConvertedLocks(o), s))
                      /\ Quantity(OfSku(ConvertedLocks(o), s)) \in Nat
  <2> TAKE s \in Skus
  <2>1. OfSku(ConvertedLocks(o), s) \in SUBSET ConvertedLocks(o)
    BY DEF OfSku
  <2> QED BY <2>1, ConvertedLocksShape, ReservationRows, LedgerSums DEF OrderInv, LedgerInv
<1>7. onHand' = [s \in Skus |-> onHand[s] + Deducted(o, s) - Deducted(o, s)']
  <2>1. onHand' = [s \in Skus |-> onHand[s] - Quantity(OfSku(ConvertedLocks(o), s))]
    BY DEF ConfirmCaseA
  <2>2. ASSUME NEW s \in Skus
        PROVE  onHand[s] + Deducted(o, s) - Deducted(o, s)'
                 = onHand[s] - Quantity(OfSku(ConvertedLocks(o), s))
    <3>1. onHand[s] \in Int /\ Quantity(OfSku(ConvertedLocks(o), s)) \in Nat
      BY <1>6
    <3> QED BY <3>1, ConfirmDeducts
  <2> QED BY <2>1, <2>2
<1>8. ASSUME NEW s \in Skus PROVE Available(s)' >= 0 \/ Available(s)' >= Available(s)
  <2> DEFINE others == { r \in LiveLocks(s) : r.order # o }
             deducted == Quantity(OfSku(ConvertedLocks(o), s))
  <2>1. LiveLocks(s)' = others
    BY DEF LiveLocks, ConfirmCaseA, OfOrder
  <2>2. onHand'[s] = onHand[s] - deducted
    BY DEF ConfirmCaseA
  <2>3. Available(s)' = onHand[s] - deducted - Quantity(others)
    <3>1. Available(s)' = onHand'[s] - Quantity(LiveLocks(s)')
      BY DEF Available
    <3> QED BY <2>1, <2>2, <3>1
  <2>4. Available(s) = onHand[s] - Quantity(LiveLocks(s))
    BY DEF Available
  <2>5. Rows(LiveLocks(s))
    BY LedgerSums DEF OrderInv, LedgerInv
  <2>6. others \in SUBSET LiveLocks(s)
    OBVIOUS
  <2>7. /\ Quantity(LiveLocks(s)) = Quantity(others) + Quantity(LiveLocks(s) \ others)
        /\ Quantity(others) \in Nat /\ Quantity(LiveLocks(s) \ others) \in Nat
    BY <2>5, <2>6, QuantitySplit
  <2>8. onHand[s] \in Int /\ deducted \in Nat
    BY <1>6
  <2>9. CASE OfSku(MatchingLocks(o), s) # {} /\ deducted = Quantity(OfSku(MatchingLocks(o), s))
    (* The order's locks are live, and what they kept from the others is   *)
    (* what is deducted now.                                               *)
    <3>1. ~Stale(o)
      BY DEF ConfirmCaseA, MayConfirm, RequiresRequote
    <3>2. OfSku(MatchingLocks(o), s) \in SUBSET (LiveLocks(s) \ others)
      BY <2>9, <3>1 DEF Stale, MatchingLocks, OfSku, OfOrder, LiveLocks
    <3>3. LiveLocks(s) \ others \in SUBSET LiveLocks(s)
      OBVIOUS
    <3>4. Rows(LiveLocks(s) \ others)
      BY <2>5, <3>3, RowsSubset
    <3> HIDE DEF others
    <3>5. Quantity(OfSku(MatchingLocks(o), s)) <= Quantity(LiveLocks(s) \ others)
      BY <3>2, <3>4, QuantitySubset
    <3> HIDE DEF deducted
    <3> QED BY <2>3, <2>4, <2>7, <2>8, <2>9, <3>5
  <2>10. CASE s \in UnlockedSkus(o) /\ deducted = Wanted(o, s)
    <3>1. onHand[s] - Quantity(others) >= Wanted(o, s)
      BY <2>10 DEF ConfirmCaseA, Reservable
    <3> HIDE DEF others, deducted
    <3> QED BY <2>3, <2>7, <2>8, <2>10, <3>1
  <2>11. CASE deducted = 0
    <3> HIDE DEF others, deducted
    <3> QED BY <2>3, <2>4, <2>7, <2>8, <2>11
  <2>12. Wanted(o, s) \in Nat
    BY WantedNat DEF OrderInv
  <2>13. Quantity({[order |-> o, sku |-> s, line |-> 0, cantidad |-> Wanted(o, s)]}) = Wanted(o, s)
    <3> DEFINE lock == [order |-> o, sku |-> s, line |-> 0, cantidad |-> Wanted(o, s)]
    <3>1. lock.cantidad = Wanted(o, s)
      OBVIOUS
    <3> HIDE DEF lock
    <3>2. Quantity({lock}) = Wanted(o, s)
      BY <2>12, <3>1, QuantitySingleton
    <3> QED BY <3>2 DEF lock
  <2>14. \/ OfSku(MatchingLocks(o), s) # {} /\ deducted = Quantity(OfSku(MatchingLocks(o), s))
         \/ s \in UnlockedSkus(o) /\ deducted = Wanted(o, s)
         \/ deducted = 0
    <3>1. CASE OfSku(ConvertedLocks(o), s) = {}
      BY <3>1, QuantityEmpty
    <3>2. CASE OfSku(ConvertedLocks(o), s) # {}
      BY <3>2, <2>13, ConvertedOfSku, Zenon
    <3> QED BY <3>1, <3>2
  <2> HIDE DEF deducted
  <2> QED BY <2>9, <2>10, <2>11, <2>14, Zenon
<1>9. UNCHANGED << lapsed, supplied, shrunk >>
  BY DEF ConfirmCaseA
<1> QED BY <1>2, <1>3, <1>4, <1>5, <1>7, <1>8, <1>9 DEF Settle

-----------------------------------------------------------------------------
(* Every step is a step of the ledger or leaves it alone.                  *)
LEMMA StepsImplementLedger ==
  ASSUME OrderInv, [Next]_vars
  PROVE  [LedgerNext]_ledgerVars
<1>1. CASE UNCHANGED vars
  BY <1>1 DEF vars, ledgerVars
<1>2. ASSUME NEW o \in Orders, OrderStep(o) PROVE [LedgerNext]_ledgerVars
  <2>1. CASE PersistFinalizedDraft(o)
    <3>1. PICK lines \in ChatLines(o) :
            \E locks \in SUBSET { LockOf(i) : i \in lines } :
              QuoteLocks(lines, locks) /\ active' = active \cup locks
      BY <2>1 DEF PersistFinalizedDraft
    <3>2. UNCHANGED << onHand, converted, lapsed, supplied, shrunk >>
      BY <2>1 DEF PersistFinalizedDraft
    <3>3. Settle(o)
      BY <3>1, <3>2, QuoteSettles
    <3> QED BY <3>3 DEF LedgerNext
  <2>2. CASE CreateManualOrder(o) \/ UpdateManualOrder(o) \/ RemoveDraftItem(o) \/ AddDraftItem(o)
    BY <2>2 DEF CreateManualOrder, UpdateManualOrder, RemoveDraftItem, AddDraftItem, ledgerVars
  <2>3. CASE TTLRunsOut(o)
    BY <2>3 DEF TTLRunsOut, LedgerNext
  <2>4. CASE ExpireReservations(o)
    <3>1. Settle(o)
      BY <2>4, ReleasingSettles DEF ExpireReservations, OfOrder
    <3> QED BY <3>1 DEF LedgerNext
  <2>5. ASSUME NEW withSuppliers, ConfirmCaseA(o, withSuppliers) PROVE [LedgerNext]_ledgerVars
    BY <2>5, CaseASettles DEF LedgerNext
  <2>6. ASSUME NEW withSuppliers, ConfirmCaseB(o, withSuppliers) PROVE [LedgerNext]_ledgerVars
    BY <2>6 DEF ConfirmCaseB
  <2>7. ASSUME NEW withSuppliers, ConfirmCaseC(o, withSuppliers) PROVE [LedgerNext]_ledgerVars
    <3>1. Settle(o)
      BY <2>7, ReleasingSettles DEF ConfirmCaseC, OfOrder
    <3> QED BY <3>1 DEF LedgerNext
  <2>8. CASE ConfirmSelection(o)
    BY <2>8 DEF ConfirmSelection
  <2>9. CASE StartPicking(o) \/ CompletePicking(o) \/ DeliverOrder(o)
    BY <2>9 DEF StartPicking, CompletePicking, DeliverOrder, Advance
  <2>10. CASE CancelBeforePicking(o)
    <3>1. Settle(o)
      BY <2>10, ReleasingSettles DEF CancelBeforePicking, Cancel, ReleaseActiveReservations, OfOrder
    <3> QED BY <3>1 DEF LedgerNext
  <2>11. CASE CancelLate(o)
    <3>1. Settle(o)
      BY <2>11, RestoringSettles DEF CancelLate, Cancel
    <3> QED BY <3>1 DEF LedgerNext
  <2>12. CASE ModifyOrder(o)
    <3>1. Settle(o)
      BY <2>12, RestoringSettles DEF ModifyOrder, ReleaseActiveReservations, OfOrder
    <3> QED BY <3>1 DEF LedgerNext
  <2> QED BY <1>2, <2>1, <2>2, <2>3, <2>4, <2>5, <2>6, <2>7, <2>8, <2>9, <2>10, <2>11, <2>12
          DEF OrderStep
<1>3. ASSUME NEW s \in Skus, NEW n \in Nat \ {0}, StockIn(s, n) PROVE Restock(s)
  <2>1. onHand[s] \in Int /\ onHand'[s] = onHand[s] + n
    BY <1>3 DEF StockIn, OrderInv, LedgerInv, LedgerTypeOK
  <2>2. onHand'[s] - onHand[s] = n
    BY <2>1
  <2> QED BY <1>3, <2>2 DEF StockIn, Restock
<1>4. ASSUME NEW s \in Skus, NEW n \in Nat \ {0}, StockOut(s, n) PROVE WriteOff(s)
  <2>1. onHand[s] \in Int /\ onHand'[s] = onHand[s] - n
    BY <1>4 DEF StockOut, OrderInv, LedgerInv, LedgerTypeOK
  <2>2. onHand[s] - onHand'[s] = n
    BY <2>1
  <2> QED BY <1>4, <2>2 DEF StockOut, WriteOff
<1>5. \A n \in 1 .. MaxQuantity : n \in Nat \ {0}
  BY BoundsAssumption
<1>6. ASSUME NEW p \in Suppliers, PurchaseStep(p) PROVE [LedgerNext]_ledgerVars
  <2>1. CASE ToggleSupplier(p)
    BY <2>1 DEF ToggleSupplier
  <2>2. ASSUME NEW n, SendPO(p, n) \/ CancelPO(p, n) PROVE [LedgerNext]_ledgerVars
    BY <2>2 DEF SendPO, CancelPO
  <2>3. ASSUME NEW n, NEW s \in Skus, NEW quantity \in 1 .. MaxQuantity, ReceivePO(p, n, s, quantity)
        PROVE  [LedgerNext]_ledgerVars
    BY <2>3, <1>3, <1>5 DEF ReceivePO, LedgerNext
  <2> QED BY <1>6, <2>1, <2>2, <2>3 DEF PurchaseStep
<1>7. ASSUME NEW s \in Skus, NEW n \in 1 .. MaxQuantity, AdjustStock(s, n)
      PROVE  [LedgerNext]_ledgerVars
  BY <1>3, <1>4, <1>5, <1>7 DEF AdjustStock, LedgerNext
<1>8. CASE SweepExpired
  BY <1>8 DEF SweepExpired, LedgerNext
<1>9. CASE RecomputePendingConversion
  BY <1>9 DEF RecomputePendingConversion
<1> QED BY <1>1, <1>2, <1>6, <1>7, <1>8, <1>9 DEF Next

-----------------------------------------------------------------------------
(* The rest of the invariant.                                              *)

(* The form's lines: finitely many catalog lines with their quantities.    *)
LEMMA FormShape ==
  ASSUME NEW form \in FormLines
  PROVE  /\ DOMAIN form \subseteq Kinds /\ IsFiniteSet(DOMAIN form)
         /\ \A k \in DOMAIN form : form[k] \in Nat
<1>1. PICK K \in SUBSET Kinds : form \in [K -> 1 .. MaxQuantity]
  BY DEF FormLines
<1>2. IsFiniteSet(K)
  BY FS_Subset, KindsAssumption
<1> QED BY <1>1, <1>2, BoundsAssumption

LEMMA NewItemsOK ==
  ASSUME NEW o \in Orders, NEW form \in FormLines, NEW K \in SUBSET DOMAIN form
  PROVE  LET new == { NewItem(o, 1, k, form[k]) : k \in K }
         IN  new \subseteq Item /\ IsFiniteSet(new)
<1> DEFINE f == [k \in K |-> NewItem(o, 1, k, form[k])]
<1>1. IsFiniteSet(K)
  BY FormShape, FS_Subset
<1>2. IsFiniteSet({ f[k] : k \in K })
  BY <1>1, ImageFinite
<1>3. \A k \in K : NewItem(o, 1, k, form[k]) \in Item
  BY FormShape, KindsAssumption DEF NewItem, Item
<1>4. { f[k] : k \in K } = { NewItem(o, 1, k, form[k]) : k \in K }
  OBVIOUS
<1> QED BY <1>2, <1>3, <1>4

LEMMA UpdateKeepsItemsOK ==
  ASSUME ItemsOK, NEW o \in Orders, UpdateManualOrder(o)
  PROVE  ItemsOK'
<1>1. PICK form \in FormLines, found \in SUBSET OfOrder(items, o) :
        LET kept == { [p[1] EXCEPT !.cantidad = form[p[2]]] :
                        p \in { q \in found \X DOMAIN form : SameLine(q[1], q[2]) } }
            fresh == { NewItem(o, 1, k, form[k]) :
                         k \in { l \in DOMAIN form : \A j \in found : ~SameLine(j, l) } }
        IN  items' = (items \ found) \cup kept \cup fresh
  BY DEF UpdateManualOrder
<1> DEFINE pairs == { q \in found \X DOMAIN form : SameLine(q[1], q[2]) }
           f == [p \in pairs |-> [p[1] EXCEPT !.cantidad = form[p[2]]]]
           kept == { f[p] : p \in pairs }
           unmatched == { l \in DOMAIN form : \A j \in found : ~SameLine(j, l) }
           fresh == { NewItem(o, 1, k, form[k]) : k \in unmatched }
<1>2. items' = (items \ found) \cup kept \cup fresh
  <2>1. kept = { [p[1] EXCEPT !.cantidad = form[p[2]]] : p \in pairs }
    OBVIOUS
  <2> QED BY <1>1, <2>1
<1>3. found \in SUBSET items /\ IsFiniteSet(items) /\ items \subseteq Item
  BY DEF OfOrder, ItemsOK
<1>4. kept \subseteq Item
  <2> SUFFICES ASSUME NEW p \in pairs PROVE f[p] \in Item
    OBVIOUS
  <2>1. p[1] \in Item /\ form[p[2]] \in Nat
    BY <1>3, FormShape
  <2>2. f[p] = [p[1] EXCEPT !.cantidad = form[p[2]]]
    OBVIOUS
  <2> HIDE DEF f
  <2> QED BY <2>1, <2>2 DEF Item
<1>5. IsFiniteSet(kept)
  <2>1. IsFiniteSet(found) /\ IsFiniteSet(DOMAIN form)
    BY <1>3, FS_Subset, FormShape
  <2>2. IsFiniteSet(found \X DOMAIN form)
    BY <2>1, FS_Product
  <2>3. pairs \in SUBSET (found \X DOMAIN form)
    OBVIOUS
  <2>4. IsFiniteSet(pairs)
    BY <2>2, <2>3, FS_Subset
  <2> HIDE DEF pairs
  <2> QED BY <2>4, ImageFinite
<1>6. fresh \subseteq Item /\ IsFiniteSet(fresh)
  BY NewItemsOK
<1>7. IsFiniteSet(items \ found)
  BY <1>3, FS_Subset
<1> HIDE DEF kept, fresh
<1>8. IsFiniteSet(items')
  BY <1>2, <1>5, <1>6, <1>7, FS_Union
<1> QED BY <1>2, <1>3, <1>4, <1>6, <1>8 DEF ItemsOK

LEMMA AddKeepsItemsOK ==
  ASSUME ItemsOK, NEW o \in Orders, AddDraftItem(o)
  PROVE  ItemsOK'
<1>1. PICK s \in Skus, quantity \in 1 .. MaxQuantity :
        LET same == OfSku(OfOrder(items, o), s)
            local == [sku |-> s, source |-> "LOCAL", supplier |-> NoSupplier]
        IN  \/ same = {} /\ items' = items \cup {NewItem(o, 1, local, quantity)}
            \/ \E i \in same :
                 /\ i.cantidad + quantity <= MaxQuantity
                 /\ items' = (items \ {i}) \cup {[i EXCEPT !.cantidad = @ + quantity]}
  BY DEF AddDraftItem
<1>2. PICK old \in SUBSET items, new \in Item : items' = (items \ old) \cup {new}
  <2> DEFINE local == [sku |-> s, source |-> "LOCAL", supplier |-> NoSupplier]
             same == OfSku(OfOrder(items, o), s)
  <2>0. quantity \in Nat
    BY BoundsAssumption
  <2>1. CASE items' = items \cup {NewItem(o, 1, local, quantity)}
    <3>1. NewItem(o, 1, local, quantity) \in Item
      BY <2>0 DEF NewItem, Item
    <3>2. items' = (items \ {}) \cup {NewItem(o, 1, local, quantity)}
      BY <2>1
    <3> QED BY <3>1, <3>2
  <2>2. CASE \E i \in same : items' = (items \ {i}) \cup {[i EXCEPT !.cantidad = @ + quantity]}
    <3>1. PICK i \in same : items' = (items \ {i}) \cup {[i EXCEPT !.cantidad = @ + quantity]}
      BY <2>2
    <3>2. i \in items /\ i \in Item
      BY DEF OfSku, OfOrder, ItemsOK
    <3>3. [i EXCEPT !.cantidad = @ + quantity] \in Item
      BY <2>0, <3>2 DEF Item
    <3> QED BY <3>1, <3>2, <3>3
  <2> QED BY <1>1, <2>1, <2>2
<1>3. IsFiniteSet(items \ old) /\ IsFiniteSet({new})
  BY FS_Subset, FS_Singleton DEF ItemsOK
<1>4. IsFiniteSet(items')
  BY <1>2, <1>3, FS_Union
<1> QED BY <1>2, <1>4 DEF ItemsOK

(* An action on one order, by name, whatever the suppliers found.          *)
Confirm(o, withSuppliers) ==
  ConfirmCaseA(o, withSuppliers) \/ ConfirmCaseB(o, withSuppliers) \/ ConfirmCaseC(o, withSuppliers)

LEMMA ItemsOKNext ==
  ASSUME ItemsOK, [Next]_vars
  PROVE  ItemsOK'
<1>1. ASSUME NEW o \in Orders, PersistFinalizedDraft(o) PROVE ItemsOK'
  <2>1. PICK lines \in ChatLines(o) : items' = items \cup lines
    BY <1>1 DEF PersistFinalizedDraft
  <2>2. lines \subseteq Item /\ IsFiniteSet(lines)
    BY ChatLinesShape
  <2> QED BY <2>1, <2>2, FS_Union DEF ItemsOK
<1>2. ASSUME NEW o \in Orders, CreateManualOrder(o) PROVE ItemsOK'
  <2>1. PICK form \in FormLines :
          items' = items \cup { NewItem(o, 1, k, form[k]) : k \in DOMAIN form }
    BY <1>2 DEF CreateManualOrder
  <2> DEFINE new == { NewItem(o, 1, k, form[k]) : k \in DOMAIN form }
  <2>2. new \subseteq Item /\ IsFiniteSet(new)
    BY NewItemsOK
  <2> HIDE DEF new
  <2>3. items' = items \cup new
    BY <2>1 DEF new
  <2> QED BY <2>2, <2>3, FS_Union DEF ItemsOK
<1>3. ASSUME NEW o \in Orders, RemoveDraftItem(o) PROVE ItemsOK'
  <2>1. items' \in SUBSET items
    BY <1>3 DEF RemoveDraftItem
  <2> QED BY <2>1, FS_Subset DEF ItemsOK
<1>4. ASSUME UNCHANGED items PROVE ItemsOK'
  BY <1>4 DEF ItemsOK
<1>5. ASSUME NEW o \in Orders, NEW withSuppliers, Confirm(o, withSuppliers) PROVE UNCHANGED items
  BY <1>5 DEF Confirm, ConfirmCaseA, ConfirmCaseB, ConfirmCaseC
<1>6. ASSUME NEW o \in Orders, OrderStep(o) PROVE ItemsOK'
  <2>1. CASE \/ TTLRunsOut(o) \/ ExpireReservations(o) \/ ConfirmSelection(o)
             \/ StartPicking(o) \/ CompletePicking(o) \/ DeliverOrder(o)
    BY <2>1, <1>4 DEF TTLRunsOut, orderVars, ExpireReservations, ConfirmSelection,
       StartPicking, CompletePicking, DeliverOrder, Advance
  <2>2. CASE CancelBeforePicking(o) \/ CancelLate(o) \/ ModifyOrder(o)
    BY <2>2, <1>4 DEF CancelBeforePicking, CancelLate, Cancel, ModifyOrder
  <2> QED BY <1>1, <1>2, <1>3, <1>4, <1>5, <1>6, <2>1, <2>2, UpdateKeepsItemsOK, AddKeepsItemsOK
          DEF OrderStep, Confirm
<1>7. ASSUME NEW p \in Suppliers, PurchaseStep(p) PROVE UNCHANGED items
  BY <1>7 DEF PurchaseStep, ToggleSupplier, SendPO, CancelPO, ReceivePO, orderVars
<1>8. CASE SweepExpired \/ RecomputePendingConversion \/ UNCHANGED vars
  BY <1>8, <1>4 DEF SweepExpired, RecomputePendingConversion, vars, orderVars
<1>9. ASSUME NEW s \in Skus, NEW n, AdjustStock(s, n) PROVE UNCHANGED items
  BY <1>9 DEF AdjustStock, orderVars
<1> QED BY <1>4, <1>6, <1>7, <1>8, <1>9 DEF Next

(* How a step moves the order it is about, and no other.                   *)
Moves(o) ==
  /\ \A q \in Orders \ {o} : estado'[q] = estado[q]
  /\ \A q \in Orders \ {o} : OfOrder(converted, q)' = OfOrder(converted, q)
  /\ \/ estado'[o] = estado[o] /\ OfOrder(converted, o)' = OfOrder(converted, o)
     \/ estado[o] = "NONE" /\ estado'[o] = "DRAFT" /\ OfOrder(converted, o)' = OfOrder(converted, o)
     \/ estado[o] = "CONFIRMED" /\ estado'[o] = "DRAFT" /\ OfOrder(converted, o)' = {}
     \/ estado[o] \notin {"NONE", "CLOSED", "CANCELED"} /\ estado'[o] \notin {"NONE", "DRAFT"}

(* Every step moves at most one order, and in one of these ways.           *)
LEMMA StepMoves ==
  ASSUME OrderInv, [Next]_vars
  PROVE  /\ EstadoOK'
         /\ (estado' = estado /\ converted' = converted) \/ \E o \in Orders : Moves(o)
<1> DEFINE Goal == /\ EstadoOK'
                   /\ (estado' = estado /\ converted' = converted) \/ \E o \in Orders : Moves(o)
<1>1. ASSUME UNCHANGED << estado, converted >> PROVE Goal
  BY <1>1 DEF OrderInv, EstadoOK
<1>2. ASSUME NEW o \in Orders, NEW to \in OrderEstado, estado' = [estado EXCEPT ![o] = to],
             \/ estado[o] = "NONE" /\ to = "DRAFT" /\ converted' = converted
             \/ estado[o] = "CONFIRMED" /\ to = "DRAFT" /\ converted' = converted \ OfOrder(converted, o)
             \/ /\ estado[o] \notin {"NONE", "CLOSED", "CANCELED"} /\ to \notin {"NONE", "DRAFT"}
                /\ \A r \in converted \cup converted' :
                     r.order # o => (r \in converted <=> r \in converted')
      PROVE  Goal
  <2>1. estado'[o] = to /\ \A q \in Orders \ {o} : estado'[q] = estado[q]
    BY <1>2 DEF OrderInv, EstadoOK
  <2>2. EstadoOK'
    BY <1>2 DEF OrderInv, EstadoOK
  <2>3. \A q \in Orders \ {o} : OfOrder(converted', q) = OfOrder(converted, q)
    BY <1>2 DEF OfOrder
  <2>4. Moves(o)
    BY <1>2, <2>1, <2>3 DEF Moves, OfOrder
  <2> QED BY <2>2, <2>4
<1> HIDE DEF Goal
<1>3. ASSUME NEW o \in Orders, OrderStep(o) PROVE Goal
  <2>1. CASE PersistFinalizedDraft(o) \/ CreateManualOrder(o)
    BY <2>1, <1>2 DEF PersistFinalizedDraft, CreateManualOrder, OrderEstado, ledgerVars
  <2>2. CASE UpdateManualOrder(o) \/ RemoveDraftItem(o) \/ AddDraftItem(o)
    BY <2>2, <1>1 DEF UpdateManualOrder, RemoveDraftItem, AddDraftItem, ledgerVars
  <2>3. CASE TTLRunsOut(o) \/ ExpireReservations(o)
    BY <2>3, <1>1 DEF TTLRunsOut, Lapse, ExpireReservations, orderVars
  <2>4. ASSUME NEW withSuppliers, Confirm(o, withSuppliers) PROVE Goal
    <3>1. estado[o] = "DRAFT"
      BY <2>4 DEF Confirm, ConfirmCaseA, ConfirmCaseB, ConfirmCaseC, MayConfirm
    <3>2. CASE ConfirmCaseA(o, withSuppliers)
      <4>1. \A r \in converted \cup converted' : r.order # o => (r \in converted <=> r \in converted')
        BY <3>2, ConvertedLocksShape DEF ConfirmCaseA
      <4> QED BY <3>1, <3>2, <4>1, <1>2 DEF ConfirmCaseA, OrderEstado
    <3>3. CASE ConfirmCaseB(o, withSuppliers)
      BY <3>1, <3>3, <1>2 DEF ConfirmCaseB, OrderEstado, ledgerVars
    <3>4. CASE ConfirmCaseC(o, withSuppliers)
      BY <3>1, <3>4, <1>2 DEF ConfirmCaseC, OrderEstado
    <3> QED BY <2>4, <3>2, <3>3, <3>4 DEF Confirm
  <2>5. CASE ConfirmSelection(o)
    BY <2>5, <1>1, <1>2 DEF ConfirmSelection, OrderEstado, ledgerVars
  <2>6. CASE StartPicking(o) \/ CompletePicking(o) \/ DeliverOrder(o)
    BY <2>6, <1>2 DEF StartPicking, CompletePicking, DeliverOrder, Advance, OrderEstado, ledgerVars
  <2>7. CASE CancelBeforePicking(o)
    BY <2>7, <1>2 DEF CancelBeforePicking, Cancel, OrderEstado
  <2>8. CASE CancelLate(o)
    <3>1. \A r \in converted \cup converted' : r.order # o => (r \in converted <=> r \in converted')
      BY <2>8 DEF CancelLate, RestoreConvertedStock, OfOrder
    <3> QED BY <2>8, <3>1, <1>2 DEF CancelLate, Cancel, OrderEstado
  <2>9. CASE ModifyOrder(o)
    BY <2>9, <1>2 DEF ModifyOrder, RestoreConvertedStock, OrderEstado
  <2> QED BY <1>3, <2>1, <2>2, <2>3, <2>4, <2>5, <2>6, <2>7, <2>8, <2>9 DEF OrderStep, Confirm
<1>4. ASSUME NEW p \in Suppliers, PurchaseStep(p) PROVE Goal
  <2>1. UNCHANGED << estado, converted >>
    BY <1>4 DEF PurchaseStep, ToggleSupplier, SendPO, CancelPO, ReceivePO, StockIn, orderVars, ledgerVars
  <2> QED BY <2>1, <1>1
<1>5. ASSUME NEW s \in Skus, NEW n, AdjustStock(s, n) PROVE Goal
  <2>1. UNCHANGED << estado, converted >>
    BY <1>5 DEF AdjustStock, StockIn, StockOut, orderVars
  <2> QED BY <2>1, <1>1
<1>6. ASSUME SweepExpired PROVE Goal
  BY <1>6, <1>1 DEF SweepExpired, Expire
<1>7. ASSUME RecomputePendingConversion PROVE Goal
  BY <1>7, <1>1 DEF RecomputePendingConversion, ledgerVars
<1>8. ASSUME UNCHANGED vars PROVE Goal
  BY <1>8, <1>1 DEF vars, orderVars, ledgerVars
<1>9. Goal
  BY <1>3, <1>4, <1>5, <1>6, <1>7, <1>8 DEF Next
<1> QED BY <1>9 DEF Goal

LEMMA OrderInvInit == Init => OrderInv /\ LedgerInit
<1> SUFFICES ASSUME Init PROVE OrderInv /\ LedgerInit
  OBVIOUS
<1>1. LedgerInit
  BY OpeningStockAssumption DEF Init, LedgerInit
<1>2. LedgerInv
  BY <1>1, LedgerInitInv
<1>3. ItemsOK /\ EstadoOK
  BY FS_EmptySet DEF Init, ItemsOK, EstadoOK, OrderEstado
<1>4. DraftHoldsNoDeduction
  BY DEF Init, DraftHoldsNoDeduction, OfOrder
<1> QED BY <1>1, <1>2, <1>3, <1>4 DEF OrderInv

LEMMA OrderInvNext == OrderInv /\ [Next]_vars => OrderInv' /\ [LedgerNext]_ledgerVars
<1> SUFFICES ASSUME OrderInv, [Next]_vars PROVE OrderInv' /\ [LedgerNext]_ledgerVars
  OBVIOUS
<1>1. [LedgerNext]_ledgerVars
  BY StepsImplementLedger
<1>2. LedgerInv'
  BY <1>1, LedgerNextInv DEF OrderInv
<1>3. ItemsOK'
  BY ItemsOKNext DEF OrderInv
<1>4. EstadoOK'
  BY StepMoves
<1>5. DraftHoldsNoDeduction'
  <2> SUFFICES ASSUME NEW q \in Orders, estado'[q] \in {"NONE", "DRAFT"}
               PROVE  OfOrder(converted', q) = {}
    BY DEF DraftHoldsNoDeduction
  <2>1. estado[q] \in {"NONE", "DRAFT"} => OfOrder(converted, q) = {}
    BY DEF OrderInv, DraftHoldsNoDeduction
  <2>2. CASE estado' = estado /\ converted' = converted
    BY <2>1, <2>2
  <2>3. ASSUME NEW o \in Orders, Moves(o) PROVE OfOrder(converted', q) = {}
    BY <2>1, <2>3 DEF Moves
  <2> QED BY <2>2, <2>3, StepMoves
<1> QED BY <1>1, <1>2, <1>3, <1>4, <1>5 DEF OrderInv

(* The inductive invariant: the ledger's own, the types of the orders and  *)
(* of their lines, and no deduction held by a draft.                       *)
THEOREM OrdersSafe == Spec => []OrderInv
  BY OrderInvInit, OrderInvNext, PTL DEF Spec

(* The order machine implements the stock ledger: whatever the orders do,  *)
(* they settle their own rows to the unit, leave the other orders' rows    *)
(* alone and lock no more than is available (approval.py, state.py,        *)
(* inventory.py, sweeper.py).                                              *)
THEOREM OrdersImplementLedger == Spec => LedgerSpec
  BY OrderInvInit, OrderInvNext, PTL DEF Spec, LedgerSpec

(* No confirm, modify, cancel or receipt loses a unit or counts one twice. *)
THEOREM OrdersConserveStock == Spec => []StockConserved
  BY OrdersImplementLedger, LedgerConserves, PTL

(* Soft-locks and deductions never exceed the shelf by more than the owner *)
(* wrote off by hand.                                                      *)
THEOREM OrdersNeverOversell == Spec => []OversoldOnlyByWriteOff
  BY OrdersImplementLedger, LedgerNeverOversells, PTL

(* Stock is deducted for an order only from its confirmation on, once.     *)
THEOREM DraftsHoldNothing == Spec => []DraftHoldsNoDeduction
<1>1. OrderInv => DraftHoldsNoDeduction
  BY DEF OrderInv
<1> QED BY <1>1, OrdersSafe, PTL

-----------------------------------------------------------------------------
(* Step properties.                                                        *)

(* What left the shelf for a delivered order never comes back.             *)
THEOREM DeliveredStaysDelivered == Spec => DeliveredIsFinal
<1> DEFINE Final == \A o \in Orders : estado[o] = "CLOSED" =>
                      /\ estado'[o] = "CLOSED"
                      /\ OfOrder(converted, o)' = OfOrder(converted, o)
<1>1. OrderInv /\ [Next]_vars => [Final]_vars
  <2> SUFFICES ASSUME OrderInv, [Next]_vars, NEW q \in Orders, estado[q] = "CLOSED"
               PROVE  estado'[q] = "CLOSED" /\ OfOrder(converted', q) = OfOrder(converted, q)
    OBVIOUS
  <2>1. CASE estado' = estado /\ converted' = converted
    BY <2>1
  <2>2. ASSUME NEW o \in Orders, Moves(o)
        PROVE  estado'[q] = "CLOSED" /\ OfOrder(converted', q) = OfOrder(converted, q)
    BY <2>2 DEF Moves
  <2> QED BY <2>1, <2>2, StepMoves
<1> HIDE DEF Final
<1>2. Spec => [][Final]_vars
  BY <1>1, OrdersSafe, PTL DEF Spec
<1> QED BY <1>2 DEF DeliveredIsFinal, Final

RegisteredOK == registered \in [Orders -> Nat]

(* Only a full-stock confirmation appends a row to the Sheets register.    *)
LEMMA RegisteredBy ==
  ASSUME RegisteredOK, [Next]_vars
  PROVE  /\ RegisteredOK'
         /\ \/ UNCHANGED registered
            \/ \E o \in Orders, withSuppliers \in SUBSET Skus :
                 /\ ConfirmCaseA(o, withSuppliers)
                 /\ \A q \in Orders \ {o} : registered'[q] = registered[q]
<1>1. ASSUME NEW o \in Orders, OrderStep(o)
      PROVE  \/ UNCHANGED registered
             \/ \E withSuppliers \in SUBSET Skus : ConfirmCaseA(o, withSuppliers)
  <2>1. CASE \/ PersistFinalizedDraft(o) \/ CreateManualOrder(o) \/ UpdateManualOrder(o)
             \/ RemoveDraftItem(o) \/ AddDraftItem(o)
    BY <2>1 DEF PersistFinalizedDraft, CreateManualOrder, UpdateManualOrder, RemoveDraftItem, AddDraftItem
  <2>2. CASE TTLRunsOut(o) \/ ExpireReservations(o) \/ ConfirmSelection(o)
    BY <2>2 DEF TTLRunsOut, ExpireReservations, ConfirmSelection, orderVars
  <2>3. ASSUME NEW withSuppliers, ConfirmCaseB(o, withSuppliers) \/ ConfirmCaseC(o, withSuppliers)
        PROVE  UNCHANGED registered
    BY <2>3 DEF ConfirmCaseB, ConfirmCaseC
  <2>4. CASE StartPicking(o) \/ CompletePicking(o) \/ DeliverOrder(o)
    BY <2>4 DEF StartPicking, CompletePicking, DeliverOrder, Advance
  <2>5. CASE CancelBeforePicking(o) \/ CancelLate(o) \/ ModifyOrder(o)
    BY <2>5 DEF CancelBeforePicking, CancelLate, Cancel, ModifyOrder
  <2> QED BY <1>1, <2>1, <2>2, <2>3, <2>4, <2>5 DEF OrderStep
<1>2. ASSUME NEW p \in Suppliers, PurchaseStep(p) PROVE UNCHANGED registered
  BY <1>2 DEF PurchaseStep, ToggleSupplier, SendPO, CancelPO, ReceivePO, orderVars
<1>3. ASSUME NEW s \in Skus, NEW n, AdjustStock(s, n) PROVE UNCHANGED registered
  BY <1>3 DEF AdjustStock, orderVars
<1>4. SweepExpired \/ RecomputePendingConversion \/ UNCHANGED vars => UNCHANGED registered
  BY DEF SweepExpired, RecomputePendingConversion, vars, orderVars
<1>5. \/ UNCHANGED registered
      \/ \E o \in Orders, withSuppliers \in SUBSET Skus : ConfirmCaseA(o, withSuppliers)
  BY <1>1, <1>2, <1>3, <1>4 DEF Next
<1>6. CASE UNCHANGED registered
  BY <1>6 DEF RegisteredOK
<1>7. ASSUME NEW o \in Orders, NEW withSuppliers \in SUBSET Skus, ConfirmCaseA(o, withSuppliers)
      PROVE  RegisteredOK' /\ \A q \in Orders \ {o} : registered'[q] = registered[q]
  BY <1>7 DEF ConfirmCaseA, RegisteredOK
<1> QED BY <1>5, <1>6, <1>7

(* A full-stock confirmation deducts at least what the LOCAL lines ask.    *)
LEMMA ConfirmDeductsEnough ==
  ASSUME OrderInv, NEW o \in Orders, NEW withSuppliers, ConfirmCaseA(o, withSuppliers),
         NEW s \in Skus
  PROVE  Deducted(o, s)' >= Wanted(o, s)'
<1>1. Wanted(o, s)' = Wanted(o, s)
  BY DEF ConfirmCaseA, Wanted, LocalItems, OfOrder, OfSku
<1>2. Deducted(o, s)' = Quantity(OfSku(ConvertedLocks(o), s))
  BY ConfirmDeducts
<1>3. Wanted(o, s) \in Nat
  BY WantedNat DEF OrderInv
<1>4. OfSku(ConvertedLocks(o), s) \in SUBSET ConvertedLocks(o)
  BY DEF OfSku
<1>5. Rows(OfSku(ConvertedLocks(o), s)) /\ Quantity(OfSku(ConvertedLocks(o), s)) \in Nat
  BY <1>4, ConvertedLocksShape, ReservationRows
<1>6. ASSUME NEW r \in OfSku(ConvertedLocks(o), s), r.cantidad = Wanted(o, s)
      PROVE  Quantity(OfSku(ConvertedLocks(o), s)) >= Wanted(o, s)
  <2>1. {r} \in SUBSET OfSku(ConvertedLocks(o), s)
    OBVIOUS
  <2>2. Quantity({r}) <= Quantity(OfSku(ConvertedLocks(o), s))
    BY <1>5, <2>1, QuantitySubset
  <2>3. Quantity({r}) = Wanted(o, s)
    BY <1>3, <1>6, QuantitySingleton
  <2> QED BY <1>3, <1>5, <2>2, <2>3
<1>7. CASE OfSku(ConvertedLocks(o), s) # {}
  <2>1. PICK r \in OfSku(ConvertedLocks(o), s) : TRUE
    BY <1>7
  <2>2. r.cantidad = Wanted(o, s)
    BY DEF OfSku, ConvertedLocks, MatchingLocks, FreshLocks
  <2> QED BY <1>1, <1>2, <1>6, <2>2
<1>8. CASE OfSku(ConvertedLocks(o), s) = {}
  <2>1. Wanted(o, s) = 0
    BY <1>8, ConvertedOfSku
  <2> QED BY <1>1, <1>2, <1>5, <2>1
<1> QED BY <1>7, <1>8

(* The same of every confirmation of a behaviour.                          *)
THEOREM NeverUnderDeducts == Spec => CaseANeverUnderDeducts
<1> DEFINE Enough == \A o \in Orders :
                       registered'[o] > registered[o] =>
                         \A s \in Skus : Deducted(o, s)' >= Wanted(o, s)'
<1>1. Init => RegisteredOK
  BY DEF Init, RegisteredOK
<1>2. OrderInv /\ RegisteredOK /\ [Next]_vars => RegisteredOK' /\ [Enough]_vars
  <2> SUFFICES ASSUME OrderInv, RegisteredOK, [Next]_vars PROVE RegisteredOK' /\ Enough
    OBVIOUS
  <2>1. RegisteredOK'
    BY RegisteredBy
  <2>2. ASSUME NEW q \in Orders, registered'[q] > registered[q], NEW s \in Skus
        PROVE  Deducted(q, s)' >= Wanted(q, s)'
    <3>1. registered'[q] # registered[q]
      BY <2>2, <2>1 DEF RegisteredOK
    <3>2. PICK withSuppliers \in SUBSET Skus : ConfirmCaseA(q, withSuppliers)
      BY <3>1, RegisteredBy
    <3> QED BY <3>2, ConfirmDeductsEnough
  <2> QED BY <2>1, <2>2
<1> HIDE DEF Enough
<1>3. Spec => [][Enough]_vars
  BY <1>1, <1>2, OrdersSafe, PTL DEF Spec
<1> QED BY <1>3 DEF CaseANeverUnderDeducts, Enough

(* A step makes at most one order a draft, and only when its customer has  *)
(* no other.                                                               *)
LEMMA DraftGuarded ==
  ASSUME OrderInv, [Next]_vars, NEW q \in Orders, estado[q] # "DRAFT", estado'[q] = "DRAFT"
  PROVE  NoOtherDraft(q) /\ \A o \in Orders \ {q} : estado'[o] = estado[o]
<1>1. PICK o \in Orders : Moves(o)
  BY StepMoves
<1>2. q = o
  BY <1>1 DEF Moves
<1>3. estado[q] \in {"NONE", "CONFIRMED"}
  BY <1>1, <1>2 DEF Moves
<1>4. ASSUME NEW p \in Orders, OrderStep(p) PROVE NoOtherDraft(q)
  <2>1. CASE PersistFinalizedDraft(p) \/ CreateManualOrder(p) \/ ModifyOrder(p)
    <3>1. NoOtherDraft(p) /\ \A r \in Orders \ {p} : estado'[r] = estado[r]
      BY <2>1 DEF PersistFinalizedDraft, CreateManualOrder, ModifyOrder, OrderInv, EstadoOK
    <3> QED BY <3>1
  <2>2. CASE UpdateManualOrder(p) \/ RemoveDraftItem(p) \/ AddDraftItem(p)
    BY <2>2 DEF UpdateManualOrder, RemoveDraftItem, AddDraftItem
  <2>3. CASE TTLRunsOut(p) \/ ExpireReservations(p)
    BY <2>3 DEF TTLRunsOut, ExpireReservations, orderVars
  <2>4. ASSUME NEW withSuppliers, Confirm(p, withSuppliers) PROVE NoOtherDraft(q)
    BY <2>4 DEF Confirm, ConfirmCaseA, ConfirmCaseB, ConfirmCaseC, OrderInv, EstadoOK
  <2>5. CASE ConfirmSelection(p)
    BY <2>5 DEF ConfirmSelection, OrderInv, EstadoOK
  <2>6. CASE StartPicking(p) \/ CompletePicking(p) \/ DeliverOrder(p)
    BY <2>6 DEF StartPicking, CompletePicking, DeliverOrder, Advance, OrderInv, EstadoOK
  <2>7. CASE CancelBeforePicking(p) \/ CancelLate(p)
    BY <2>7 DEF CancelBeforePicking, CancelLate, Cancel, OrderInv, EstadoOK
  <2> QED BY <1>4, <2>1, <2>2, <2>3, <2>4, <2>5, <2>6, <2>7 DEF OrderStep, Confirm
<1>5. ASSUME NEW p \in Suppliers, PurchaseStep(p) PROVE FALSE
  BY <1>5 DEF PurchaseStep, ToggleSupplier, SendPO, CancelPO, ReceivePO, orderVars
<1>6. ASSUME NEW s \in Skus, NEW n, AdjustStock(s, n) PROVE FALSE
  BY <1>6 DEF AdjustStock, orderVars
<1>7. ASSUME SweepExpired \/ RecomputePendingConversion \/ UNCHANGED vars PROVE FALSE
  BY <1>7 DEF SweepExpired, RecomputePendingConversion, vars, orderVars
<1>8. NoOtherDraft(q)
  BY <1>4, <1>5, <1>6, <1>7 DEF Next
<1> QED BY <1>1, <1>2, <1>8 DEF Moves

(* A customer never has two drafts (uq_orders_one_draft_per_customer).     *)
THEOREM OneDraft == Spec => []OneDraftPerCustomer
<1>1. Init => OneDraftPerCustomer
  BY DEF Init, OneDraftPerCustomer
<1>2. OrderInv /\ OneDraftPerCustomer /\ [Next]_vars => OneDraftPerCustomer'
  <2> SUFFICES ASSUME OrderInv, OneDraftPerCustomer, [Next]_vars, NEW o \in Orders, NEW q \in Orders,
                      estado'[o] = "DRAFT", estado'[q] = "DRAFT", CustomerOf[o] = CustomerOf[q]
               PROVE  o = q
    BY DEF OneDraftPerCustomer
  <2>1. CASE estado[o] = "DRAFT" /\ estado[q] = "DRAFT"
    BY <2>1 DEF OneDraftPerCustomer
  <2>2. CASE estado[o] # "DRAFT"
    BY <2>2, DraftGuarded DEF NoOtherDraft
  <2>3. CASE estado[q] # "DRAFT"
    BY <2>3, DraftGuarded DEF NoOtherDraft
  <2> QED BY <2>1, <2>2, <2>3
<1> QED BY <1>1, <1>2, OrdersSafe, PTL DEF Spec

-----------------------------------------------------------------------------
(* An order without an exchange rate is sold in no way.                    *)

(* Supplier selection confirms a draft without looking at the exchange     *)
(* rate; what protects it is that only a confirmation, which does look,    *)
(* ever has the chat ask for suppliers.                                    *)
UnpricedInv ==
  /\ offered \in [Orders -> SUBSET Skus]
  /\ conversionPending \subseteq Orders
  /\ UnpricedNeverSold
  /\ \A o \in Orders : estado[o] = "NONE" => offered[o] = {}
  /\ \A o \in conversionPending : estado[o] = "DRAFT" => offered[o] = {}

LEMMA UnpricedInvNext ==
  ASSUME OrderInv, UnpricedInv, [Next]_vars
  PROVE  UnpricedInv'
<1> USE DEF UnpricedInv, UnpricedNeverSold
<1>1. ASSUME NEW o \in Orders, OrderStep(o) PROVE UnpricedInv'
  <2> USE DEF OrderInv, EstadoOK
  <2>1. CASE PersistFinalizedDraft(o)
    BY <2>1 DEF PersistFinalizedDraft
  <2>2. CASE CreateManualOrder(o)
    BY <2>2 DEF CreateManualOrder
  <2>3. CASE UpdateManualOrder(o) \/ RemoveDraftItem(o) \/ AddDraftItem(o)
    BY <2>3 DEF UpdateManualOrder, RemoveDraftItem, AddDraftItem
  <2>4. CASE TTLRunsOut(o) \/ ExpireReservations(o)
    BY <2>4 DEF TTLRunsOut, ExpireReservations, orderVars
  <2>5. ASSUME NEW withSuppliers, Confirm(o, withSuppliers) PROVE UnpricedInv'
    <3>1. o \notin conversionPending
      BY <2>5 DEF Confirm, ConfirmCaseA, ConfirmCaseB, ConfirmCaseC, MayConfirm
    <3>2. conversionPending' = conversionPending
      BY <2>5 DEF Confirm, ConfirmCaseA, ConfirmCaseB, ConfirmCaseC
    <3>3. MissingSkus(o) \subseteq Skus
      BY KindsAssumption DEF MissingSkus, Missing, Classified, LocalItems, RagItems, NewItem,
         OfOrder, ItemsOK, Item
    <3>4. /\ offered' \in [Orders -> SUBSET Skus]
          /\ \A q \in Orders \ {o} : offered'[q] = offered[q]
      BY <2>5, <3>3 DEF Confirm, ConfirmCaseA, ConfirmCaseB, ConfirmCaseC, OfferSuppliers
    <3>5. \E to \in {"CONFIRMED", "CANCELED"} : estado' = [estado EXCEPT ![o] = to]
      BY <2>5 DEF Confirm, ConfirmCaseA, ConfirmCaseB, ConfirmCaseC
    <3> QED BY <3>1, <3>2, <3>4, <3>5
  <2>6. CASE ConfirmSelection(o)
    <3>1. offered[o] # {}
      BY <2>6 DEF ConfirmSelection
    <3>2. /\ conversionPending' = conversionPending /\ offered' = offered
          /\ estado' = IF estado[o] = "DRAFT" THEN [estado EXCEPT ![o] = "CONFIRMED"] ELSE estado
      BY <2>6 DEF ConfirmSelection
    <3> QED BY <3>1, <3>2
  <2>7. CASE StartPicking(o) \/ CompletePicking(o) \/ DeliverOrder(o)
    BY <2>7 DEF StartPicking, CompletePicking, DeliverOrder, Advance
  <2>8. CASE CancelBeforePicking(o) \/ CancelLate(o)
    BY <2>8 DEF CancelBeforePicking, CancelLate, Cancel
  <2>9. CASE ModifyOrder(o)
    BY <2>9 DEF ModifyOrder
  <2> QED BY <1>1, <2>1, <2>2, <2>3, <2>4, <2>5, <2>6, <2>7, <2>8, <2>9 DEF OrderStep, Confirm
<1>2. ASSUME UNCHANGED << estado, offered, conversionPending >> PROVE UnpricedInv'
  BY <1>2
<1>3. ASSUME NEW p \in Suppliers, PurchaseStep(p) PROVE UnpricedInv'
  BY <1>3 DEF PurchaseStep, ToggleSupplier, SendPO, CancelPO, ReceivePO, orderVars
<1>4. ASSUME NEW s \in Skus, NEW n, AdjustStock(s, n) PROVE UnpricedInv'
  BY <1>4 DEF AdjustStock, orderVars
<1>5. CASE SweepExpired
  BY <1>5 DEF SweepExpired
<1>6. CASE RecomputePendingConversion
  BY <1>6 DEF RecomputePendingConversion
<1>7. CASE UNCHANGED vars
  BY <1>7 DEF vars, orderVars
<1> QED BY <1>1, <1>3, <1>4, <1>5, <1>6, <1>7 DEF Next

(* An order whose prices wait for an exchange rate is sold in no way.      *)
THEOREM Unpriced == Spec => []UnpricedNeverSold
<1>1. Init => UnpricedInv
  BY DEF Init, UnpricedInv, UnpricedNeverSold
<1>2. OrderInv /\ UnpricedInv /\ [Next]_vars => UnpricedInv'
  BY UnpricedInvNext
<1>3. UnpricedInv => UnpricedNeverSold
  BY DEF UnpricedInv
<1> QED BY <1>1, <1>2, <1>3, OrdersSafe, PTL DEF Spec

=============================================================================
