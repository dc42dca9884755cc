--------------------------- MODULE Pricing_proofs ---------------------------
(***************************************************************************)
(* What the prices of an order promise, for every amount, percentage and   *)
(* rate.                                                                   *)
(***************************************************************************)
EXTENDS Pricing, TLAPS

(* The quotient of the integers.                                           *)
LEMMA Quotient ==
  ASSUME NEW a \in Int, NEW b \in Int, b > 0
  PROVE  (a \div b) \in Int /\ b * (a \div b) <= a /\ a < b * (a \div b) + b
  OBVIOUS

(* HalfUp is the nearest integer to a quotient, above it on a tie.         *)
LEMMA HalfUpIsNearest ==
  ASSUME NEW n \in Nat, NEW d \in Int, d > 0
  PROVE  /\ HalfUp(n, d) \in Nat
         /\ (2 * d) * HalfUp(n, d) <= 2 * n + d
         /\ 2 * n + d < (2 * d) * HalfUp(n, d) + 2 * d
<1> DEFINE a == 2 * n + d
           b == 2 * d
<1>1. a \in Int /\ b \in Int /\ b > 0 /\ a >= 0
      OBVIOUS
<1>2. HalfUp(n, d) = a \div b
      BY DEF HalfUp
<1> HIDE DEF a, b
<1>3. (a \div b) \in Int /\ b * (a \div b) <= a /\ a < b * (a \div b) + b
      BY <1>1, Quotient
<1>4. a \div b >= 0
      BY <1>1, <1>3
<1> QED BY <1>1, <1>2, <1>3, <1>4 DEF a, b

(* A rounded amount is an amount.                                          *)
LEMMA RoundedIsAmount == \A n, d \in Nat : d > 0 => HalfUp(n, d) \in Nat
<1> SUFFICES ASSUME NEW n \in Nat, NEW d \in Nat, d > 0 PROVE HalfUp(n, d) \in Nat
    OBVIOUS
<1> QED BY HalfUpIsNearest

(* A product keeps an order of its factors.                                *)
LEMMA ProductMonotone ==
  ASSUME NEW a \in Int, NEW b \in Int, NEW c \in Nat, a <= b
  PROVE  a * c <= b * c /\ c * a <= c * b
<1>1. (b - a) * c >= 0
      OBVIOUS
<1>2. (b - a) * c = b * c - a * c /\ c * a = a * c /\ c * b = b * c
      OBVIOUS
<1>3. a * c \in Int /\ b * c \in Int
      OBVIOUS
<1> QED BY <1>1, <1>2, <1>3

(* Rounding keeps the order of two quotients n/d and m/e.                  *)
LEMMA HalfUpMonotone ==
  ASSUME NEW n \in Nat, NEW d \in Nat, d > 0, NEW m \in Nat, NEW e \in Nat, e > 0,
         n * e <= m * d
  PROVE  HalfUp(n, d) <= HalfUp(m, e)
<1> DEFINE q == HalfUp(n, d)
           r == HalfUp(m, e)
<1>a. q \in Nat /\ (2 * d) * q <= 2 * n + d
      BY HalfUpIsNearest
<1>b. r \in Nat /\ 2 * m + e < (2 * e) * r + 2 * e
      BY HalfUpIsNearest
<1>1. /\ q \in Nat /\ (2 * d) * q <= 2 * n + d
      /\ r \in Nat /\ 2 * m + e < (2 * e) * r + 2 * e
      BY <1>a, <1>b
<1> HIDE DEF q, r
<1>2. SUFFICES ASSUME r + 1 <= q PROVE FALSE
      BY <1>1 DEF q, r
<1>3. (2 * d) * (r + 1) <= (2 * d) * q
      BY <1>1, <1>2, ProductMonotone
<1>4. (2 * d) * (r + 1) <= 2 * n + d
      BY <1>1, <1>3
<1>5. ((2 * d) * (r + 1)) * e <= (2 * n + d) * e
      BY <1>1, <1>4, ProductMonotone
<1>6. (2 * m + e) + 1 <= (2 * e) * (r + 1)
      BY <1>1
<1>7. ((2 * m + e) + 1) * d <= ((2 * e) * (r + 1)) * d
      BY <1>1, <1>6, ProductMonotone
<1>8. ((2 * e) * (r + 1)) * d = ((2 * d) * (r + 1)) * e
      BY <1>1
<1>9. (2 * n + d) * e = 2 * (n * e) + d * e /\ ((2 * m + e) + 1) * d = 2 * (m * d) + d * e + d
      OBVIOUS
<1>10. n * e \in Int /\ m * d \in Int /\ d * e \in Int
       OBVIOUS
<1> QED BY <1>1, <1>5, <1>7, <1>8, <1>9, <1>10

(* Whole is positive.                                                      *)
LEMMA WholeIsPositive ==
  Whole \in Nat /\ Whole > 0 /\ Whole * Whole \in Nat /\ Whole * Whole > 0
  /\ Whole * (Whole * Whole) \in Nat /\ Whole * (Whole * Whole) > 0
  /\ Cents * Whole \in Nat /\ Cents * Whole > 0 /\ Cents <= Whole
<1>1. Whole \in Nat /\ Whole > 0 /\ Cents <= Whole
      BY PricingAssumption DEF Whole
<1>2. \A x, y \in Nat : x > 0 /\ y > 0 => x * y \in Nat /\ x * y > 0
      OBVIOUS
<1> QED BY <1>1, <1>2, PricingAssumption

(* An amount that has no fraction stays what it is.                        *)
LEMMA RoundingNothing ==
  ASSUME NEW n \in Nat, NEW d \in Nat, d > 0
  PROVE  HalfUp(n * d, d) = n
<1> DEFINE q == HalfUp(n * d, d)
<1>1. n * d \in Nat /\ d * n = n * d
      OBVIOUS
<1>2. q \in Nat /\ (2 * d) * q <= 2 * (n * d) + d /\ 2 * (n * d) + d < (2 * d) * q + 2 * d
      BY <1>1, HalfUpIsNearest
<1> HIDE DEF q
<1>3. (2 * d) * q = 2 * (q * d) /\ q * d \in Int
      BY <1>2
<1>4. q <= n
  <2>1. SUFFICES ASSUME n + 1 <= q PROVE FALSE
        BY <1>2
  <2>2. (n + 1) * d <= q * d /\ (n + 1) * d = n * d + d
        BY <1>2, <2>1, ProductMonotone
  <2> QED BY <1>1, <1>2, <1>3, <2>2
<1>5. n <= q
  <2>1. SUFFICES ASSUME q + 1 <= n PROVE FALSE
        BY <1>2
  <2>2. (q + 1) * d <= n * d /\ (q + 1) * d = q * d + d
        BY <1>2, <2>1, ProductMonotone
  <2> QED BY <1>1, <1>2, <1>3, <2>2
<1> QED BY <1>2, <1>4, <1>5 DEF q

-----------------------------------------------------------------------------

(* A line that can be priced, of any of the three kinds.                   *)
Line == CatalogLine \cup OfferLine \cup StoredLine

(* The rates some currencies have.                                         *)
Rates == UNION {[known -> Nat] : known \in SUBSET Currencies}

(* A percentage a discount may be: up to a hundred points.                 *)
Discounts == 0 .. Whole

(* A rate is a number, of a currency that has one.                         *)
LEMMA RateIsNumber ==
  ASSUME NEW rates \in Rates, NEW c \in Currencies, HasRate(c, rates)
  PROVE  RateToArs(c, rates) \in Nat
  BY WholeIsPositive DEF Rates, HasRate, RateToArs

(* A discount is a part of the whole, whichever way it was typed.          *)
LEMMA DiscountIsFraction ==
  ASSUME NEW points \in Discounts
  PROVE  AsFraction(points) \in 0 .. Whole
<1>1. CASE points > Cents
      BY <1>1, PricingAssumption, WholeIsPositive DEF AsFraction, Discounts
<1>2. CASE points <= Cents
  <2>1. AsFraction(points) = Cents * points
        BY <1>2, PricingAssumption, WholeIsPositive DEF AsFraction, Discounts
  <2>2. points \in Nat /\ Cents \in Nat
        BY PricingAssumption, WholeIsPositive DEF Discounts
  <2>3. Cents * points <= Cents * Cents
        BY <1>2, <2>2, ProductMonotone
  <2> QED BY <2>1, <2>2, <2>3 DEF Whole
<1> QED BY <1>1, <1>2, PricingAssumption, WholeIsPositive DEF Discounts

(* The base of a line is an amount, with or without its rate.              *)
LEMMA BaseIsAmount ==
  ASSUME NEW line \in Line, NEW rates \in Rates
  PROVE  BasePrice(line, rates) \in Nat
<1>1. CASE LacksRate(line, rates)
      BY <1>1 DEF BasePrice, LacksRate
<1>2. CASE line \in StoredLine
  <2>1. ~LacksRate(line, rates) /\ line.source = "STORED" /\ line.base_ars \in Nat
        BY <1>2 DEF StoredLine, LacksRate
  <2> QED BY <2>1, WholeIsPositive DEF BasePrice
<1>3. CASE line \in OfferLine /\ ~LacksRate(line, rates)
  <2>1. line.source = "RAG" /\ line.price \in Nat /\ line.currency \in Currencies
        BY <1>3 DEF OfferLine
  <2>2. RateToArs(line.currency, rates) \in Nat
        BY <1>3, <2>1, RateIsNumber DEF LacksRate
  <2>3. HalfUp(line.price * RateToArs(line.currency, rates), Cents * Whole) \in Nat
    <3>1. line.price * RateToArs(line.currency, rates) \in Nat
          BY <2>1, <2>2
    <3> QED BY <3>1, WholeIsPositive, RoundedIsAmount
  <2>4. BasePrice(line, rates)
          = HalfUp(line.price * RateToArs(line.currency, rates), Cents * Whole) * Whole
        BY <1>3, <2>1 DEF BasePrice
  <2> QED BY <2>3, <2>4, WholeIsPositive
<1>4. CASE line \in CatalogLine /\ ~LacksRate(line, rates)
  <2>1. /\ line.source = "LOCAL" /\ line.cost \in Nat /\ line.margin \in Nat
        /\ line.currency \in Currencies
        BY <1>4 DEF CatalogLine
  <2>2. RateToArs(line.currency, rates) \in Nat
        BY <1>4, <2>1, RateIsNumber DEF LacksRate
  <2>3. AsFraction(line.margin) \in Nat
        BY <2>1, PricingAssumption DEF AsFraction
  <2>4. ComputeBase(line.cost, AsFraction(line.margin)) \in Nat
    <3>1. line.cost * (Whole + AsFraction(line.margin)) \in Nat
          BY <2>1, <2>3, WholeIsPositive
    <3> QED BY <3>1, WholeIsPositive, RoundedIsAmount DEF ComputeBase
  <2>5. BasePrice(line, rates)
          = ComputeBase(line.cost, AsFraction(line.margin)) * RateToArs(line.currency, rates)
        BY <1>4, <2>1 DEF BasePrice
  <2> QED BY <2>2, <2>4, <2>5
<1> QED BY <1>1, <1>2, <1>3, <1>4 DEF Line

(* A line is never dearer for its discounts: whatever the list and the     *)
(* customer have, as fractions or as points, the final price is between    *)
(* nothing and the base, although each is rounded by itself.               *)
THEOREM DiscountsNeverRaise ==
  ASSUME NEW line \in Line, NEW rates \in Rates,
         NEW list \in Discounts, NEW particular \in Discounts
  PROVE  LET priced == PriceLine(line, rates, list, particular)
         IN  priced.final_ars \in Nat /\ priced.final_ars <= priced.base_ars
<1> DEFINE n == BasePrice(line, rates)
           k == (Whole - AsFraction(list)) * (Whole - AsFraction(particular))
<1>1. n \in Nat
      BY BaseIsAmount
<1>2. AsFraction(list) \in 0 .. Whole /\ AsFraction(particular) \in 0 .. Whole
      BY DiscountIsFraction
<1>3. k \in Nat /\ k <= Whole * Whole
  <2> DEFINE x == Whole - AsFraction(list)
             y == Whole - AsFraction(particular)
  <2>1. x \in Nat /\ y \in Nat /\ x <= Whole /\ y <= Whole
        BY <1>2, WholeIsPositive
  <2> HIDE DEF x, y
  <2>2. x * y <= Whole * y /\ Whole * y <= Whole * Whole
        BY <2>1, WholeIsPositive, ProductMonotone
  <2>3. x * y \in Nat /\ Whole * y \in Nat
        BY <2>1, WholeIsPositive
  <2> QED BY <2>2, <2>3, WholeIsPositive DEF x, y
<1> HIDE DEF n, k
<1>4. n * k \in Nat
      BY <1>1, <1>3
<1>5. (n * k) * Whole <= n * (Whole * (Whole * Whole))
  <2> DEFINE ww == Whole * Whole
  <2>1. ww \in Nat
        BY WholeIsPositive
  <2>2. n * k <= n * ww
        BY <1>1, <1>3, <2>1, ProductMonotone
  <2> HIDE DEF ww
  <2>3. (n * k) * Whole <= (n * ww) * Whole
        BY <1>1, <1>4, <2>1, <2>2, WholeIsPositive, ProductMonotone
  <2>4. (n * ww) * Whole = n * (Whole * ww)
        BY <1>1, <2>1, WholeIsPositive
  <2> QED BY <2>3, <2>4 DEF ww
<1>6. HalfUp(n * k, Whole * (Whole * Whole)) <= HalfUp(n, Whole)
      BY <1>1, <1>4, <1>5, WholeIsPositive, HalfUpMonotone
<1>7. HalfUp(n * k, Whole * (Whole * Whole)) \in Nat
      BY <1>4, WholeIsPositive, RoundedIsAmount
<1> QED BY <1>6, <1>7 DEF PriceLine, ComputeFinal, n, k

-----------------------------------------------------------------------------

(* What a product costs in its own currency, as every path computes it.    *)
OwnBase(product) == ComputeBase(product.cost, AsFraction(product.margin))

(* It is an amount.                                                        *)
LEMMA OwnBaseIsAmount ==
  ASSUME NEW product \in Product
  PROVE  OwnBase(product) \in Nat
<1>1. product.cost \in Nat /\ product.margin \in Nat
      BY DEF Product
<1>2. AsFraction(product.margin) \in Nat
      BY <1>1, PricingAssumption DEF AsFraction
<1>3. product.cost * (Whole + AsFraction(product.margin)) \in Nat
      BY <1>1, <1>2, WholeIsPositive
<1> QED BY <1>3, WholeIsPositive, RoundedIsAmount DEF OwnBase, ComputeBase

(* The form sells a product, in pesos or in dollars that have a rate, at   *)
(* the price the grids show for it, before the discounts.                  *)
THEOREM FormSellsAtTheListPrice ==
  ASSUME NEW product \in Product, product.moneda \in {ARS, USD}, NEW rates \in Rates,
         NEW cantidad, NEW list, NEW particular,
         ~LacksRate(FormLine(product, cantidad), rates)
  PROVE  PriceLine(FormLine(product, cantidad), rates, list, particular).base_ars
           = ListPriceArs(product, rates)
<1> DEFINE line == FormLine(product, cantidad)
<1>1. /\ line.source = "LOCAL" /\ line.currency = product.moneda
      /\ line.cost = product.cost /\ line.margin = product.margin
      BY DEF FormLine
<1>2. BasePrice(line, rates) = OwnBase(product) * RateToArs(product.moneda, rates)
      BY <1>1 DEF BasePrice, OwnBase
<1>3. RateToArs(product.moneda, rates)
        = IF product.moneda = USD /\ USD \in DOMAIN rates THEN rates[USD] ELSE Whole
      BY <1>1, PricingAssumption DEF LacksRate, HasRate, RateToArs
<1> QED BY <1>2, <1>3 DEF PriceLine, ListPriceArs, OwnBase

(* The chat sells a product of another currency below the form's price as  *)
(* soon as that currency is worth two pesos: its line says pesos, so the   *)
(* cost in dollars is charged as if it were in pesos.                      *)
THEOREM ChatUndercharges ==
  ASSUME NEW product \in Product, product.moneda # ARS, OwnBase(product) > 0,
         NEW rates \in Rates, product.moneda \in DOMAIN rates,
         rates[product.moneda] >= 2 * Whole,
         NEW cantidad, NEW list, NEW particular
  PROVE  PriceLine(ChatLine(product, cantidad), rates, list, particular).base_ars
           < PriceLine(FormLine(product, cantidad), rates, list, particular).base_ars
<1> DEFINE chat == ChatLine(product, cantidad)
           form == FormLine(product, cantidad)
           own == OwnBase(product)
           rate == rates[product.moneda]
<1>1. own \in Nat /\ own > 0 /\ rate \in Nat /\ rate >= 2 * Whole
      BY OwnBaseIsAmount DEF Rates
<1>2. BasePrice(chat, rates) = own * Whole
  <2>1. /\ chat.source = "LOCAL" /\ chat.currency = ARS
        /\ chat.cost = product.cost /\ chat.margin = product.margin
        BY DEF ChatLine
  <2>2. ~LacksRate(chat, rates) /\ RateToArs(ARS, rates) = Whole
        BY <2>1 DEF LacksRate, HasRate, RateToArs
  <2> QED BY <2>1, <2>2 DEF BasePrice, OwnBase
<1>3. BasePrice(form, rates) = own * rate
  <2>1. /\ form.source = "LOCAL" /\ form.currency = product.moneda
        /\ form.cost = product.cost /\ form.margin = product.margin
        BY DEF FormLine
  <2>2. ~LacksRate(form, rates) /\ RateToArs(product.moneda, rates) = rate
        BY <2>1 DEF LacksRate, HasRate, RateToArs
  <2> QED BY <2>1, <2>2 DEF BasePrice, OwnBase
<1> HIDE DEF own, rate
<1>4. HalfUp(own * Whole, Whole) = own /\ HalfUp((2 * own) * Whole, Whole) = 2 * own
  <2>1. \A m \in Nat : HalfUp(m * Whole, Whole) = m
        BY WholeIsPositive, RoundingNothing
  <2>2. 2 * own \in Nat
        BY <1>1
  <2> QED BY <1>1, <2>1, <2>2
<1>5. HalfUp((2 * own) * Whole, Whole) <= HalfUp(own * rate, Whole)
  <2>1. own * (2 * Whole) <= own * rate
        BY <1>1, WholeIsPositive, ProductMonotone
  <2>2. own * (2 * Whole) = (2 * own) * Whole /\ (2 * own) * Whole \in Nat /\ own * rate \in Nat
        BY <1>1, WholeIsPositive
  <2>3. ((2 * own) * Whole) * Whole <= (own * rate) * Whole
        BY <2>1, <2>2, WholeIsPositive, ProductMonotone
  <2> QED BY <2>2, <2>3, WholeIsPositive, HalfUpMonotone
<1>6. HalfUp(own * rate, Whole) \in Nat
  <2>1. own * rate \in Nat
        BY <1>1
  <2> QED BY <2>1, WholeIsPositive, RoundedIsAmount
<1> QED BY <1>1, <1>2, <1>3, <1>4, <1>5, <1>6 DEF PriceLine

-----------------------------------------------------------------------------

(* The lines the chat prices: products in pesos, offers in any currency.   *)
ChatOrderLine == {line \in CatalogLine : line.currency = ARS} \cup OfferLine

(* What a chat line stored is priced again as the line itself would be.    *)
LEMMA StoredLineKeepsItsPrice ==
  ASSUME NEW line \in ChatOrderLine, NEW rates \in Rates, NEW later \in Rates, NEW list
  PROVE  LET stored == PricingLine(PriceLine(line, rates, list, 0))
         IN  /\ LacksRate(stored, later) <=> LacksRate(line, later)
             /\ BasePrice(stored, later) = BasePrice(line, later)
<1> DEFINE item == PriceLine(line, rates, list, 0)
           stored == PricingLine(item)
<1>1. CASE line \in OfferLine
  <2>1. /\ item.source = "RAG" /\ item.cantidad = line.cantidad /\ item.original = line.price
        /\ item.moneda = line.currency
        BY <1>1 DEF OfferLine, PriceLine
  <2>2. stored = [source |-> "RAG", cantidad |-> line.cantidad, price |-> line.price,
                  currency |-> line.currency]
        BY <2>1 DEF PricingLine
  <2>3. stored = line
        BY <1>1, <2>2 DEF OfferLine
  <2> QED BY <2>3
<1>2. CASE line \in CatalogLine /\ line.currency = ARS
  <2> DEFINE own == ComputeBase(line.cost, AsFraction(line.margin))
  <2>1. /\ line.source = "LOCAL" /\ line.cost \in Nat /\ line.margin \in Nat
        BY <1>2 DEF CatalogLine
  <2>2. own \in Nat
    <3>1. [cost |-> line.cost, margin |-> line.margin, moneda |-> ARS] \in Product
          BY <2>1, PricingAssumption DEF Product
    <3> QED BY <3>1, OwnBaseIsAmount DEF OwnBase
  <2>3. \A r : ~LacksRate(line, r) /\ BasePrice(line, r) = own * Whole
        BY <1>2, <2>1 DEF LacksRate, HasRate, BasePrice, RateToArs
  <2>4. item.source = "LOCAL" /\ item.base_ars = HalfUp(own * Whole, Whole)
        BY <2>1, <2>3 DEF PriceLine
  <2> HIDE DEF own
  <2>5. HalfUp(own * Whole, Whole) = own
        BY <2>2, WholeIsPositive, RoundingNothing
  <2>6. stored.source = "STORED" /\ stored.base_ars = own
        BY <2>4, <2>5 DEF PricingLine
  <2>7. ~LacksRate(stored, later) /\ BasePrice(stored, later) = own * Whole
        BY <2>6 DEF LacksRate, BasePrice
  <2> QED BY <2>3, <2>7
<1> QED BY <1>1, <1>2 DEF ChatOrderLine

(* Between two pricings of one line only the two prices can differ.        *)
LEMMA RepricingReplacesPrices ==
  ASSUME NEW line, NEW rates, NEW later, NEW list
  PROVE  LET direct == PriceLine(line, later, list, 0)
         IN  Repriced(PriceLine(line, rates, list, 0), direct) = direct
BY DEF PriceLine, Repriced

(* An order that waited for a rate ends at exactly the prices it would     *)
(* have been quoted had the rate been there, offers and products alike,    *)
(* whatever rates were there when it was quoted.                           *)
THEOREM PendingOrderCatchesUp ==
  ASSUME NEW lines \in Seq(ChatOrderLine), NEW rates \in Rates, NEW later \in Rates, NEW list,
         MissingRate(lines, rates), ~MissingRate(lines, later)
  PROVE  Recompute(PriceDraft(lines, rates, list), later, list) = PriceDraft(lines, later, list)
<1> DEFINE order == PriceDraft(lines, rates, list)
           again == [k \in DOMAIN order.items |-> PricingLine(order.items[k])]
<1>1. /\ DOMAIN order.items = DOMAIN lines
      /\ \A k \in DOMAIN lines : order.items[k] = PriceLine(lines[k], rates, list, 0)
      /\ order.conversion_pending
      BY DEF PriceDraft
<1>2. \A k \in DOMAIN lines : lines[k] \in ChatOrderLine
      OBVIOUS
<1>3. \A k \in DOMAIN lines :
        /\ LacksRate(again[k], later) <=> LacksRate(lines[k], later)
        /\ BasePrice(again[k], later) = BasePrice(lines[k], later)
      BY <1>1, <1>2, StoredLineKeepsItsPrice
<1>4. ~MissingRate(again, later)
      BY <1>1, <1>3 DEF MissingRate
<1>5. \A k \in DOMAIN lines :
        Repriced(order.items[k], PriceLine(again[k], later, list, 0))
          = PriceLine(lines[k], later, list, 0)
  <2> TAKE k \in DOMAIN lines
  <2> DEFINE repriced == PriceLine(again[k], later, list, 0)
             direct == PriceLine(lines[k], later, list, 0)
  <2>1. BasePrice(again[k], later) = BasePrice(lines[k], later)
        BY <1>3
  <2>2. order.items[k] = PriceLine(lines[k], rates, list, 0)
        BY <1>1
  <2> HIDE DEF again, order
  <2>3. repriced.base_ars = direct.base_ars /\ repriced.final_ars = direct.final_ars
        BY <2>1 DEF PriceLine
  <2>4. Repriced(PriceLine(lines[k], rates, list, 0), direct) = direct
        BY RepricingReplacesPrices DEF direct
  <2> HIDE DEF repriced, direct
  <2>5. Repriced(order.items[k], repriced) = Repriced(order.items[k], direct)
        BY <2>3 DEF Repriced
  <2> QED BY <2>2, <2>4, <2>5 DEF repriced, direct
<1>6. Recompute(order, later, list)
        = [items |-> [k \in DOMAIN again |->
             Repriced(order.items[k], PriceLine(again[k], later, list, 0))],
           conversion_pending |-> FALSE]
      BY <1>1, <1>4 DEF Recompute
<1>7. PriceDraft(lines, later, list)
        = [items |-> [k \in DOMAIN lines |-> PriceLine(lines[k], later, list, 0)],
           conversion_pending |-> FALSE]
  <2>1. MissingRate(lines, later) = FALSE
        BY DEF MissingRate
  <2> QED BY <2>1 DEF PriceDraft
<1> HIDE DEF order
<1>8. DOMAIN again = DOMAIN lines
      BY <1>1
<1> HIDE DEF again
<1> QED BY <1>5, <1>6, <1>7, <1>8 DEF order

=============================================================================
