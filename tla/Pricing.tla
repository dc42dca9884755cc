------------------------------ MODULE Pricing ------------------------------
(***************************************************************************)
(* What a line of an order costs: src/pricing, the chat and the form that  *)
(* feed it, and the recomputation of orders that waited for a rate.        *)
(*                                                                         *)
(* Every number is an integer.  Money in pesos is in cents; a percentage   *)
(* has two decimals of a point; a rate, and the price a supplier offers,   *)
(* has four decimals.  A fraction is out of Whole, and a base price before *)
(* its rounding is in Whole-ths of a cent.                                 *)
(***************************************************************************)
EXTENDS Integers, Sequences, Functions

CONSTANTS
    Cents,          \* cents of a peso, which is points of a whole: 100
    Currencies,     \* currency codes
    ARS, USD        \* the currency that needs no rate, and the one grids convert

ASSUME PricingAssumption ==
    /\ Cents \in Nat \ {0}
    /\ ARS \in Currencies /\ USD \in Currencies /\ ARS # USD

Whole == Cents * Cents

-----------------------------------------------------------------------------

(* Decimal.quantize with ROUND_HALF_UP: ties go away from zero.            *)
HalfUp(n, d) ==
    IF n >= 0 THEN (2 * n + d) \div (2 * d) ELSE -((2 * (-n) + d) \div (2 * d))

(* _as_fraction: beyond one it is percentage points.                       *)
AsFraction(points) ==
    IF points > Cents \/ points < -Cents THEN points ELSE Cents * points

(* compute_base, in cents.                                                 *)
ComputeBase(cost, margin) == HalfUp(cost * (Whole + margin), Whole)

(* compute_final: the list's discount, then the customer's own.            *)
ComputeFinal(base, list, particular) ==
    HalfUp(base * ((Whole - list) * (Whole - particular)), Whole * (Whole * Whole))

(* line_subtotal: a price in whole cents, extended by the quantity.        *)
LineSubtotal(price, quantity) == HalfUp(price * quantity, 1)

(* _resolve_rate.  The rates in the table are a function on its currencies. *)
HasRate(currency, rates) == currency = ARS \/ currency \in DOMAIN rates
RateToArs(currency, rates) == IF currency = ARS THEN Whole ELSE rates[currency]

-----------------------------------------------------------------------------

(* The lines to be priced: a product of the catalog at its cost, an offer  *)
(* of the index at its price, or a stored line at the base it has.         *)
CatalogLine == [source : {"LOCAL"}, cantidad : Nat \ {0}, cost : Nat, margin : Nat,
                currency : Currencies]
OfferLine == [source : {"RAG"}, cantidad : Nat \ {0}, price : Nat, currency : Currencies]
StoredLine == [source : {"STORED"}, cantidad : Nat \ {0}, base_ars : Nat, currency : Currencies]

Product == [cost : Nat, margin : Nat, moneda : Currencies]

(* _draft_pricing_lines: the chat's line of a product is in pesos.         *)
ChatLine(product, cantidad) ==
    [source |-> "LOCAL", cantidad |-> cantidad, cost |-> product.cost,
     margin |-> product.margin, currency |-> ARS]

(* _resolve_manual_pricing_lines: the form's is in the product's currency. *)
FormLine(product, cantidad) ==
    [source |-> "LOCAL", cantidad |-> cantidad, cost |-> product.cost,
     margin |-> product.margin, currency |-> product.moneda]

(* MissingRateError, unless persistence allows it.  A stored base is in    *)
(* pesos already.                                                          *)
LacksRate(line, rates) == line.source # "STORED" /\ ~HasRate(line.currency, rates)

(* _price_line up to the discounts.                                        *)
BasePrice(line, rates) ==
    CASE LacksRate(line, rates) -> 0
      [] line.source = "STORED" -> line.base_ars * Whole
      [] line.source = "RAG" /\ ~LacksRate(line, rates) ->
           HalfUp(line.price * RateToArs(line.currency, rates), Cents * Whole) * Whole
      [] line.source = "LOCAL" /\ ~LacksRate(line, rates) ->
           ComputeBase(line.cost, AsFraction(line.margin)) * RateToArs(line.currency, rates)

(* _price_line.  What is kept of the original price matters for offers.    *)
PriceLine(line, rates, list, particular) ==
    [source |-> line.source, cantidad |-> line.cantidad, moneda |-> line.currency,
     original |-> IF line.source = "RAG" THEN line.price ELSE 0,
     base_ars |-> HalfUp(BasePrice(line, rates), Whole),
     final_ars |-> ComputeFinal(BasePrice(line, rates), AsFraction(list), AsFraction(particular))]

MissingRate(lines, rates) == \E k \in DOMAIN lines : LacksRate(lines[k], rates)

(* The totals of an order, of its priced lines or of the rows it stored.   *)
Totals(items) ==
    [subtotal |-> SumFunction([k \in DOMAIN items |->
                                 LineSubtotal(items[k].base_ars, items[k].cantidad)]),
     total |-> SumFunction([k \in DOMAIN items |->
                              LineSubtotal(items[k].final_ars, items[k].cantidad)])]

(* _price_draft: the order the chat stores.  Without a rate it is pending, *)
(* with its lines at zero and no totals; nobody's own discount applies.    *)
PriceDraft(lines, rates, list) ==
    [items |-> [k \in DOMAIN lines |-> PriceLine(lines[k], rates, list, 0)],
     conversion_pending |-> MissingRate(lines, rates)]

(* _price_manual_lines: the form refuses what it cannot price.             *)
ManualOrderRefused(lines, rates) == MissingRate(lines, rates)

(* _pricing_lines: a stored offer is priced again from its original price, *)
(* any other line from its base.                                           *)
PricingLine(item) ==
    IF item.source = "RAG"
    THEN [source |-> "RAG", cantidad |-> item.cantidad, price |-> item.original,
          currency |-> item.moneda]
    ELSE [source |-> "STORED", cantidad |-> item.cantidad, base_ars |-> item.base_ars,
          currency |-> item.moneda]

(* What the recomputation overwrites of a stored line: its two prices.     *)
Repriced(item, priced) ==
    [source |-> item.source, cantidad |-> item.cantidad, moneda |-> item.moneda,
     original |-> item.original,
     base_ars |-> priced.base_ars, final_ars |-> priced.final_ars]

(* recompute_pending_conversion, for one order.                            *)
Recompute(order, rates, list) ==
    LET lines == [k \in DOMAIN order.items |-> PricingLine(order.items[k])]
    IN  IF ~order.conversion_pending \/ MissingRate(lines, rates) THEN order
        ELSE [items |-> [k \in DOMAIN lines |->
                Repriced(order.items[k], PriceLine(lines[k], rates, list, 0))],
              conversion_pending |-> FALSE]

(* _list_price_ars of the catalog grid and of the product search: dollars  *)
(* at their rate, anything else, and dollars without a rate, as they are.  *)
ListPriceArs(product, rates) ==
    HalfUp(ComputeBase(product.cost, AsFraction(product.margin))
             * (IF product.moneda = USD /\ USD \in DOMAIN rates THEN rates[USD] ELSE Whole),
           Whole)

=============================================================================
