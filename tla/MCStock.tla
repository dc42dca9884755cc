------------------------------ MODULE MCStock ------------------------------
(***************************************************************************)
(* Two customers' orders contend for the stock of one local SKU: quotes,   *)
(* confirmations, cancellations, expiry and stock counts, no suppliers.    *)
(***************************************************************************)
EXTENDS OrderLifecycle, Pricing, TLC

CONSTANTS o1, o2, s1, none

MCCustomerOf == [o \in {o1, o2} |-> o]
MCOpeningStock == [s \in {s1} |-> 2]
MCKinds == { [sku |-> s1, source |-> "LOCAL", supplier |-> none] }
MCSuppliersOf == [s \in {s1} |-> {}]
MCPending == BOOLEAN

(* Amounts on both sides of a rounding, of a point and of a whole, and     *)
(* rates below and above one peso.                                         *)
SampleProducts == [cost : {0, 1, 25}, margin : {0, 3, 10, 15}, moneda : Currencies]
SampleOffers == [source : {"RAG"}, cantidad : {1, 3}, price : {0, 149, 150}, currency : Currencies]
SampleRates == [{} -> {0}] \cup [{USD} -> {50, 125, 201}]
SampleLines ==
    SampleOffers \cup {ChatLine(p, 2) : p \in SampleProducts}
                 \cup {FormLine(p, 3) : p \in SampleProducts}

(* What Pricing_proofs proves of every amount, read by TLC on the samples. *)
ASSUME PricesOnSamples ==
    /\ \A line \in SampleLines, rates \in SampleRates, list, own \in {0, 1, 10, 15} :
         LET priced == PriceLine(line, rates, list, own)
         IN  priced.final_ars \in 0 .. priced.base_ars
    /\ \A p \in SampleProducts, rates \in SampleRates :
         LacksRate(FormLine(p, 1), rates)
           \/ PriceLine(FormLine(p, 1), rates, 0, 0).base_ars = ListPriceArs(p, rates)
    /\ \E p \in SampleProducts, rates \in SampleRates :
         /\ ~LacksRate(FormLine(p, 1), rates)
         /\ PriceLine(ChatLine(p, 1), rates, 0, 0).base_ars
              < PriceLine(FormLine(p, 1), rates, 0, 0).base_ars
    /\ \A product \in SampleProducts, offer \in SampleOffers, before, later \in SampleRates :
         LET lines == <<ChatLine(product, 2), offer>>
         IN  MissingRate(lines, before) /\ ~MissingRate(lines, later)
               => LET caughtUp == Recompute(PriceDraft(lines, before, 15), later, 15)
                  IN  /\ caughtUp = PriceDraft(lines, later, 15)
                      /\ Totals(caughtUp.items) = Totals(PriceDraft(lines, later, 15).items)

Symmetry == Permutations({o1, o2})

=============================================================================
