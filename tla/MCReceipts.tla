----------------------------- MODULE MCReceipts -----------------------------
(***************************************************************************)
(* Two suppliers with articles of one code, which one of them spells in    *)
(* another way; an index that is rebuilt with an ambiguous code; a document *)
(* with one code on two pages, and one with a line that receives nothing.  *)
(***************************************************************************)
EXTENDS Receipts, TLC

CONSTANTS s1, s2, noSupplier, spaced, hyphened, bolt, noCode, nut, noRow

ByGap == (spaced :> 1) @@ (hyphened :> 2) @@ (bolt :> 3)
ByHyphen == (spaced :> 1) @@ (hyphened :> 1) @@ (bolt :> 3) @@ (nut :> 4)

Of(code, qty) == [code |-> code, desc |-> nut, qty |-> qty]

Twice == << <<Of(spaced, 1)>>, <<Of(spaced, 2)>> >>
Mixed == << <<Of(bolt, 1), Of(noCode, 0)>> >>

TwoDocuments == <<Twice, Mixed>>

Article(n, s, code) == [node |-> n, prov |-> s, code |-> code]
Before == {Article(1, s1, hyphened), Article(2, s2, spaced)}
After == {Article(2, s2, spaced), Article(3, s1, bolt), Article(4, s1, bolt)}
OneRebuild == <<Before, After>>

=============================================================================
