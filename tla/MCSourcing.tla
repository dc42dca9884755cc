---------------------------- MODULE MCSourcing ----------------------------
(***************************************************************************)
(* Instances in which what is missing is bought from suppliers.  The shelf *)
(* starts empty, so that every LOCAL line is a gap until goods arrive.     *)
(***************************************************************************)
EXTENDS OrderLifecycle, TLC

CONSTANTS o1, o2, c1, c2, loc, rag, p1, p2, none

OneCustomer == [o \in {o1, o2} |-> c1]

EmptyShelf == [s \in Skus |-> 0]

LocalLine == [sku |-> loc, source |-> "LOCAL", supplier |-> none]
RagLine == [sku |-> rag, source |-> "RAG", supplier |-> p1]

LocalKinds == {LocalLine}
LocalAndRagKinds == {LocalLine, RagLine}

AnySupplier == [s \in Skus |-> Suppliers]

Priced == {FALSE}

OrderSymmetry == Permutations({o1, o2})
SupplierSymmetry == Permutations({o1, o2}) \cup Permutations({p1, p2})

=============================================================================
