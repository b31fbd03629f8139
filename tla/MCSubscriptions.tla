----------------------------- MODULE MCSubscriptions -----------------------------
(* Subscriptions on one VNF package, one NSD and one PNFD. *)
EXTENDS Subscriptions, TLC

CONSTANTS v1, n1, p1, vd1, nd1, pd1

F(ids, types) == [ids |-> ids, states |-> {}, types |-> types]

\* By vnfdId, for changes only; by vnfPkgId; by nsdInfoId and pnfdId; and by two
\* identifiers that exclude each other.
MCFilters == {F({vd1}, {"change"}), F({v1}, {}), F({n1, pd1}, {}), F({n1, nd1}, {})}

\* The handlers are alike (SYMMETRY).
Alike == Permutations(Workers)

=============================================================================
