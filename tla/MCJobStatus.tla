------------------------------ MODULE MCJobStatus ------------------------------
(***************************************************************************)
(* JobStatus for TLC: a thread and two clients at any time.                *)
(***************************************************************************)
EXTENDS JobStatus, FiniteSets, TLC

\* The clients are alike; no property of the run is about time.
Alike == Permutations(Clients)

Active == {w \in Callers : ~At(w, "idle")}

\* Bound: no state with more statuses and calls than these is followed further.
FewReports == Len(statuses) + Cardinality(Active) <= 4

=============================================================================
