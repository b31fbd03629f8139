--------------------------- MODULE MCVnfDistribution ---------------------------
(***************************************************************************)
(* VnfDistribution for TLC: a few jobs, each of which is a thread.         *)
(***************************************************************************)
EXTENDS VnfDistribution

\* Nothing more is asked of a package once two threads were at work on it at once; once
\* a thread stopped half-way, requests are for its package only.
Quiet ==
  /\ contended = {}
  /\ \A j \in Jobs : job[j].pc \notin Idle => lost \subseteq {job[j].pkg}

=============================================================================
