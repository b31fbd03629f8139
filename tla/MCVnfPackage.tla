------------------------------ MODULE MCVnfPackage ------------------------------
(***************************************************************************)
(* VnfPackage for TLC.  The configurations differ in the number of workers *)
(* and packages, in what a URI answers with, and in what may overlap.      *)
(***************************************************************************)
EXTENDS VnfPackage, TLC

\* The state without the history variable, which no action reads.
SansHistory == <<row, disk, zip, pc, req>>

\* For runs that check safety alone: no value of these sets is told from another.
Alike == Permutations(Pkgs) \cup Permutations(Vnfds) \cup Permutations(Workers)
=============================================================================
