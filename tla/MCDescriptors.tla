------------------------------ MODULE MCDescriptors ------------------------------
(***************************************************************************)
(* Descriptors for TLC: NSDs that name a VNF and a PNF in the ways the     *)
(* parser leaves them - by both names, by id, by descriptor_id alone.      *)
(***************************************************************************)
EXTENDS Descriptors, TLC

CONSTANTS s1, d1

VnfRef(d, i) == [kind |-> "vnf", descriptor_id |-> d, id |-> i]
PnfRef(d, i) == [kind |-> "pnf", descriptor_id |-> d, id |-> i]

MCArchives == {[key |-> s1, refs |-> {VnfRef(d1, d1), PnfRef(None, d1)}],
               [key |-> s1, refs |-> {PnfRef(d1, None)}],
               [key |-> None, refs |-> {}]}

Symmetry == Permutations(Workers) \cup Permutations(Nsds)
=============================================================================
