---------------------------- MODULE PackageCatalogue ----------------------------
(***************************************************************************)
(* What the VNF package resources of the catalogue promise to clients that *)
(* take turns at a package: it is created empty, takes the content of one  *)
(* VNFD, may lose it again, and is deleted for ever.  Every operation is   *)
(* one atomic step.  VnfPackage is shown to implement this specification   *)
(* where TakeTurns holds of its handlers.                                  *)
(***************************************************************************)

CONSTANTS Pkgs,    \* identifiers of VNF packages
          Vnfds,   \* identifiers of VNFDs, chosen by the VNF provider
          Unborn,  \* content of an identifier not handed out yet
          Empty,   \* content of a package with no on-boarded VNFD
          Gone     \* content of a deleted package

VARIABLE content

Init == content = [p \in Pkgs |-> Unborn]

Create(p) ==
  /\ content[p] = Unborn
  /\ content' = [content EXCEPT ![p] = Empty]

\* A VNFD identifies one package: no two packages hold the same one.
Onboard(p, v) ==
  /\ content[p] = Empty
  /\ \A q \in Pkgs : content[q] # v
  /\ content' = [content EXCEPT ![p] = v]

\* A new upload, or a refused one, takes the content away.
Withdraw(p) ==
  /\ content[p] \in Vnfds
  /\ content' = [content EXCEPT ![p] = Empty]

Delete(p) ==
  /\ content[p] \in Vnfds \cup {Empty}
  /\ content' = [content EXCEPT ![p] = Gone]

Next == \E p \in Pkgs : \/ Create(p)
                        \/ \E v \in Vnfds : Onboard(p, v)
                        \/ Withdraw(p)
                        \/ Delete(p)

Spec == Init /\ [][Next]_content

=============================================================================
