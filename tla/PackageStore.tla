------------------------------ MODULE PackageStore ------------------------------
(***************************************************************************)
(* What the handlers of VNF packages share: the table CATALOG_VNFPACKAGE   *)
(* and the directory tree CATALOG_ROOT_PATH with a directory per package.  *)
(* The SOL005 handlers (VnfPackage) and the distribution threads of SDC    *)
(* (VnfDistribution) work on the same two.                                 *)
(***************************************************************************)

CONSTANTS Pkgs,    \* package identifiers: uuids drawn here, or csar ids of SDC
          Vnfds,   \* descriptor ids found in archives
          Files,   \* names of stored archives
          None,    \* SQL NULL, and the content of a file that is absent
          Broken   \* an archive that is truncated or declares no VNF

ASSUME ValuesAssumption ==
  /\ None \notin Vnfds \cup Files \cup {Broken}
  /\ Broken \notin Vnfds

VARIABLES row,    \* CATALOG_VNFPACKAGE
          disk,   \* the archives under CATALOG_ROOT_PATH/<package id>
          zip     \* VNFD.zip in that directory

Content == Vnfds \cup {Broken}

Settled == {"CREATED", "ONBOARDED"}
InProgress == {"UPLOADING", "PROCESSING"}
NoRow == {"UNBORN", "GONE"}   \* no row yet, row deleted

PkgRow == [state : Settled \cup InProgress \cup NoRow,
           oper  : {"ENABLED", "DISABLED"},
           vnfd  : Vnfds \cup {None},
           path  : Files \cup {None}]

EmptyRow(s) == [state |-> s, oper |-> "DISABLED", vnfd |-> None, path |-> None]

Stored(p) == row[p].state \notin NoRow

OnboardedRow(v, f) == [state |-> "ONBOARDED", oper |-> "ENABLED", vnfd |-> v, path |-> f]

\* Rows with this VNFD, onboarded or not: filter(vnfdId=v).
Holders(v) == {q \in Pkgs : Stored(q) /\ row[q].vnfd = v}

NoFiles == [f \in Files |-> None]

DirExists(p) == \E f \in Files : disk[p][f] # None

StoreInit ==
  /\ row = [p \in Pkgs |-> EmptyRow("UNBORN")]
  /\ disk = [p \in Pkgs |-> NoFiles]
  /\ zip = [p \in Pkgs |-> None]

StoreTypeOK ==
  /\ row \in [Pkgs -> PkgRow]
  /\ disk \in [Pkgs -> [Files -> Content \cup {None}]]
  /\ zip \in [Pkgs -> Content \cup {None}]

=============================================================================
