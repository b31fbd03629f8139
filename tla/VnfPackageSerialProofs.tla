------------------------- MODULE VnfPackageSerialProofs -------------------------
(***************************************************************************)
(* What VnfPackage guarantees of its requests where they take turns, for   *)
(* every set of packages, VNFDs, file names and workers, with any failure  *)
(* and any handler stopped half-way.  ChecksApart is all that keeps a VNFD *)
(* to one package, and Apart all that keeps an archive the one its row was *)
(* made from; together they make the handlers implement PackageCatalogue.  *)
(* Without them neither holds: run vnfd_id_race shows it of the first.     *)
(***************************************************************************)
EXTENDS VnfPackageProofs

-----------------------------------------------------------------------------
(***************************************************************************)
(* VnfdIdUnique: a worker past the check is right about the holders of its *)
(* VNFD until it commits, if nobody else commits the same in between.      *)
(***************************************************************************)

CheckHolds(w) == pc[w] = "committing" => Holders(req[w].vnfd) \subseteq {req[w].pkg}

VnfdInv ==
  /\ VnfdIdUnique
  /\ \A p \in Pkgs : ~Stored(p) => row[p].vnfd = None
  /\ \A w \in Workers : CheckHolds(w)

\* Rows come to hold no VNFD that they did not hold.
NoVnfdTaken ==
  \A p \in Pkgs : /\ row'[p].vnfd \in {row[p].vnfd, None}
                  /\ row'[p].vnfd # None => Stored(p)
                  /\ ~Stored(p)' => row'[p].vnfd = None

LEMMA VnfdFrame ==
  ASSUME TypeInv, VnfdInv, NEW w \in Workers, Moves(w), NoVnfdTaken,
         pc'[w] = "committing" => CheckHolds(w)'
  PROVE  VnfdInv'
<1>1. VnfdIdUnique'
  BY DEF NoVnfdTaken, VnfdInv, VnfdIdUnique
<1>2. ASSUME NEW u \in Workers, u # w, pc'[u] = "committing"
      PROVE  Holders(req[u].vnfd)' \subseteq {req[u].pkg}'
  <2>1. pc[u] = "committing" /\ req'[u] = req[u]
    BY <1>2 DEF Moves
  <2>2. req[u].vnfd \in Vnfds
    BY <2>1 DEF TypeInv, ReqOK
  <2>3. Holders(req[u].vnfd) \subseteq {req[u].pkg}
    BY <2>1 DEF VnfdInv, CheckHolds
  <2>4. ASSUME NEW q \in Pkgs, row'[q].vnfd = req[u].vnfd
        PROVE  q = req[u].pkg
    <3>1. row[q].vnfd = req[u].vnfd /\ Stored(q)
      BY <2>2, <2>4, ValuesAssumption DEF NoVnfdTaken
    <3>2. QED
      BY <2>3, <3>1 DEF Holders
  <2>5. QED
    BY <2>1, <2>4 DEF Holders
<1>3. \A u \in Workers : CheckHolds(u)'
  BY <1>2 DEF CheckHolds
<1>4. QED
  BY <1>1, <1>3 DEF NoVnfdTaken, VnfdInv

LEMMA SetStateTakesNone ==
  ASSUME TypeInv, VnfdInv, NEW p \in Pkgs, NEW s \in {"CREATED", "UPLOADING", "PROCESSING"},
         row' = SetState(p, s)
  PROVE  NoVnfdTaken
<1>1. \A q \in Pkgs : row'[q].vnfd = row[q].vnfd /\ Stored(q)' = Stored(q)
  BY DEF SetState, Stored, NoRow, TypeInv, TypeOK, StoreTypeOK, PkgRow
<1>2. QED
  BY <1>1 DEF NoVnfdTaken, VnfdInv

LEMMA EmptyRowTakesNone ==
  ASSUME TypeInv, VnfdInv, NEW p \in Pkgs, NEW s, row' = [row EXCEPT ![p] = EmptyRow(s)]
  PROVE  NoVnfdTaken
<1>1. \A q \in Pkgs : \/ q # p /\ row'[q] = row[q]
                      \/ q = p /\ row'[q].vnfd = None
  BY DEF EmptyRow, TypeInv, TypeOK, StoreTypeOK
<1>2. QED
  BY <1>1 DEF NoVnfdTaken, VnfdInv, Stored

LEMMA SameRowsTakeNone ==
  ASSUME VnfdInv, row' = row
  PROVE  NoVnfdTaken
BY DEF NoVnfdTaken, VnfdInv, Stored

LEMMA BeginVnfd ==
  ASSUME TypeInv, VnfdInv, NEW w \in Workers, NEW p \in Pkgs, Begin(w, p)
  PROVE  VnfdInv'
<1>1. Moves(w)
  BY BeginMoves
<1>2. NoVnfdTaken
  BY SetStateTakesNone, EmptyRowTakesNone, SameRowsTakeNone
  DEF Begin, CreateVnfPkg, Upload, UploadFromUri, RefuseUpload, DeleteVnfPkg, DownloadVnfd
<1>3. pc'[w] # "committing"
  BY DEF Begin, CreateVnfPkg, Upload, UploadFromUri, RefuseUpload, DeleteVnfPkg, DownloadVnfd,
         Start, At, TypeInv, TypeOK
<1>4. QED
  BY <1>1, <1>2, <1>3, VnfdFrame

LEMMA CheckVnfd ==
  ASSUME TypeInv, VnfdInv, NEW w \in Workers, CheckOtherPkg(w)
  PROVE  VnfdInv'
<1>1. Moves(w)
  BY StepMoves DEF Step, OwnStep
<1>2. NoVnfdTaken
  BY SameRowsTakeNone DEF CheckOtherPkg
<1>3. CheckHolds(w)'
  <2>1. CASE Fail(w)
    BY <2>1 DEF Fail, Goto, CheckHolds, TypeInv, TypeOK
  <2>2. ASSUME Goto(w, "committing"),
               Holders(req[w].vnfd) = {} \/ req[w].pkg \in Holders(req[w].vnfd)
        PROVE  CheckHolds(w)'
    <3>1. req[w].vnfd # None
      BY ValuesAssumption DEF CheckOtherPkg, At, TypeInv, ReqOK
    <3>2. Holders(req[w].vnfd) \subseteq {req[w].pkg}
      BY <2>2, <3>1 DEF Holders, VnfdInv, VnfdIdUnique
    <3>3. row' = row /\ req' = req
      BY <2>2 DEF CheckOtherPkg, Goto
    <3>4. QED
      BY <3>2, <3>3 DEF CheckHolds, Holders, Stored
  <2>3. QED
    BY <2>1, <2>2 DEF CheckOtherPkg
<1>4. QED
  BY <1>1, <1>2, <1>3, VnfdFrame

LEMMA CommitVnfd ==
  ASSUME TypeInv, VnfdInv, ChecksApart, NEW w \in Workers, Commit(w),
         NEW p \in Pkgs, p = req[w].pkg, NEW v \in Vnfds, v = req[w].vnfd, Stored(p)
  PROVE  VnfdInv'
<1>1. pc[w] = "committing"
  BY DEF Commit, At
<1>2. row' = [row EXCEPT ![p] = OnboardedRow(v, req[w].file)]
  BY DEF Commit
<1>3. /\ row'[p].vnfd = v
      /\ Stored(p)'
      /\ \A q \in Pkgs \ {p} : row'[q] = row[q]
  <2>1. /\ row'[p] = OnboardedRow(v, req[w].file)
        /\ \A q \in Pkgs \ {p} : row'[q] = row[q]
    BY <1>1, <1>2 DEF TypeInv, TypeOK, StoreTypeOK
  <2>2. row'[p].vnfd = v /\ row'[p].state = "ONBOARDED"
    BY <2>1 DEF OnboardedRow
  <2>3. QED
    BY <2>1, <2>2 DEF Stored, NoRow
<1>4. \A q \in Pkgs : row[q].vnfd = v => q = p
  BY <1>1, ValuesAssumption DEF VnfdInv, CheckHolds, Holders
<1>5. VnfdIdUnique'
  BY <1>3, <1>4 DEF VnfdInv, VnfdIdUnique
<1>6. ASSUME NEW q \in Pkgs, ~Stored(q)'
      PROVE  row'[q].vnfd = None
  <2>1. q # p
    BY <1>3, <1>6
  <2>2. row'[q] = row[q]
    BY <1>3, <2>1
  <2>3. ~Stored(q)
    BY <1>6, <2>2 DEF Stored
  <2>4. QED
    BY <2>2, <2>3 DEF VnfdInv
<1>7. ASSUME NEW u \in Workers, pc'[u] = "committing"
      PROVE  Holders(req[u].vnfd)' \subseteq {req[u].pkg}'
  <2>1. u # w /\ pc[u] = "committing" /\ req' = req
    BY <1>7 DEF Commit, Goto, TypeInv, TypeOK
  <2>2. Holders(req[u].vnfd) \subseteq {req[u].pkg}
    BY <2>1 DEF VnfdInv, CheckHolds
  <2>3. req[u].vnfd = v => req[u].pkg = p
    BY <1>1, <2>1 DEF ChecksApart, At
  <2>4. ASSUME NEW q \in Pkgs, Stored(q)', row'[q].vnfd = req[u].vnfd
        PROVE  q = req[u].pkg
    <3>1. CASE q = p
      BY <1>3, <2>3, <2>4, <3>1
    <3>2. CASE q # p
      <4>1. Stored(q) /\ row[q].vnfd = req[u].vnfd
        BY <1>3, <2>4, <3>2 DEF Stored
      <4>2. QED
        BY <2>2, <4>1 DEF Holders
    <3>3. QED
      BY <3>1, <3>2
  <2>5. QED
    BY <2>1, <2>4 DEF Holders
<1>8. QED
  BY <1>5, <1>6, <1>7 DEF VnfdInv, CheckHolds

LEMMA StepVnfd ==
  ASSUME TypeInv, VnfdInv, ChecksApart, NEW w \in Workers, Step(w) \/ Crash(w)
  PROVE  VnfdInv'
<1>1. Moves(w)
  BY StepMoves
<1>2. CASE CheckOtherPkg(w)
  BY <1>2, CheckVnfd
<1>3. CASE Commit(w)
  <2>1. CASE Stored(req[w].pkg)
    <3>1. req[w].pkg \in Pkgs /\ req[w].vnfd \in Vnfds
      BY <1>3 DEF Commit, At, TypeInv, ReqOK
    <3>2. PICK p \in Pkgs, v \in Vnfds : p = req[w].pkg /\ v = req[w].vnfd
      BY <3>1
    <3>3. QED
      BY <1>3, <2>1, <3>2, CommitVnfd
  <2>2. CASE ~Stored(req[w].pkg)
    <3>1. NoVnfdTaken
      BY <1>3, <2>2, SameRowsTakeNone DEF Commit
    <3>2. pc'[w] # "committing"
      BY <1>3 DEF Commit, Goto, TypeInv, TypeOK
    <3>3. QED
      BY <1>1, <3>1, <3>2, VnfdFrame
  <2>3. QED
    BY <2>1, <2>2
<1>4. CASE Crash(w) \/ (Step(w) /\ ~CheckOtherPkg(w) /\ ~Commit(w))
  <2>1. pc[w] # "idle"
    BY <1>4 DEF Step, OwnStep, OutsideStep, Save, Process, ParseVnfd, NotifyOnboarded,
       HandleUploadFailed, UriMark, UriAnnounce, UriUnreachable, UriRefused, UriFetch,
       UriFailRead, UriReset, DelInspect, DelRow, DelAnnounce, DelDir, VnfdPath, VnfdZip,
       VnfdWrite, At, Crash
  <2>2. req[w].pkg \in Pkgs
    BY <2>1 DEF TypeInv, ReqOK
  <2>3. CASE DelRow(w) \/ Process(w) \/ HandleUploadFailed(w) \/ UriMark(w) \/ UriReset(w)
    BY <2>2, <2>3, <1>1, SetStateTakesNone, EmptyRowTakesNone, VnfdFrame
    DEF DelRow, Process, HandleUploadFailed, UriMark, UriReset, Goto, Finish, TypeInv, TypeOK
  <2>4. CASE ~(DelRow(w) \/ Process(w) \/ HandleUploadFailed(w) \/ UriMark(w) \/ UriReset(w))
    <3>1. row' = row
      BY <1>4, <2>4 DEF Step, OwnStep, OutsideStep, Save, ParseVnfd, NotifyOnboarded,
         UriAnnounce, UriUnreachable, UriRefused, UriFetch, UriFailRead, DelInspect,
         DelAnnounce, DelDir, VnfdPath, VnfdZip, VnfdWrite, Crash
    <3>2. pc'[w] # "committing"
      BY <1>4, <2>4 DEF Step, OwnStep, OutsideStep, Save, ParseVnfd, NotifyOnboarded,
         UriAnnounce, UriUnreachable, UriRefused, UriFetch, UriFailRead, DelInspect,
         DelAnnounce, DelDir, VnfdPath, VnfdZip, VnfdWrite, Crash, Stop, Fail, Goto, Keep,
         Finish, TypeInv, TypeOK
    <3>3. QED
      BY <1>1, <3>1, <3>2, SameRowsTakeNone, VnfdFrame
  <2>5. QED
    BY <2>3, <2>4
<1>5. QED
  BY <1>2, <1>3, <1>4

LEMMA VnfdInvariant == Spec /\ []ChecksApart => []VnfdInv
<1>1. Init => VnfdInv
  BY DEF Init, StoreInit, VnfdInv, VnfdIdUnique, CheckHolds, EmptyRow
<1>2. TypeInv /\ VnfdInv /\ ChecksApart /\ [Next]_vars => VnfdInv'
  <2> SUFFICES ASSUME TypeInv, VnfdInv, ChecksApart, [Next]_vars
               PROVE  VnfdInv'
    OBVIOUS
  <2>1. CASE UNCHANGED vars
    BY <2>1 DEF vars, VnfdInv, VnfdIdUnique, CheckHolds, Holders, Stored
  <2>2. QED
    BY <2>1, BeginVnfd, StepVnfd DEF Next
<1>3. QED
  BY <1>1, <1>2, TypeCorrect, PTL DEF Spec

\* The check of parse_vnfd_and_save keeps two packages from having the same vnfdId,
\* however its handlers overlap, fail or are killed, but for one overlap: two packages
\* that are past the check for one VNFD and before their updates.
THEOREM VnfdHeldOnce == Spec /\ []ChecksApart => []VnfdIdUnique
<1>1. VnfdInv => VnfdIdUnique
  BY DEF VnfdInv
<1>2. QED
  BY <1>1, VnfdInvariant, PTL

-----------------------------------------------------------------------------
(***************************************************************************)
(* OnboardedMatchesArchive: what the one handler of a package has read, or *)
(* set, holds still when it uses it.                                       *)
(***************************************************************************)

StillHolds(w) ==
  /\ pc[w] \in {"saving", "processing", "parsing", "checking", "committing",
                "uri_mark", "uri_announce", "uri_fetch"} => row[req[w].pkg].state # "ONBOARDED"
  /\ pc[w] \in {"checking", "committing"} => disk[req[w].pkg][req[w].file] = req[w].vnfd

ArchiveInv == OnboardedMatchesArchive /\ \A w \in Workers : StillHolds(w)

\* No row comes to be ONBOARDED, and of packages that are no archive changes.
LEMMA BeginArchive ==
  ASSUME TypeInv, ArchiveInv, NEW w \in Workers, NEW p \in Pkgs, Begin(w, p)
  PROVE  ArchiveInv'
<1>1. Moves(w) /\ disk' = disk
  BY BeginMoves DEF Begin, CreateVnfPkg, Upload, UploadFromUri, RefuseUpload, DeleteVnfPkg,
     DownloadVnfd
<1>2. \A q \in Pkgs : row'[q] = row[q] \/ row'[q].state # "ONBOARDED"
  <2>1. ASSUME NEW s \in {"CREATED", "UPLOADING"}, row' = SetState(p, s), NEW q \in Pkgs
        PROVE  row'[q] = row[q] \/ row'[q].state # "ONBOARDED"
    BY <2>1 DEF SetState, TypeInv, TypeOK, StoreTypeOK, PkgRow
  <2>2. ASSUME row' = [row EXCEPT ![p] = EmptyRow("CREATED")], NEW q \in Pkgs
        PROVE  row'[q] = row[q] \/ row'[q].state # "ONBOARDED"
    BY <2>2 DEF EmptyRow, TypeInv, TypeOK, StoreTypeOK
  <2>3. \/ row' = row
        \/ row' = [row EXCEPT ![p] = EmptyRow("CREATED")]
        \/ \E s \in {"CREATED", "UPLOADING"} : row' = SetState(p, s)
    BY DEF Begin, CreateVnfPkg, Upload, UploadFromUri, RefuseUpload, DeleteVnfPkg,
       DownloadVnfd
  <2>4. QED
    BY <2>1, <2>2, <2>3
<1>3. OnboardedMatchesArchive'
  BY <1>1, <1>2 DEF ArchiveInv, OnboardedMatchesArchive
<1>4. ASSUME NEW u \in Workers, u # w
      PROVE  StillHolds(u)'
  <2>1. pc'[u] = pc[u] /\ req'[u] = req[u] /\ StillHolds(u)
    BY <1>4, <1>1 DEF Moves, ArchiveInv
  <2>2. pc[u] # "idle" => req[u].pkg \in Pkgs
    BY DEF TypeInv, ReqOK
  <2>3. QED
    BY <1>1, <1>2, <2>1, <2>2 DEF StillHolds
<1>5. StillHolds(w)'
  <2>1. ASSUME NEW f \in Files, Upload(w, p, f)
        PROVE  StillHolds(w)'
    <3>1. row'[p].state # "ONBOARDED"
      BY <2>1 DEF Upload, SetState, Stored, NoRow, TypeInv, TypeOK, StoreTypeOK, PkgRow
    <3>2. pc'[w] = "saving" /\ req'[w].pkg = p
      BY <2>1 DEF Upload, Start, TypeInv, TypeOK
    <3>3. QED
      BY <3>1, <3>2 DEF StillHolds
  <2>2. ASSUME NEW f \in Files, UploadFromUri(w, p, f)
        PROVE  StillHolds(w)'
    <3>1. /\ row' = row
          /\ req'[w].pkg = p
          /\ pc'[w] = IF row[p].state = "CREATED" THEN "uri_mark" ELSE "uri_failing"
      BY <2>2 DEF UploadFromUri, Start, TypeInv, TypeOK
    <3>2. QED
      BY <3>1 DEF StillHolds
  <2>3. CASE \/ CreateVnfPkg(w, p) \/ RefuseUpload(w, p) \/ DeleteVnfPkg(w, p)
             \/ DownloadVnfd(w, p)
    <3>1. pc'[w] \in {"idle", "del_inspect", "vnfd_path"}
      BY <2>3 DEF CreateVnfPkg, RefuseUpload, DeleteVnfPkg, DownloadVnfd, Start, At, TypeInv,
         TypeOK
    <3>2. QED
      BY <3>1 DEF StillHolds
  <2>4. QED
    BY <2>1, <2>2, <2>3 DEF Begin
<1>6. QED
  BY <1>3, <1>4, <1>5 DEF ArchiveInv

\* A step of a handler changes its own package only, which no other handler is at.
LEMMA ArchiveFrame ==
  ASSUME TypeInv, ArchiveInv, Apart, NEW w \in Workers, Moves(w), pc[w] # "idle",
         NEW p \in Pkgs, p = req[w].pkg,
         \A q \in Pkgs \ {p} : row'[q] = row[q] /\ disk'[q] = disk[q],
         row'[p].state = "ONBOARDED" => disk'[p][row'[p].path] = row'[p].vnfd,
         StillHolds(w)'
  PROVE  ArchiveInv'
<1>1. OnboardedMatchesArchive'
  BY DEF ArchiveInv, OnboardedMatchesArchive
<1>2. ASSUME NEW u \in Workers, u # w
      PROVE  StillHolds(u)'
  <2>1. pc'[u] = pc[u] /\ req'[u] = req[u] /\ StillHolds(u)
    BY <1>2 DEF Moves, ArchiveInv
  <2>2. pc[u] # "idle" => req[u].pkg \in Pkgs \ {p}
    BY <1>2 DEF TypeInv, ReqOK, Apart, At
  <2>3. QED
    BY <2>1, <2>2 DEF StillHolds
<1>3. QED
  BY <1>1, <1>2 DEF ArchiveInv

\* A step that writes neither row nor archive.
LEMMA QuietArchive ==
  ASSUME TypeInv, ArchiveInv, Apart, NEW w \in Workers, Moves(w), pc[w] # "idle",
         row' = row, disk' = disk, StillHolds(w)'
  PROVE  ArchiveInv'
<1>1. req[w].pkg \in Pkgs
  BY DEF TypeInv, ReqOK
<1>2. row[req[w].pkg].state = "ONBOARDED" =>
        disk[req[w].pkg][row[req[w].pkg].path] = row[req[w].pkg].vnfd
  BY <1>1 DEF ArchiveInv, OnboardedMatchesArchive
<1>3. QED
  BY <1>1, <1>2, ArchiveFrame

\* A step after which the row is not ONBOARDED and the handler relies on no more than that.
LEMMA WritingArchive ==
  ASSUME TypeInv, ArchiveInv, Apart, NEW w \in Workers, Moves(w), pc[w] # "idle",
         \A q \in Pkgs \ {req[w].pkg} : row'[q] = row[q] /\ disk'[q] = disk[q],
         row'[req[w].pkg].state # "ONBOARDED",
         pc'[w] # "idle" => req'[w].pkg = req[w].pkg,
         pc'[w] \notin {"checking", "committing"}
  PROVE  ArchiveInv'
<1>1. req[w].pkg \in Pkgs
  BY DEF TypeInv, ReqOK
<1>2. StillHolds(w)'
  BY DEF StillHolds
<1>3. QED
  BY <1>1, <1>2, ArchiveFrame

LEMMA StepArchive ==
  ASSUME TypeInv, ServableInv, ArchiveInv, Apart, NEW w \in Workers, Step(w) \/ Crash(w)
  PROVE  ArchiveInv'
<1>1. Moves(w)
  BY StepMoves
<1>2. pc[w] # "idle"
  BY DEF Step, OwnStep, OutsideStep, Save, Process, ParseVnfd, CheckOtherPkg, Commit,
     NotifyOnboarded, HandleUploadFailed, UriMark, UriAnnounce, UriUnreachable, UriRefused,
     UriFetch, UriFailRead, UriReset, DelInspect, DelRow, DelAnnounce, DelDir, VnfdPath,
     VnfdZip, VnfdWrite, At, Crash
<1>3. req[w].pkg \in Pkgs /\ StillHolds(w) /\ WorkerOK(w)
  BY <1>2 DEF TypeInv, ReqOK, ArchiveInv, ServableInv
<1>4. ASSUME NEW l \in Label, Goto(w, l)
      PROVE  pc'[w] = l /\ req' = req
  BY <1>4 DEF Goto, TypeInv, TypeOK
<1>5. ASSUME Fail(w)
      PROVE  pc'[w] \in {"failing", "uri_failing"} /\ req' = req
  BY <1>5 DEF Fail, Goto, TypeInv, TypeOK
<1>6. ASSUME Finish(w)
      PROVE  pc'[w] = "idle"
  BY <1>6 DEF Finish, TypeInv, TypeOK
<1>7. CASE Save(w) \/ \E c \in Content : UriFetch(w, c)
  <2>1. row' = row /\ row[req[w].pkg].state # "ONBOARDED"
    BY <1>3, <1>7 DEF Save, UriFetch, At, StillHolds
  <2>2. \A q \in Pkgs \ {req[w].pkg} : disk'[q] = disk[q]
    BY <1>7 DEF Save, UriFetch, TypeInv, TypeOK, StoreTypeOK
  <2>3. pc'[w] \in {"processing", "failing", "uri_failing"} /\ req' = req
    BY <1>4, <1>5, <1>7 DEF Save, UriFetch, Label
  <2>4. QED
    BY <1>1, <1>2, <2>1, <2>2, <2>3, WritingArchive
<1>8. CASE Process(w) \/ UriMark(w) \/ HandleUploadFailed(w) \/ UriReset(w)
  <2>1. PICK s \in {"CREATED", "UPLOADING", "PROCESSING"} : row' = SetState(req[w].pkg, s)
    BY <1>8 DEF Process, UriMark, HandleUploadFailed, UriReset
  <2>2. /\ row'[req[w].pkg].state # "ONBOARDED"
        /\ \A q \in Pkgs \ {req[w].pkg} : row'[q] = row[q]
    BY <1>3, <2>1 DEF SetState, Stored, NoRow, TypeInv, TypeOK, StoreTypeOK, PkgRow
  <2>3. /\ disk' = disk
        /\ pc'[w] \in {"parsing", "uri_announce", "idle"}
        /\ pc'[w] # "idle" => req' = req
    BY <1>4, <1>6, <1>8 DEF Process, UriMark, HandleUploadFailed, UriReset, Label
  <2>4. QED
    BY <1>1, <1>2, <2>2, <2>3, WritingArchive
<1>9. CASE ParseVnfd(w)
  <2>1. row' = row /\ disk' = disk
    BY <1>9 DEF ParseVnfd
  <2>2. StillHolds(w)'
    <3>1. CASE Fail(w)
      BY <1>5, <3>1 DEF StillHolds
    <3>2. ASSUME Keep(w, disk[req[w].pkg][req[w].file], "checking")
          PROVE  StillHolds(w)'
      <4>1. /\ pc'[w] = "checking"
            /\ req'[w].pkg = req[w].pkg
            /\ req'[w].file = req[w].file
            /\ req'[w].vnfd = disk[req[w].pkg][req[w].file]
        BY <3>2 DEF Keep, TypeInv, TypeOK, Request
      <4>2. QED
        BY <1>3, <1>9, <2>1, <4>1 DEF ParseVnfd, At, StillHolds
    <3>3. CASE Finish(w)
      BY <1>6, <3>3 DEF StillHolds
    <3>4. QED
      BY <1>9, <3>1, <3>2, <3>3 DEF ParseVnfd
  <2>3. QED
    BY <1>1, <1>2, <2>1, <2>2, QuietArchive
<1>10. CASE CheckOtherPkg(w) \/ UriAnnounce(w)
  <2>1. row' = row /\ disk' = disk
    BY <1>10 DEF CheckOtherPkg, UriAnnounce
  <2>2. /\ \/ pc'[w] \in {"failing", "uri_failing"}
           \/ pc'[w] = "committing" /\ pc[w] = "checking"
           \/ pc'[w] = "uri_fetch" /\ pc[w] = "uri_announce"
        /\ req' = req
    <3>1. CASE UriAnnounce(w)
      BY <1>4, <3>1 DEF UriAnnounce, At, Label
    <3>2. CASE CheckOtherPkg(w)
      <4>1. pc[w] = "checking" /\ (Fail(w) \/ Goto(w, "committing"))
        BY <3>2 DEF CheckOtherPkg, At
      <4>2. QED
        BY <1>4, <1>5, <4>1 DEF Label
    <3>3. QED
      BY <1>10, <3>1, <3>2
  <2>3. StillHolds(w)'
    BY <1>3, <2>1, <2>2 DEF StillHolds
  <2>4. QED
    BY <1>1, <1>2, <2>1, <2>3, QuietArchive
<1>11. CASE Commit(w)
  <2>1. pc[w] = "committing" /\ pc'[w] = "notifying" /\ disk' = disk
    BY <1>4, <1>11 DEF Commit, At, Label
  <2>2. StillHolds(w)'
    BY <2>1 DEF StillHolds
  <2>3. CASE Stored(req[w].pkg)
    <3>1. row' = [row EXCEPT ![req[w].pkg] = OnboardedRow(req[w].vnfd, req[w].file)]
      BY <1>11, <2>3 DEF Commit
    <3>2. /\ row'[req[w].pkg] = OnboardedRow(req[w].vnfd, req[w].file)
          /\ \A q \in Pkgs \ {req[w].pkg} : row'[q] = row[q]
      BY <1>3, <3>1 DEF TypeInv, TypeOK, StoreTypeOK
    <3>3. row'[req[w].pkg].path = req[w].file /\ row'[req[w].pkg].vnfd = req[w].vnfd
      BY <3>2 DEF OnboardedRow
    <3>4. disk[req[w].pkg][req[w].file] = req[w].vnfd
      BY <1>3, <2>1 DEF StillHolds
    <3>5. QED
      BY <1>1, <1>2, <1>3, <2>1, <2>2, <3>2, <3>3, <3>4, ArchiveFrame
  <2>4. CASE ~Stored(req[w].pkg)
    BY <1>1, <1>2, <1>11, <2>1, <2>2, <2>4, QuietArchive DEF Commit
  <2>5. QED
    BY <2>3, <2>4
<1>12. CASE DelRow(w)
  <2>1. /\ row'[req[w].pkg] = EmptyRow("GONE")
        /\ \A q \in Pkgs \ {req[w].pkg} : row'[q] = row[q]
    BY <1>3, <1>12 DEF DelRow, TypeInv, TypeOK, StoreTypeOK
  <2>2. disk' = disk /\ pc'[w] = "del_announce" /\ req' = req
    BY <1>4, <1>12 DEF DelRow, Label
  <2>3. QED
    BY <1>1, <1>2, <2>1, <2>2, WritingArchive DEF EmptyRow
<1>13. CASE DelDir(w)
  <2>1. row' = row /\ row[req[w].pkg].state # "ONBOARDED"
    BY <1>3, <1>13 DEF DelDir, At, WorkerOK, IsGone
  <2>2. \A q \in Pkgs \ {req[w].pkg} : disk'[q] = disk[q]
    BY <1>13 DEF DelDir, TypeInv, TypeOK, StoreTypeOK
  <2>3. pc'[w] = "idle"
    BY <1>6, <1>13 DEF DelDir
  <2>4. QED
    BY <1>1, <1>2, <2>1, <2>2, <2>3, WritingArchive
<1>14. CASE \/ NotifyOnboarded(w) \/ UriUnreachable(w) \/ UriRefused(w) \/ UriFailRead(w)
            \/ DelInspect(w) \/ DelAnnounce(w) \/ VnfdPath(w) \/ VnfdZip(w) \/ VnfdWrite(w)
            \/ Crash(w)
  <2>1. row' = row /\ disk' = disk
    BY <1>14 DEF NotifyOnboarded, UriUnreachable, UriRefused, UriFailRead, DelInspect,
       DelAnnounce, VnfdPath, VnfdZip, VnfdWrite, Crash
  <2>2. pc'[w] \in {"idle", "failing", "uri_failing", "uri_reset", "del_row", "del_dir",
                    "vnfd_zip", "vnfd_write"}
    BY <1>14 DEF NotifyOnboarded, UriUnreachable, UriRefused, UriFailRead, DelInspect,
       DelAnnounce, VnfdPath, VnfdZip, VnfdWrite, Crash, Stop, Fail, Finish, Goto, Keep,
       TypeInv, TypeOK
  <2>3. StillHolds(w)'
    BY <2>2 DEF StillHolds
  <2>4. QED
    BY <1>1, <1>2, <2>1, <2>3, QuietArchive
<1>15. QED
  BY <1>7, <1>8, <1>9, <1>10, <1>11, <1>12, <1>13, <1>14 DEF Step, OwnStep, OutsideStep

LEMMA ArchiveInvariant == Spec /\ []Apart => [](TypeInv /\ ServableInv /\ ArchiveInv)
<1>1. Init => ServableInv /\ ArchiveInv
  BY DEF Init, StoreInit, ServableInv, RowOK, WorkerOK, ArchiveInv, StillHolds,
     OnboardedMatchesArchive, Stored, EmptyRow, NoRow
<1>2. TypeInv /\ ServableInv /\ ArchiveInv /\ Apart /\ [Next]_vars => ArchiveInv'
  <2> SUFFICES ASSUME TypeInv, ServableInv, ArchiveInv, Apart, [Next]_vars
               PROVE  ArchiveInv'
    OBVIOUS
  <2>1. CASE UNCHANGED vars
    BY <2>1 DEF vars, ArchiveInv, OnboardedMatchesArchive, StillHolds
  <2>2. QED
    BY <2>1, BeginArchive, StepArchive DEF Next
<1>3. TypeInv /\ ServableInv /\ [Next]_vars => ServableInv'
  BY NextServable
<1>4. QED
  BY <1>1, <1>2, <1>3, TypeCorrect, PTL DEF Spec

\* Where one handler at a time is at work on a package, its archive is the one its
\* vnfdId was read from while it is ONBOARDED, also after uploads that failed over it,
\* and whatever goes on with other packages.
THEOREM ArchiveIsTheOneRead == Spec /\ []Apart => []OnboardedMatchesArchive
<1>1. ArchiveInv => OnboardedMatchesArchive
  BY DEF ArchiveInv
<1>2. QED
  BY <1>1, ArchiveInvariant, PTL

-----------------------------------------------------------------------------
(***************************************************************************)
(* The refinement.  What is shown of a package changes with its row: an    *)
(* update of the state withdraws the VNFD or shows nothing, Commit         *)
(* on-boards, DelRow deletes.  All other steps are stutters.               *)
(***************************************************************************)

\* The variable of PackageCatalogue.
ShownOf == [p \in Pkgs |-> Shown(p)]

LEMMA SameRows ==
  ASSUME row' = row
  PROVE  UNCHANGED ShownOf
  BY DEF ShownOf, Shown, Stored

\* A row that changes changes what is shown of its package, and of no other.
LEMMA OneShown ==
  ASSUME TypeInv, NEW p \in Pkgs, NEW r, row' = [row EXCEPT ![p] = r],
         NEW c, Shown(p)' = c
  PROVE  ShownOf' = [ShownOf EXCEPT ![p] = c]
<1>1. \A q \in Pkgs : q # p => row'[q] = row[q]
  BY DEF TypeInv, TypeOK, StoreTypeOK
<1>2. \A q \in Pkgs : q # p => Shown(q)' = Shown(q)
  BY <1>1 DEF Shown, Stored
<1>3. QED
  BY <1>2 DEF ShownOf

LEMMA CreateShown ==
  ASSUME TypeInv, NEW w \in Workers, NEW p \in Pkgs, CreateVnfPkg(w, p)
  PROVE  Catalogue!Create(p)
<1>1. Shown(p) = <<"UNBORN", None>>
  BY DEF CreateVnfPkg, Shown, Stored, NoRow
<1>2. Shown(p)' = <<"EMPTY", None>>
  <2>1. row'[p].state = "CREATED"
    BY DEF CreateVnfPkg, EmptyRow, TypeInv, TypeOK, StoreTypeOK
  <2>2. QED
    BY <2>1 DEF Shown, Stored, NoRow
<1>3. ShownOf' = [ShownOf EXCEPT ![p] = <<"EMPTY", None>>]
  BY <1>2, OneShown DEF CreateVnfPkg
<1>4. QED
  BY <1>1, <1>3 DEF Catalogue!Create, ShownOf

\* update(onboardingState=s): the package has its VNFD no longer, if it had one.
LEMMA StateShown ==
  ASSUME TypeInv, ServableInv, NEW p \in Pkgs, NEW s \in {"CREATED", "UPLOADING", "PROCESSING"},
         row' = SetState(p, s)
  PROVE  Catalogue!Withdraw(p) \/ UNCHANGED ShownOf
<1>1. CASE ~Stored(p)
  BY <1>1, SameRows DEF SetState
<1>2. CASE Stored(p)
  <2>1. row' = [row EXCEPT ![p] = [row[p] EXCEPT !.state = s]]
    BY <1>2 DEF SetState, TypeInv, TypeOK, StoreTypeOK
  <2>2. row'[p].state = s
    BY <2>1 DEF TypeInv, TypeOK, StoreTypeOK, PkgRow
  <2>3. Shown(p)' = <<"EMPTY", None>>
    BY <2>2 DEF Shown, Stored, NoRow
  <2>4. ShownOf' = [ShownOf EXCEPT ![p] = <<"EMPTY", None>>]
    BY <2>1, <2>3, OneShown
  <2>5. CASE row[p].state = "ONBOARDED"
    <3>1. Shown(p) \in {"VNFD"} \X Vnfds
      BY <2>5 DEF Shown, ServableInv, RowOK
    <3>2. QED
      BY <2>4, <3>1 DEF Catalogue!Withdraw, ShownOf
  <2>6. CASE row[p].state # "ONBOARDED"
    <3>1. Shown(p) = <<"EMPTY", None>>
      BY <1>2, <2>6 DEF Shown
    <3>2. QED
      BY <2>4, <3>1 DEF ShownOf
  <2>7. QED
    BY <2>5, <2>6
<1>3. QED
  BY <1>1, <1>2

\* The update at the end of parse_vnfd_and_save on-boards, if there is a row to update.
LEMMA CommitShown ==
  ASSUME TypeInv, VnfdInv, ArchiveInv, NEW w \in Workers, Commit(w),
         NEW p \in Pkgs, p = req[w].pkg, NEW v \in Vnfds, v = req[w].vnfd
  PROVE  Catalogue!Onboard(p, <<"VNFD", v>>) \/ UNCHANGED ShownOf
<1>1. row[p].state # "ONBOARDED" /\ Holders(v) \subseteq {p}
  BY DEF Commit, At, VnfdInv, CheckHolds, ArchiveInv, StillHolds
<1>2. CASE ~Stored(p)
  BY <1>2, SameRows DEF Commit
<1>3. CASE Stored(p)
  <2>1. row' = [row EXCEPT ![p] = OnboardedRow(v, req[w].file)]
    BY <1>3 DEF Commit
  <2>2. Shown(p)' = <<"VNFD", v>>
    <3>1. row'[p] = OnboardedRow(v, req[w].file)
      BY <2>1 DEF TypeInv, TypeOK, StoreTypeOK
    <3>2. row'[p].state = "ONBOARDED" /\ row'[p].vnfd = v
      BY <3>1 DEF OnboardedRow
    <3>3. QED
      BY <3>2 DEF Shown
  <2>3. ShownOf' = [ShownOf EXCEPT ![p] = <<"VNFD", v>>]
    BY <2>1, <2>2, OneShown
  <2>4. ShownOf[p] = <<"EMPTY", None>>
    BY <1>1, <1>3 DEF Shown, ShownOf
  <2>5. ASSUME NEW q \in Pkgs
        PROVE  ShownOf[q] # <<"VNFD", v>>
    <3>1. CASE row[q].state = "ONBOARDED"
      <4>1. Stored(q) /\ q # p
        BY <1>1, <3>1 DEF Stored, NoRow
      <4>2. row[q].vnfd # v
        BY <1>1, <4>1 DEF Holders
      <4>3. QED
        BY <3>1, <4>2 DEF Shown, ShownOf
    <3>2. CASE row[q].state # "ONBOARDED"
      <4>1. \/ ShownOf[q] = <<"EMPTY", None>>
            \/ ShownOf[q] = <<row[q].state, None>> /\ row[q].state \in NoRow
        BY <3>2 DEF Shown, ShownOf, Stored
      <4>2. QED
        BY <4>1 DEF NoRow
    <3>3. QED
      BY <3>1, <3>2
  <2>6. QED
    BY <2>3, <2>4, <2>5 DEF Catalogue!Onboard, ShownOf
<1>4. QED
  BY <1>2, <1>3

LEMMA DeleteShown ==
  ASSUME TypeInv, ServableInv, NEW w \in Workers, DelRow(w),
         NEW p \in Pkgs, p = req[w].pkg
  PROVE  Catalogue!Delete(p) \/ UNCHANGED ShownOf
<1>1. row[p].state # "UNBORN"
  BY DEF DelRow, At, ServableInv, WorkerOK, Known
<1>2. row' = [row EXCEPT ![p] = EmptyRow("GONE")]
  BY DEF DelRow
<1>3. Shown(p)' = <<"GONE", None>>
  <2>1. row'[p].state = "GONE"
    BY <1>2 DEF EmptyRow, TypeInv, TypeOK, StoreTypeOK
  <2>2. QED
    BY <2>1 DEF Shown, Stored, NoRow
<1>4. ShownOf' = [ShownOf EXCEPT ![p] = <<"GONE", None>>]
  BY <1>2, <1>3, OneShown
<1>5. CASE Stored(p)
  <2>1. Shown(p) \in ({"VNFD"} \X Vnfds) \cup {<<"EMPTY", None>>}
    BY <1>5 DEF Shown, ServableInv, RowOK, Stored, NoRow
  <2>2. QED
    BY <1>4, <2>1 DEF Catalogue!Delete, ShownOf
<1>6. CASE ~Stored(p)
  <2>1. Shown(p) = <<"GONE", None>>
    BY <1>1, <1>6 DEF Shown, Stored, NoRow
  <2>2. QED
    BY <1>4, <2>1 DEF ShownOf
<1>7. QED
  BY <1>5, <1>6

LEMMA NextShown ==
  ASSUME TypeInv, ServableInv, VnfdInv, ArchiveInv, [Next]_vars
  PROVE  [Catalogue!Next]_ShownOf
<1>1. ASSUME row' = row
      PROVE  UNCHANGED ShownOf
  BY <1>1, SameRows
<1>2. ASSUME NEW p \in Pkgs, NEW s \in {"CREATED", "UPLOADING", "PROCESSING"},
             row' = SetState(p, s)
      PROVE  [Catalogue!Next]_ShownOf
  BY <1>2, StateShown DEF Catalogue!Next
<1>3. ASSUME NEW w \in Workers, NEW p \in Pkgs, Begin(w, p)
      PROVE  [Catalogue!Next]_ShownOf
  <2>1. CASE CreateVnfPkg(w, p)
    BY <2>1, CreateShown DEF Catalogue!Next
  <2>2. CASE ~CreateVnfPkg(w, p)
    BY <1>1, <1>2, <1>3, <2>2 DEF Begin, Upload, UploadFromUri, RefuseUpload, DeleteVnfPkg,
       DownloadVnfd
  <2>3. QED
    BY <2>1, <2>2
<1>4. ASSUME NEW w \in Workers, Step(w)
      PROVE  [Catalogue!Next]_ShownOf
  <2>1. CASE Commit(w)
    <3>1. req[w].pkg \in Pkgs /\ req[w].vnfd \in Vnfds
      BY <2>1 DEF Commit, At, TypeInv, ReqOK
    <3>2. PICK p \in Pkgs, v \in Vnfds : p = req[w].pkg /\ v = req[w].vnfd
      BY <3>1
    <3>3. <<"VNFD", v>> \in {"VNFD"} \X Vnfds
      OBVIOUS
    <3>4. QED
      BY <2>1, <3>2, <3>3, CommitShown DEF Catalogue!Next
  <2>2. CASE DelRow(w)
    <3>1. req[w].pkg \in Pkgs
      BY <2>2 DEF DelRow, At, TypeInv, ReqOK
    <3>2. QED
      BY <2>2, <3>1, DeleteShown DEF Catalogue!Next
  <2>3. CASE Process(w) \/ HandleUploadFailed(w) \/ UriMark(w) \/ UriReset(w)
    <3>1. req[w].pkg \in Pkgs
      BY <2>3 DEF Process, HandleUploadFailed, UriMark, UriReset, At, TypeInv, ReqOK
    <3>2. QED
      BY <1>2, <2>3, <3>1 DEF Process, HandleUploadFailed, UriMark, UriReset
  <2>4. CASE ~(\/ Commit(w) \/ DelRow(w) \/ Process(w) \/ HandleUploadFailed(w)
               \/ UriMark(w) \/ UriReset(w))
    <3>1. row' = row
      BY <1>4, <2>4 DEF Step, OwnStep, OutsideStep, Save, ParseVnfd, CheckOtherPkg,
         NotifyOnboarded, UriAnnounce, UriUnreachable, UriRefused, UriFetch,
         UriFailRead, DelInspect, DelAnnounce, DelDir, VnfdPath,
         VnfdZip, VnfdWrite
    <3>2. QED
      BY <1>1, <3>1
  <2>5. QED
    BY <2>1, <2>2, <2>3, <2>4
<1>5. ASSUME (\E w \in Workers : Crash(w)) \/ UNCHANGED vars
      PROVE  [Catalogue!Next]_ShownOf
  BY <1>1, <1>5 DEF Crash, vars
<1>6. QED
  BY <1>3, <1>4, <1>5 DEF Next

\* Where handlers take turns at a package and at a VNFD, the many steps of requests for
\* several packages, interleaved, with their failures and with handlers stopped at any of
\* them, show a client no more than the atomic operations of PackageCatalogue do.
THEOREM TurnsRefinement == Spec /\ []TakeTurns => ImplementsCatalogue
<1>1. Init => Catalogue!Init
  BY DEF Init, StoreInit, Catalogue!Init, Shown, Stored, NoRow, EmptyRow
<1>2. TypeInv /\ ServableInv /\ VnfdInv /\ ArchiveInv /\ [Next]_vars => [Catalogue!Next]_ShownOf
  BY NextShown
<1>3. TakeTurns => Apart /\ ChecksApart
  BY DEF TakeTurns
<1>4. QED
  BY <1>1, <1>2, <1>3, VnfdInvariant, ArchiveInvariant, PTL
  DEF Spec, ImplementsCatalogue, Catalogue!Spec, ShownOf

=============================================================================
