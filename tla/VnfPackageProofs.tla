---------------------------- MODULE VnfPackageProofs ----------------------------
(***************************************************************************)
(* Proofs about VnfPackage, for every set of packages, VNFDs, file names   *)
(* and workers.                                                            *)
(***************************************************************************)
EXTENDS VnfPackage, TLAPS

\* What the request of a worker holds when a step is about to use it.
ReqOK ==
  \A w \in Workers :
    /\ pc[w] # "idle" => req[w].pkg \in Pkgs
    /\ pc[w] \in {"saving", "processing", "parsing", "checking", "committing",
                  "uri_mark", "uri_announce", "uri_fetch"} => req[w].file \in Files
    /\ pc[w] \in {"checking", "committing", "vnfd_write"} => req[w].vnfd \in Vnfds

TypeInv == TypeOK /\ ReqOK

LEMMA InitType == Init => TypeInv
  BY DEF Init, StoreInit, NoFiles, TypeInv, TypeOK, StoreTypeOK, ReqOK, EmptyRow, PkgRow, NoRow,
         Settled, InProgress, Content, NoReq, Request, Label

\* An update of the state of a package keeps the rows rows.
LEMMA SetStateType ==
  ASSUME TypeOK, NEW p \in Pkgs, NEW s \in Settled \cup InProgress
  PROVE  SetState(p, s) \in [Pkgs -> PkgRow]
  BY DEF TypeOK, StoreTypeOK, SetState, PkgRow

LEMMA EmptyRowType ==
  ASSUME NEW s \in Settled \cup InProgress \cup NoRow
  PROVE  EmptyRow(s) \in PkgRow
  BY DEF EmptyRow, PkgRow

\* A step of a handler changes its own label and request only.
LEMMA BeginType ==
  ASSUME TypeInv, NEW w \in Workers, NEW p \in Pkgs, Begin(w, p)
  PROVE  TypeInv'
<1>1. CASE CreateVnfPkg(w, p)
  <2>1. row' \in [Pkgs -> PkgRow]
    BY <1>1, EmptyRowType DEF CreateVnfPkg, TypeInv, TypeOK, StoreTypeOK, Settled
  <2>2. QED
    BY <1>1, <2>1 DEF CreateVnfPkg, TypeInv, TypeOK, StoreTypeOK, ReqOK
<1>2. ASSUME NEW f \in Files, Upload(w, p, f)
      PROVE  TypeInv'
  <2>1. row' \in [Pkgs -> PkgRow]
    BY <1>2, SetStateType DEF Upload, TypeInv, InProgress
  <2>2. QED
    BY <1>2, <2>1 DEF Upload, Start, TypeInv, TypeOK, StoreTypeOK, ReqOK, Request, Label
<1>3. ASSUME NEW f \in Files, UploadFromUri(w, p, f)
      PROVE  TypeInv'
  BY <1>3 DEF UploadFromUri, Start, TypeInv, TypeOK, StoreTypeOK, ReqOK, Request, Label
<1>4. CASE RefuseUpload(w, p)
  <2>1. row' \in [Pkgs -> PkgRow]
    BY <1>4, SetStateType DEF RefuseUpload, TypeInv, Settled
  <2>2. QED
    BY <1>4, <2>1 DEF RefuseUpload, TypeInv, TypeOK, StoreTypeOK, ReqOK
<1>5. CASE DeleteVnfPkg(w, p)
  BY <1>5 DEF DeleteVnfPkg, Start, TypeInv, TypeOK, StoreTypeOK, ReqOK, Request, Label
<1>6. CASE DownloadVnfd(w, p)
  BY <1>6 DEF DownloadVnfd, Start, TypeInv, TypeOK, StoreTypeOK, ReqOK, Request, Label
<1>7. QED
  BY <1>1, <1>2, <1>3, <1>4, <1>5, <1>6 DEF Begin

\* Moving on keeps labels and requests well formed.
ReqType ==
  /\ pc \in [Workers -> Label]
  /\ req \in [Workers -> Request]
  /\ ReqOK

LEMMA FinishType ==
  ASSUME TypeInv, NEW w \in Workers, Finish(w)
  PROVE  ReqType'
  BY DEF Finish, NoReq, TypeInv, TypeOK, StoreTypeOK, ReqType, ReqOK, Request, Label

LEMMA FailType ==
  ASSUME TypeInv, NEW w \in Workers, pc[w] # "idle", Fail(w)
  PROVE  ReqType'
  BY DEF Fail, Goto, TypeInv, TypeOK, StoreTypeOK, ReqType, ReqOK, Label

LEMMA KeepType ==
  ASSUME TypeInv, NEW w \in Workers, pc[w] # "idle",
         NEW v \in Vnfds \cup {None}, NEW l \in {"checking", "vnfd_write", "del_row"},
         l # "del_row" => v \in Vnfds,
         l = "checking" => req[w].file \in Files,
         Keep(w, v, l)
  PROVE  ReqType'
<1>1. /\ pc' \in [Workers -> Label]
      /\ req' \in [Workers -> Request]
  BY DEF Keep, TypeInv, TypeOK, StoreTypeOK, Request, Label
<1>2. /\ \A u \in Workers \ {w} : pc'[u] = pc[u] /\ req'[u] = req[u]
      /\ pc'[w] = l
      /\ req'[w] = [req[w] EXCEPT !.vnfd = v]
  BY DEF Keep, TypeInv, TypeOK, StoreTypeOK
<1>3. /\ req'[w].vnfd = v
      /\ req'[w].pkg = req[w].pkg
      /\ req'[w].file = req[w].file
  BY <1>2 DEF TypeInv, TypeOK, StoreTypeOK, Request
<1>4. ReqOK'
  BY <1>2, <1>3 DEF TypeInv, ReqOK
<1>5. QED
  BY <1>1, <1>4 DEF ReqType

\* A worker that stops half-way, wherever it is.
LEMMA StopType ==
  ASSUME TypeInv, NEW w \in Workers, Crash(w) \/ UriRefused(w)
  PROVE  TypeInv'
<1>1. Finish(w) /\ UNCHANGED <<row, disk, zip>>
  BY DEF Crash, UriRefused, Stop
<1>2. lost' \in [Pkgs -> SUBSET {"killed", "refused"}]
  <2>1. req[w].pkg \in Pkgs
    BY DEF Crash, UriRefused, At, TypeInv, ReqOK
  <2>2. QED
    BY <2>1 DEF Crash, UriRefused, Stop, TypeInv, TypeOK
<1>3. QED
  BY <1>1, <1>2 DEF Finish, NoReq, TypeInv, TypeOK, StoreTypeOK, ReqOK, Request, Label

LEMMA StepType ==
  ASSUME TypeInv, NEW w \in Workers, Step(w)
  PROVE  TypeInv'
<1>1. CASE Save(w)
  <2>1. disk' \in [Pkgs -> [Files -> Content \cup {None}]]
    <3>1. req[w].pkg \in Pkgs /\ req[w].file \in Files
      BY <1>1 DEF Save, At, TypeInv, ReqOK
    <3>2. CASE disk' = disk
      BY <3>2 DEF TypeInv, TypeOK, StoreTypeOK
    <3>3. ASSUME NEW c \in Content, disk' = [disk EXCEPT ![req[w].pkg][req[w].file] = c]
          PROVE  disk' \in [Pkgs -> [Files -> Content \cup {None}]]
      BY <3>1, <3>3 DEF TypeInv, TypeOK, StoreTypeOK
    <3>4. QED
      BY <1>1, <3>2, <3>3 DEF Save
  <2>2. ReqType'
    <3>1. CASE Goto(w, "processing")
      BY <1>1, <3>1 DEF Save, Goto, At, TypeInv, TypeOK, StoreTypeOK, ReqOK, ReqType, Label
    <3>2. CASE Fail(w)
      BY <1>1, <3>2, FailType DEF Save, At
    <3>3. QED
      BY <1>1, <3>1, <3>2 DEF Save
  <2>3. QED
    BY <1>1, <2>1, <2>2 DEF Save, TypeInv, TypeOK, StoreTypeOK, ReqType
<1>2. CASE Process(w)
  <2>1. req[w].pkg \in Pkgs
    BY <1>2 DEF Process, At, TypeInv, ReqOK
  <2>2. row' \in [Pkgs -> PkgRow]
    BY <1>2, <2>1, SetStateType DEF Process, TypeInv, InProgress
  <2>3. QED
    BY <1>2, <2>2 DEF Process, Goto, At, TypeInv, TypeOK, StoreTypeOK, ReqOK, Request, Label
<1>3. CASE ParseVnfd(w)
  <2>1. ReqType'
    <3>1. CASE Finish(w)
      BY <3>1 DEF Finish, NoReq, TypeInv, TypeOK, ReqOK, ReqType, Request, Label
    <3>2. CASE ~Finish(w)
      BY <1>3, <3>2, KeepType, FailType DEF ParseVnfd, At, TypeInv, ReqOK
    <3>3. QED
      BY <3>1, <3>2
  <2>2. QED
    BY <1>3, <2>1 DEF ParseVnfd, TypeInv, TypeOK, StoreTypeOK, ReqType
<1>4. CASE CheckOtherPkg(w)
  BY <1>4 DEF CheckOtherPkg, Goto, Fail, At, TypeInv, TypeOK, StoreTypeOK, ReqOK, Request, Label
<1>5. CASE Commit(w)
  <2>1. OnboardedRow(req[w].vnfd, req[w].file) \in PkgRow
    BY <1>5 DEF Commit, At, TypeInv, ReqOK, OnboardedRow, PkgRow, Settled
  <2>2. row' \in [Pkgs -> PkgRow]
    BY <1>5, <2>1 DEF Commit, TypeInv, TypeOK, StoreTypeOK
  <2>3. QED
    BY <1>5, <2>2 DEF Commit, Goto, At, TypeInv, TypeOK, StoreTypeOK, ReqOK, Request, Label
<1>6. CASE NotifyOnboarded(w)
  BY <1>6 DEF NotifyOnboarded, Finish, NoReq, At, TypeInv, TypeOK, StoreTypeOK, ReqOK, Request,
       Label
<1>7. CASE HandleUploadFailed(w)
  <2>1. req[w].pkg \in Pkgs
    BY <1>7 DEF HandleUploadFailed, At, TypeInv, ReqOK
  <2>2. row' \in [Pkgs -> PkgRow]
    BY <1>7, <2>1, SetStateType DEF HandleUploadFailed, TypeInv, Settled
  <2>3. QED
    BY <1>7, <2>2 DEF HandleUploadFailed, Finish, NoReq, At, TypeInv, TypeOK, StoreTypeOK,
         ReqOK, Request, Label
<1>8. CASE UriMark(w)
  <2>1. req[w].pkg \in Pkgs
    BY <1>8 DEF UriMark, At, TypeInv, ReqOK
  <2>2. row' \in [Pkgs -> PkgRow]
    BY <1>8, <2>1, SetStateType DEF UriMark, TypeInv, InProgress
  <2>3. QED
    BY <1>8, <2>2 DEF UriMark, Goto, At, TypeInv, TypeOK, StoreTypeOK, ReqOK, Request, Label
<1>9. CASE UriAnnounce(w)
  BY <1>9 DEF UriAnnounce, Goto, At, TypeInv, TypeOK, StoreTypeOK, ReqOK, Request, Label
<1>10. CASE UriUnreachable(w)
  BY <1>10 DEF UriUnreachable, Goto, Fail, At, TypeInv, TypeOK, StoreTypeOK, ReqOK, Request, Label
<1>11. ASSUME NEW c \in Content, UriFetch(w, c)
      PROVE  TypeInv'
  BY <1>11 DEF UriFetch, Goto, Fail, Content, At, TypeInv, TypeOK, StoreTypeOK, ReqOK, Request,
       Label
<1>12. CASE UriFailRead(w)
  <2>1. CASE Goto(w, "uri_reset")
    BY <1>12, <2>1 DEF UriFailRead, Goto, At, TypeInv, TypeOK, StoreTypeOK, ReqOK, Label
  <2>2. CASE Finish(w)
    BY <1>12, <2>2, FinishType DEF UriFailRead, TypeInv, TypeOK, StoreTypeOK, ReqType
  <2>3. QED
    BY <1>12, <2>1, <2>2 DEF UriFailRead
<1>13. CASE UriReset(w)
  <2>1. req[w].pkg \in Pkgs
    BY <1>13 DEF UriReset, At, TypeInv, ReqOK
  <2>2. row' \in [Pkgs -> PkgRow]
    BY <1>13, <2>1, SetStateType DEF UriReset, TypeInv, Settled
  <2>3. QED
    BY <1>13, <2>2 DEF UriReset, Finish, NoReq, At, TypeInv, TypeOK, StoreTypeOK, ReqOK,
         Request, Label
<1>14. CASE DelInspect(w)
  <2>1. ASSUME Keep(w, row[req[w].pkg].vnfd, "del_row")
        PROVE  ReqType'
    <3>1. row[req[w].pkg].vnfd \in Vnfds \cup {None}
      BY <1>14 DEF DelInspect, At, TypeInv, TypeOK, StoreTypeOK, ReqOK, PkgRow
    <3>2. QED
      BY <1>14, <2>1, <3>1, KeepType DEF DelInspect, At
  <2>2. ReqType'
    BY <1>14, <2>1, FinishType DEF DelInspect
  <2>3. QED
    BY <1>14, <2>2 DEF DelInspect, TypeInv, TypeOK, StoreTypeOK, ReqType
<1>15. CASE DelRow(w)
  <2>1. row' \in [Pkgs -> PkgRow]
    BY <1>15, EmptyRowType DEF DelRow, TypeInv, TypeOK, StoreTypeOK, NoRow
  <2>2. QED
    BY <1>15, <2>1 DEF DelRow, Goto, At, TypeInv, TypeOK, StoreTypeOK, ReqOK, Request, Label
<1>16. CASE DelAnnounce(w)
  BY <1>16 DEF DelAnnounce, Goto, At, TypeInv, TypeOK, StoreTypeOK, ReqOK, Request, Label
<1>17. CASE DelDir(w)
  BY <1>17 DEF DelDir, NoFiles, Finish, NoReq, At, TypeInv, TypeOK, StoreTypeOK, ReqOK, Request,
       Label
<1>18. CASE VnfdPath(w)
  <2>1. ReqType'
    <3>1. CASE Stored(req[w].pkg)
      <4>1. row[req[w].pkg].path \in Files \cup {None}
        BY <1>18 DEF VnfdPath, At, TypeInv, TypeOK, StoreTypeOK, ReqOK, PkgRow
      <4>2. /\ pc' = [pc EXCEPT ![w] = "vnfd_zip"]
            /\ req' = [req EXCEPT ![w].file = row[req[w].pkg].path]
        BY <1>18, <3>1 DEF VnfdPath
      <4>3. pc' \in [Workers -> Label] /\ req' \in [Workers -> Request]
        <5>1. req[w] \in Request
          BY DEF TypeInv, TypeOK
        <5>2. [req[w] EXCEPT !.file = row[req[w].pkg].path] \in Request
          BY <4>1, <5>1 DEF Request
        <5>3. QED
          BY <4>2, <5>2 DEF TypeInv, TypeOK, Label
      <4>4. /\ \A u \in Workers \ {w} : pc'[u] = pc[u] /\ req'[u] = req[u]
            /\ pc'[w] = "vnfd_zip"
            /\ req'[w].pkg = req[w].pkg
        BY <4>2 DEF TypeInv, TypeOK, StoreTypeOK, Request
      <4>5. ReqOK'
        BY <1>18, <4>4 DEF VnfdPath, At, TypeInv, ReqOK
      <4>6. QED
        BY <4>3, <4>5 DEF ReqType
    <3>2. CASE ~Stored(req[w].pkg)
      BY <1>18, <3>2, FinishType DEF VnfdPath
    <3>3. QED
      BY <3>1, <3>2
  <2>2. QED
    BY <1>18, <2>1 DEF VnfdPath, TypeInv, TypeOK, StoreTypeOK, ReqType
<1>19. CASE VnfdZip(w)
  <2>1. ReqType'
    BY <1>19, KeepType, FinishType DEF VnfdZip, At
  <2>2. QED
    BY <1>19, <2>1 DEF VnfdZip, TypeInv, TypeOK, StoreTypeOK, ReqType
<1>20. CASE VnfdWrite(w)
  <2>1. zip' \in [Pkgs -> Content \cup {None}]
    <3>1. req[w].vnfd \in Content /\ Broken \in Content
      BY <1>20 DEF VnfdWrite, At, Content, TypeInv, ReqOK
    <3>2. QED
      BY <1>20, <3>1 DEF VnfdWrite, TypeInv, TypeOK, StoreTypeOK
  <2>2. QED
    BY <1>20, <2>1 DEF VnfdWrite, Finish, NoReq, At, TypeInv, TypeOK, StoreTypeOK, ReqOK,
       Request, Label
<1>21. QED
  BY <1>1, <1>2, <1>3, <1>4, <1>5, <1>6, <1>7, <1>8, <1>9, <1>10,
     <1>11, <1>12, <1>13, <1>14, <1>15, <1>16, <1>17, <1>18, <1>19, <1>20, StopType
  DEF Step, OwnStep, OutsideStep

LEMMA NextType == TypeInv /\ [Next]_vars => TypeInv'
<1> SUFFICES ASSUME TypeInv, [Next]_vars
             PROVE  TypeInv'
  OBVIOUS
<1>1. CASE Next
  BY <1>1, BeginType, StepType, StopType DEF Next
<1>2. CASE UNCHANGED vars
  BY <1>2 DEF vars, TypeInv, TypeOK, StoreTypeOK, ReqOK
<1>3. QED
  BY <1>1, <1>2

\* Every variable keeps its type, and a request the values its next step needs.
THEOREM TypeCorrect == Spec => []TypeInv
<1>1. Init => TypeInv
  BY InitType
<1>2. TypeInv /\ [Next]_vars => TypeInv'
  BY NextType
<1>3. QED
  BY <1>1, <1>2, PTL DEF Spec

\* The type invariant the runs check.
THEOREM WellTyped == Spec => []TypeOK
<1>1. TypeInv => TypeOK
  BY DEF TypeInv
<1>2. QED
  BY <1>1, TypeCorrect, PTL

-----------------------------------------------------------------------------
(***************************************************************************)
(* OnboardedIsServable.  The invariant adds what keeps the archive of a    *)
(* row on disk: a handler on its way to write the row has the archive      *)
(* stored, unless the package is gone, and a handler about to remove a     *)
(* directory has removed the row, for good.                                *)
(***************************************************************************)

IsGone(p) == row[p].state = "GONE"

RowOK ==
  \A p \in Pkgs :
    /\ row[p].state = "ONBOARDED" => /\ row[p].oper = "ENABLED"
                                     /\ row[p].vnfd \in Vnfds
                                     /\ row[p].path \in Files
    /\ Stored(p) /\ row[p].path \in Files => disk[p][row[p].path] # None

WorkerOK(w) ==
  /\ pc[w] # "idle" => Known(req[w].pkg)
  /\ pc[w] \in {"processing", "parsing", "checking", "committing"} =>
       IsGone(req[w].pkg) \/ disk[req[w].pkg][req[w].file] # None
  /\ pc[w] \in {"del_announce", "del_dir"} => IsGone(req[w].pkg)

ServableInv == RowOK /\ \A w \in Workers : WorkerOK(w)

\* What no step undoes: a package that is known, one that is gone, and an
\* archive of a package that is not gone.
Persists ==
  \A p \in Pkgs :
    /\ Known(p) => Known(p)'
    /\ IsGone(p) => IsGone(p)'
    /\ \A f \in Files : disk[p][f] # None => disk'[p][f] # None \/ IsGone(p)'

\* Only worker w moves.
Moves(w) == \A u \in Workers \ {w} : pc'[u] = pc[u] /\ req'[u] = req[u]

LEMMA ServableFrame ==
  ASSUME TypeInv, ServableInv, NEW w \in Workers, Moves(w), Persists, WorkerOK(w)', RowOK'
  PROVE  ServableInv'
<1>1. ASSUME NEW u \in Workers \ {w}
      PROVE  WorkerOK(u)'
  <2>1. pc'[u] = pc[u] /\ req'[u] = req[u]
    BY DEF Moves
  <2>2. pc[u] # "idle" => req[u].pkg \in Pkgs
    BY DEF TypeInv, ReqOK
  <2>3. pc[u] \in {"processing", "parsing", "checking", "committing"} => req[u].file \in Files
    BY DEF TypeInv, ReqOK
  <2>4. WorkerOK(u)
    BY DEF ServableInv
  <2>5. QED
    BY <2>1, <2>2, <2>3, <2>4 DEF WorkerOK, Persists, Known, IsGone
<1>2. QED
  BY <1>1 DEF ServableInv

\* A step that touches neither the rows nor the archives.
LEMMA QuietStep ==
  ASSUME TypeInv, ServableInv, NEW w \in Workers, row' = row, disk' = disk, Moves(w), WorkerOK(w)'
  PROVE  ServableInv'
<1>1. Persists
  BY DEF Persists, Known, IsGone
<1>2. RowOK'
  BY DEF ServableInv, RowOK, Stored
<1>3. QED
  BY <1>1, <1>2, ServableFrame

\* update(onboardingState=s), for any s but ONBOARDED.
LEMMA SetStateServable ==
  ASSUME TypeInv, ServableInv, NEW w \in Workers, NEW p \in Pkgs,
         NEW s \in {"CREATED", "UPLOADING", "PROCESSING"},
         row' = SetState(p, s), disk' = disk
  PROVE  Persists /\ RowOK'
<1>1. \A q \in Pkgs : row'[q] = row[q] \/ /\ q = p
                                          /\ Stored(p)
                                          /\ row'[q] = [row[q] EXCEPT !.state = s]
  BY DEF SetState, TypeInv, TypeOK, StoreTypeOK
<1>2. \A q \in Pkgs : /\ row'[q].path = row[q].path
                      /\ row'[q] = row[q] \/ (Stored(q) /\ row'[q].state = s)
  BY <1>1 DEF TypeInv, TypeOK, StoreTypeOK, PkgRow
<1>3. Persists
  BY <1>2 DEF Persists, Known, IsGone, Stored, NoRow
<1>4. RowOK'
  BY <1>2 DEF ServableInv, RowOK, Stored, NoRow
<1>5. QED
  BY <1>3, <1>4

LEMMA BeginMoves ==
  ASSUME TypeInv, NEW w \in Workers, NEW p \in Pkgs, Begin(w, p)
  PROVE  Moves(w)
  BY DEF Moves, Begin, CreateVnfPkg, Upload, UploadFromUri, RefuseUpload, DeleteVnfPkg,
         DownloadVnfd, Start, TypeInv, TypeOK, StoreTypeOK

LEMMA StepMoves ==
  ASSUME TypeInv, NEW w \in Workers, Step(w) \/ Crash(w)
  PROVE  Moves(w)
<1>1. /\ \A u \in Workers \ {w} : pc'[u] = pc[u]
      /\ \A u \in Workers \ {w} : req'[u] = req[u]
  BY DEF Step, OwnStep, OutsideStep, Crash, Save, Process, ParseVnfd, CheckOtherPkg, Commit,
         NotifyOnboarded, HandleUploadFailed, UriMark, UriAnnounce, UriUnreachable, UriRefused,
         UriFetch, UriFailRead, Stop, UriReset, DelInspect, DelRow, DelAnnounce, DelDir,
         VnfdPath, VnfdZip, VnfdWrite, Goto, Keep, Finish, Fail, TypeInv, TypeOK, StoreTypeOK
<1>2. QED
  BY <1>1 DEF Moves

LEMMA BeginServable ==
  ASSUME TypeInv, ServableInv, NEW w \in Workers, NEW p \in Pkgs, Begin(w, p)
  PROVE  ServableInv'
<1>1. Moves(w)
  BY BeginMoves
<1>2. CASE CreateVnfPkg(w, p)
  <2>1. \A q \in Pkgs : row'[q] = row[q] \/ /\ row[q].state = "UNBORN"
                                            /\ row'[q] = EmptyRow("CREATED")
    BY <1>2 DEF CreateVnfPkg, TypeInv, TypeOK, StoreTypeOK
  <2>2. None \notin Files
    BY ValuesAssumption
  <2>3. disk' = disk /\ pc' = pc /\ req' = req
    BY <1>2 DEF CreateVnfPkg
  <2>4. Persists
    BY <2>1, <2>3 DEF Persists, Known, IsGone, EmptyRow
  <2>5. RowOK'
    BY <2>1, <2>2, <2>3 DEF ServableInv, RowOK, Stored, EmptyRow
  <2>6. WorkerOK(w)'
    BY <1>2, <2>3 DEF CreateVnfPkg, At, WorkerOK
  <2>7. QED
    BY <1>1, <2>4, <2>5, <2>6, ServableFrame
<1>3. ASSUME NEW f \in Files, Upload(w, p, f)
      PROVE  ServableInv'
  <2>1. Persists /\ RowOK'
    BY <1>3, SetStateServable DEF Upload
  <2>2. WorkerOK(w)'
    BY <1>3, <2>1 DEF Upload, Start, WorkerOK, Persists, TypeInv, TypeOK, StoreTypeOK
  <2>3. QED
    BY <1>1, <2>1, <2>2, ServableFrame
<1>4. ASSUME NEW f \in Files, UploadFromUri(w, p, f)
      PROVE  ServableInv'
  <2>1. WorkerOK(w)'
    BY <1>4 DEF UploadFromUri, Start, WorkerOK, Known, TypeInv, TypeOK, StoreTypeOK
  <2>2. QED
    BY <1>1, <1>4, <2>1, QuietStep DEF UploadFromUri
<1>5. CASE RefuseUpload(w, p)
  <2>1. Persists /\ RowOK'
    BY <1>5, SetStateServable DEF RefuseUpload
  <2>2. WorkerOK(w)'
    BY <1>5 DEF RefuseUpload, At, WorkerOK
  <2>3. QED
    BY <1>1, <2>1, <2>2, ServableFrame
<1>6. CASE DeleteVnfPkg(w, p)
  <2>1. WorkerOK(w)'
    BY <1>6 DEF DeleteVnfPkg, Start, WorkerOK, Known, Stored, NoRow, TypeInv, TypeOK, StoreTypeOK
  <2>2. QED
    BY <1>1, <1>6, <2>1, QuietStep DEF DeleteVnfPkg
<1>7. CASE DownloadVnfd(w, p)
  <2>1. WorkerOK(w)'
    BY <1>7 DEF DownloadVnfd, Start, WorkerOK, Known, TypeInv, TypeOK, StoreTypeOK
  <2>2. QED
    BY <1>1, <1>7, <2>1, QuietStep DEF DownloadVnfd
<1>8. QED
  BY <1>2, <1>3, <1>4, <1>5, <1>6, <1>7 DEF Begin

\* A handler that writes its archive, whatever it writes.
LEMMA ArchiveWritten ==
  ASSUME TypeInv, ServableInv, NEW w \in Workers, Moves(w), pc[w] # "idle",
         NEW p \in Pkgs, NEW f \in Files, NEW c \in Content,
         NEW l \in {"processing", "failing", "uri_failing"},
         p = req[w].pkg, f = req[w].file, Goto(w, l),
         row' = row, disk' = [disk EXCEPT ![p][f] = c]
  PROVE  ServableInv'
<1>1. c # None
  BY ValuesAssumption DEF Content
<1>2. \A q \in Pkgs, g \in Files : disk'[q][g] = disk[q][g] \/ disk'[q][g] = c
  BY DEF TypeInv, TypeOK, StoreTypeOK
<1>3. disk'[p][f] = c
  BY DEF TypeInv, TypeOK, StoreTypeOK
<1>4. Persists
  BY <1>1, <1>2 DEF Persists, Known, IsGone
<1>5. RowOK'
  BY <1>1, <1>2 DEF ServableInv, RowOK, Stored
<1>6. WorkerOK(w)'
  BY <1>1, <1>3 DEF Goto, ServableInv, WorkerOK, Known, TypeInv, TypeOK, StoreTypeOK
<1>7. QED
  BY <1>4, <1>5, <1>6, ServableFrame

\* A handler that ends, or goes on to a step that relies on no archive.
LEMMA EndOrGoOn ==
  ASSUME TypeInv, NEW w \in Workers, WorkerOK(w), pc[w] # "idle", row' = row, disk' = disk,
         \/ Finish(w)
         \/ Fail(w)
         \/ \E v \in Vnfds \cup {None} : Keep(w, v, "vnfd_write") \/ Keep(w, v, "del_row")
  PROVE  WorkerOK(w)'
<1>1. CASE Finish(w)
  BY <1>1 DEF Finish, WorkerOK, TypeInv, TypeOK, StoreTypeOK
<1>2. CASE Fail(w)
  <2>1. pc'[w] \in {"failing", "uri_failing"} /\ req' = req
    BY <1>2 DEF Fail, Goto, TypeInv, TypeOK, StoreTypeOK
  <2>2. QED
    BY <2>1 DEF WorkerOK, Known
<1>3. ASSUME NEW v \in Vnfds \cup {None}, NEW l \in {"vnfd_write", "del_row"}, Keep(w, v, l)
      PROVE  WorkerOK(w)'
  <2>1. pc'[w] = l /\ req'[w].pkg = req[w].pkg
    BY <1>3 DEF Keep, TypeInv, TypeOK, StoreTypeOK, Request
  <2>2. QED
    BY <2>1 DEF WorkerOK, Known
<1>4. QED
  BY <1>1, <1>2, <1>3

\* A handler that found its archive on disk goes on with it.
LEMMA KeepsArchive ==
  ASSUME TypeInv, NEW w \in Workers, WorkerOK(w), row' = row, disk' = disk,
         pc[w] \in {"parsing", "checking"},
         Goto(w, "committing") \/ \E v \in Vnfds : Keep(w, v, "checking")
  PROVE  WorkerOK(w)'
<1>1. /\ pc'[w] \in {"checking", "committing"}
      /\ req'[w].pkg = req[w].pkg
      /\ req'[w].file = req[w].file
  BY DEF Goto, Keep, TypeInv, TypeOK, StoreTypeOK, Request
<1>2. QED
  BY <1>1 DEF WorkerOK, Known, IsGone

LEMMA StopServable ==
  ASSUME TypeInv, ServableInv, NEW w \in Workers, Crash(w) \/ UriRefused(w)
  PROVE  ServableInv'
<1>1. Finish(w) /\ UNCHANGED <<row, disk, zip>>
  BY DEF Crash, UriRefused, Stop
<1>2. WorkerOK(w)'
  BY <1>1 DEF Finish, WorkerOK, TypeInv, TypeOK, StoreTypeOK
<1>3. Moves(w)
  BY StepMoves DEF Step, OutsideStep
<1>4. QED
  BY <1>1, <1>2, <1>3, QuietStep

LEMMA StepServable ==
  ASSUME TypeInv, ServableInv, NEW w \in Workers, Step(w)
  PROVE  ServableInv'
<1>1. Moves(w)
  BY StepMoves
<1>2. WorkerOK(w) /\ RowOK
  BY DEF ServableInv
<1>3. CASE Save(w)
  <2>1. req[w].pkg \in Pkgs /\ req[w].file \in Files
    BY <1>3 DEF Save, At, TypeInv, ReqOK
  <2>2. CASE disk' = disk /\ Fail(w)
    <3>1. WorkerOK(w)'
      BY <1>2, <1>3, <2>2 DEF Save, At, Fail, Goto, WorkerOK, Known, TypeInv, TypeOK, StoreTypeOK
    <3>2. QED
      BY <1>1, <1>3, <2>2, <3>1, QuietStep DEF Save
  <2>3. ASSUME NEW c \in Content, Goto(w, "processing"),
               disk' = [disk EXCEPT ![req[w].pkg][req[w].file] = c]
        PROVE  ServableInv'
    BY <1>1, <1>3, <2>1, <2>3, ArchiveWritten DEF Save, At
  <2>4. ASSUME NEW c \in Content, Fail(w),
               disk' = [disk EXCEPT ![req[w].pkg][req[w].file] = c]
        PROVE  ServableInv'
    BY <1>1, <1>3, <2>1, <2>4, ArchiveWritten DEF Save, At, Fail
  <2>5. QED
    BY <1>3, <2>2, <2>3, <2>4 DEF Save
<1>4. CASE Process(w)
  <2>1. req[w].pkg \in Pkgs
    BY <1>4 DEF Process, At, TypeInv, ReqOK
  <2>2. Persists /\ RowOK'
    BY <1>4, <2>1, SetStateServable DEF Process
  <2>3. WorkerOK(w)'
    BY <1>2, <1>4, <2>1, <2>2 DEF Process, Goto, At, WorkerOK, Known, IsGone, Persists, TypeInv,
         TypeOK, StoreTypeOK
  <2>4. QED
    BY <1>1, <2>2, <2>3, ServableFrame
<1>5. CASE ParseVnfd(w)
  <2>1. WorkerOK(w)'
    BY <1>2, <1>5, EndOrGoOn, KeepsArchive DEF ParseVnfd, At
  <2>2. QED
    BY <1>1, <1>5, <2>1, QuietStep DEF ParseVnfd
<1>6. CASE CheckOtherPkg(w)
  <2>1. WorkerOK(w)'
    BY <1>2, <1>6, EndOrGoOn, KeepsArchive DEF CheckOtherPkg, At
  <2>2. QED
    BY <1>1, <1>6, <2>1, QuietStep DEF CheckOtherPkg
<1>7. CASE Commit(w)
  <2>1. /\ req[w].pkg \in Pkgs
        /\ req[w].file \in Files
        /\ req[w].vnfd \in Vnfds
    BY <1>7 DEF Commit, At, TypeInv, ReqOK
  <2>2. \A q \in Pkgs : row'[q] = row[q] \/ /\ q = req[w].pkg
                                            /\ Stored(q)
                                            /\ row'[q] = OnboardedRow(req[w].vnfd, req[w].file)
    BY <1>7 DEF Commit, TypeInv, TypeOK, StoreTypeOK
  <2>3. disk' = disk
    BY <1>7 DEF Commit
  <2>4. Stored(req[w].pkg) => disk[req[w].pkg][req[w].file] # None
    BY <1>2, <1>7 DEF Commit, At, WorkerOK, IsGone, Stored, NoRow
  <2>5. Persists
    BY <2>2, <2>3 DEF Persists, Known, IsGone, Stored, NoRow, OnboardedRow
  <2>6. RowOK'
    BY <1>2, <2>1, <2>2, <2>3, <2>4 DEF RowOK, Stored, OnboardedRow
  <2>7. WorkerOK(w)'
    BY <1>2, <1>7, <2>1, <2>5 DEF Commit, Goto, At, WorkerOK, Persists, TypeInv, TypeOK,
         StoreTypeOK
  <2>8. QED
    BY <1>1, <2>5, <2>6, <2>7, ServableFrame
<1>8. CASE NotifyOnboarded(w)
  <2>1. WorkerOK(w)'
    BY <1>2, <1>8 DEF NotifyOnboarded, Finish, At, WorkerOK, Known, TypeInv, TypeOK, StoreTypeOK
  <2>2. QED
    BY <1>1, <1>8, <2>1, QuietStep DEF NotifyOnboarded
<1>9. CASE HandleUploadFailed(w)
  <2>1. req[w].pkg \in Pkgs
    BY <1>9 DEF HandleUploadFailed, At, TypeInv, ReqOK
  <2>2. Persists /\ RowOK'
    BY <1>9, <2>1, SetStateServable DEF HandleUploadFailed
  <2>3. WorkerOK(w)'
    BY <1>2, <1>9, <2>1, <2>2 DEF HandleUploadFailed, Finish, At, WorkerOK, Known, IsGone,
         Persists, TypeInv, TypeOK, StoreTypeOK
  <2>4. QED
    BY <1>1, <2>2, <2>3, ServableFrame
<1>10. CASE UriMark(w)
  <2>1. req[w].pkg \in Pkgs
    BY <1>10 DEF UriMark, At, TypeInv, ReqOK
  <2>2. Persists /\ RowOK'
    BY <1>10, <2>1, SetStateServable DEF UriMark
  <2>3. WorkerOK(w)'
    BY <1>2, <1>10, <2>1, <2>2 DEF UriMark, Goto, At, WorkerOK, Known, IsGone, Persists,
         TypeInv, TypeOK, StoreTypeOK
  <2>4. QED
    BY <1>1, <2>2, <2>3, ServableFrame
<1>11. CASE UriAnnounce(w)
  <2>1. WorkerOK(w)'
    BY <1>2, <1>11 DEF UriAnnounce, Goto, At, WorkerOK, Known, TypeInv, TypeOK, StoreTypeOK
  <2>2. QED
    BY <1>1, <1>11, <2>1, QuietStep DEF UriAnnounce
<1>12. CASE UriUnreachable(w)
  <2>1. WorkerOK(w)'
    BY <1>2, <1>12 DEF UriUnreachable, Goto, Fail, At, WorkerOK, Known, TypeInv, TypeOK,
         StoreTypeOK
  <2>2. QED
    BY <1>1, <1>12, <2>1, QuietStep DEF UriUnreachable
<1>13. ASSUME NEW c \in Content, UriFetch(w, c)
      PROVE  ServableInv'
  <2>1. req[w].pkg \in Pkgs /\ req[w].file \in Files
    BY <1>13 DEF UriFetch, At, TypeInv, ReqOK
  <2>2. PICK l \in {"processing", "failing", "uri_failing"} : Goto(w, l)
    BY <1>13 DEF UriFetch, Fail
  <2>3. PICK d \in Content : disk' = [disk EXCEPT ![req[w].pkg][req[w].file] = d]
    BY <1>13 DEF UriFetch, Content
  <2>4. pc[w] # "idle" /\ row' = row
    BY <1>13 DEF UriFetch, At
  <2>5. QED
    BY <1>1, <2>1, <2>2, <2>3, <2>4, ArchiveWritten
<1>14. CASE UriFailRead(w)
  <2>1. WorkerOK(w)'
    BY <1>2, <1>14 DEF UriFailRead, Goto, Finish, At, WorkerOK, Known, TypeInv, TypeOK,
         StoreTypeOK
  <2>2. QED
    BY <1>1, <1>14, <2>1, QuietStep DEF UriFailRead
<1>15. CASE UriReset(w)
  <2>1. req[w].pkg \in Pkgs
    BY <1>15 DEF UriReset, At, TypeInv, ReqOK
  <2>2. Persists /\ RowOK'
    BY <1>15, <2>1, SetStateServable DEF UriReset
  <2>3. WorkerOK(w)'
    BY <1>2, <1>15, <2>1, <2>2 DEF UriReset, Finish, At, WorkerOK, Known, IsGone, Persists,
         TypeInv, TypeOK, StoreTypeOK
  <2>4. QED
    BY <1>1, <2>2, <2>3, ServableFrame
<1>16. CASE DelInspect(w)
  <2>1. WorkerOK(w)'
    <3>1. req[w].pkg \in Pkgs
      BY <1>16 DEF DelInspect, At, TypeInv, ReqOK
    <3>2. row[req[w].pkg].vnfd \in Vnfds \cup {None}
      BY <3>1 DEF TypeInv, TypeOK, StoreTypeOK, PkgRow
    <3>3. QED
      BY <1>2, <1>16, <3>2, EndOrGoOn DEF DelInspect, At
  <2>2. QED
    BY <1>1, <1>16, <2>1, QuietStep DEF DelInspect
<1>17. CASE DelRow(w)
  <2>1. req[w].pkg \in Pkgs
    BY <1>17 DEF DelRow, At, TypeInv, ReqOK
  <2>2. /\ row'[req[w].pkg] = EmptyRow("GONE")
        /\ \A q \in Pkgs : row'[q] = row[q] \/ row'[q] = EmptyRow("GONE")
    BY <1>17, <2>1 DEF DelRow, TypeInv, TypeOK, StoreTypeOK
  <2>3. disk' = disk
    BY <1>17 DEF DelRow
  <2>4. Persists
    BY <2>2, <2>3 DEF Persists, Known, IsGone, EmptyRow
  <2>5. RowOK'
    BY <1>2, <2>2, <2>3 DEF RowOK, Stored, EmptyRow, NoRow
  <2>6. WorkerOK(w)'
    BY <1>17, <2>1, <2>2 DEF DelRow, Goto, WorkerOK, Known, IsGone, EmptyRow, TypeInv, TypeOK,
         StoreTypeOK
  <2>7. QED
    BY <1>1, <2>4, <2>5, <2>6, ServableFrame
<1>18. CASE DelAnnounce(w)
  <2>1. WorkerOK(w)'
    BY <1>2, <1>18 DEF DelAnnounce, Goto, At, WorkerOK, Known, IsGone, TypeInv, TypeOK,
         StoreTypeOK
  <2>2. QED
    BY <1>1, <1>18, <2>1, QuietStep DEF DelAnnounce
<1>19. CASE DelDir(w)
  <2>1. req[w].pkg \in Pkgs /\ IsGone(req[w].pkg)
    BY <1>2, <1>19 DEF DelDir, At, WorkerOK, TypeInv, ReqOK
  <2>2. row' = row /\ \A q \in Pkgs : disk'[q] = disk[q] \/ IsGone(q)
    BY <1>19, <2>1 DEF DelDir, TypeInv, TypeOK, StoreTypeOK
  <2>3. Persists
    BY <2>2 DEF Persists, Known, IsGone
  <2>4. RowOK'
    BY <1>2, <2>2 DEF RowOK, Stored, IsGone, NoRow
  <2>5. WorkerOK(w)'
    BY <1>19 DEF DelDir, Finish, WorkerOK, TypeInv, TypeOK, StoreTypeOK
  <2>6. QED
    BY <1>1, <2>3, <2>4, <2>5, ServableFrame
<1>20. CASE VnfdPath(w)
  <2>1. WorkerOK(w)'
    <3>1. CASE Finish(w)
      BY <1>2, <1>20, <3>1, EndOrGoOn DEF VnfdPath, At
    <3>2. CASE ~Finish(w)
      <4>1. /\ pc' = [pc EXCEPT ![w] = "vnfd_zip"]
            /\ req' = [req EXCEPT ![w].file = row[req[w].pkg].path]
        BY <1>20, <3>2 DEF VnfdPath
      <4>2. pc'[w] = "vnfd_zip" /\ req'[w].pkg = req[w].pkg
        BY <4>1 DEF TypeInv, TypeOK, StoreTypeOK, Request
      <4>3. QED
        BY <1>2, <1>20, <4>2 DEF VnfdPath, At, WorkerOK, Known
    <3>3. QED
      BY <3>1, <3>2
  <2>2. QED
    BY <1>1, <1>20, <2>1, QuietStep DEF VnfdPath
<1>21. CASE VnfdZip(w)
  <2>1. WorkerOK(w)'
    BY <1>2, <1>21, EndOrGoOn DEF VnfdZip, At
  <2>2. QED
    BY <1>1, <1>21, <2>1, QuietStep DEF VnfdZip
<1>22. CASE VnfdWrite(w)
  <2>1. WorkerOK(w)'
    BY <1>2, <1>22 DEF VnfdWrite, Finish, At, WorkerOK, Known, TypeInv, TypeOK, StoreTypeOK
  <2>2. QED
    BY <1>1, <1>22, <2>1, QuietStep DEF VnfdWrite
<1>23. QED
  BY <1>3, <1>4, <1>5, <1>6, <1>7, <1>8, <1>9, <1>10, <1>11, <1>12, <1>13,
     <1>14, <1>15, <1>16, <1>17, <1>18, <1>19, <1>20, <1>21, <1>22, StopServable
  DEF Step, OwnStep, OutsideStep

LEMMA NextServable == TypeInv /\ ServableInv /\ [Next]_vars => ServableInv'
<1> SUFFICES ASSUME TypeInv, ServableInv, [Next]_vars
             PROVE  ServableInv'
  OBVIOUS
<1>1. CASE UNCHANGED vars
  BY <1>1 DEF vars, ServableInv, RowOK, WorkerOK, Known, Stored, IsGone
<1>2. QED
  BY <1>1, BeginServable, StepServable, StopServable DEF Next

\* A package shown as ONBOARDED is enabled, names its VNFD and has the archive
\* its row points to, however the handlers of it interleave or are killed.
THEOREM Servable == Spec => []OnboardedIsServable
<1>1. Init => ServableInv
  BY DEF Init, StoreInit, ServableInv, RowOK, WorkerOK, Stored, EmptyRow, NoRow
<1>2. TypeInv /\ ServableInv /\ [Next]_vars => ServableInv'
  BY NextServable
<1>3. ServableInv => OnboardedIsServable
  BY DEF ServableInv, RowOK, OnboardedIsServable, Stored, NoRow
<1>4. QED
  BY <1>1, <1>2, <1>3, TypeCorrect, PTL DEF Spec

-----------------------------------------------------------------------------
(***************************************************************************)
(* DeletedStaysDeleted: the steps that write a row, and to which rows.     *)
(***************************************************************************)

\* A row is written when it is inserted, updated - which needs one - or deleted.
LEMMA RowWrites ==
  ASSUME TypeInv, [Next]_vars, NEW p \in Pkgs, row[p].state = "GONE"
  PROVE  row'[p].state = "GONE"
<1>1. ASSUME NEW w \in Workers, NEW q \in Pkgs, Begin(w, q)
      PROVE  row'[p] = row[p]
  BY <1>1 DEF Begin, CreateVnfPkg, Upload, UploadFromUri, RefuseUpload, DeleteVnfPkg,
         DownloadVnfd, SetState, Stored, NoRow, TypeInv, TypeOK, StoreTypeOK
<1>2. ASSUME NEW w \in Workers, DelRow(w)
      PROVE  row'[p].state = "GONE"
  BY <1>2 DEF DelRow, EmptyRow, TypeInv, TypeOK, StoreTypeOK
<1>3. ASSUME NEW w \in Workers, Step(w), ~DelRow(w)
      PROVE  row'[p] = row[p]
  BY <1>3 DEF Step, OwnStep, OutsideStep, Save, Process, ParseVnfd, CheckOtherPkg, Commit,
         NotifyOnboarded, HandleUploadFailed, UriMark, UriAnnounce, UriUnreachable, UriRefused,
         UriFetch, UriFailRead,
         UriReset, DelInspect, DelAnnounce, DelDir, VnfdPath, VnfdZip, VnfdWrite,
         SetState, Stored, NoRow, TypeInv, TypeOK, StoreTypeOK
<1>4. ASSUME (\E w \in Workers : Crash(w)) \/ UNCHANGED vars
      PROVE  row'[p] = row[p]
  BY <1>4 DEF Crash, vars
<1>5. QED
  BY <1>1, <1>2, <1>3, <1>4 DEF Next

\* A deleted package is never brought back by a handler that is still at work.
THEOREM DeletedForGood == Spec => DeletedStaysDeleted
<1>1. TypeInv /\ [Next]_vars => \A p \in Pkgs : row[p].state = "GONE" => row'[p].state = "GONE"
  BY RowWrites
<1>2. QED
  BY <1>1, TypeCorrect, PTL DEF Spec, DeletedStaysDeleted

-----------------------------------------------------------------------------
(***************************************************************************)
(* UploadIsAttended, when URIs answer with bytes.  The thread of an upload *)
(* from a URI then never gets past the fetch, so that only PUT handlers    *)
(* are at work on an archive: OnlyPut.                                     *)
(***************************************************************************)

OnlyPut ==
  \A w \in Workers :
    pc[w] \in {"saving", "processing", "parsing", "checking", "committing", "failing"} =>
      req[w].op = "put"

AttendedInv == UploadIsAttended /\ OnlyPut

\* What worker w has to see to in a step of its own: it goes on attending to a
\* package, or takes it out of the state it attends to it for.
StillAttends(w) ==
  \A p \in Pkgs : lost'[p] = {} =>
    /\ Attends(w, p, Uploaders) /\ row'[p].state = "UPLOADING" => Attends(w, p, Uploaders)'
    /\ Attends(w, p, Processors) /\ row'[p].state = "PROCESSING" => Attends(w, p, Processors)'

\* A package that comes to be in progress is attended to by w.
AttendsNew(w) ==
  \A p \in Pkgs : \/ row'[p].state = row[p].state
                  \/ row'[p].state \notin InProgress
                  \/ row'[p].state = "UPLOADING" /\ Attends(w, p, Uploaders)'
                  \/ row'[p].state = "PROCESSING" /\ Attends(w, p, Processors)'

LEMMA AttendedFrame ==
  ASSUME AttendedInv, NEW w \in Workers, Moves(w), \A p \in Pkgs : lost[p] \subseteq lost'[p],
         StillAttends(w), AttendsNew(w),
         pc'[w] \in {"saving", "processing", "parsing", "checking", "committing", "failing"} =>
           req'[w].op = "put"
  PROVE  AttendedInv'
<1>1. OnlyPut'
  BY DEF AttendedInv, OnlyPut, Moves
<1>2. ASSUME NEW p \in Pkgs, lost'[p] = {}, row'[p].state = "UPLOADING"
      PROVE  (\E u \in Workers : Attends(u, p, Uploaders))'
  <2>1. CASE row[p].state = "UPLOADING"
    <3>1. PICK u \in Workers : Attends(u, p, Uploaders)
      BY <2>1, <1>2 DEF AttendedInv, UploadIsAttended, SeenTo
    <3>2. Attends(u, p, Uploaders)' \/ Attends(w, p, Uploaders)'
      BY <1>2, <3>1 DEF Moves, StillAttends, Attends, Uploaders
    <3>3. QED
      BY <3>2
  <2>2. CASE row[p].state # "UPLOADING"
    BY <1>2, <2>2 DEF AttendsNew, InProgress
  <2>3. QED
    BY <2>1, <2>2
<1>3. ASSUME NEW p \in Pkgs, lost'[p] = {}, row'[p].state = "PROCESSING"
      PROVE  (\E u \in Workers : Attends(u, p, Processors))'
  <2>1. CASE row[p].state = "PROCESSING"
    <3>1. PICK u \in Workers : Attends(u, p, Processors)
      BY <2>1, <1>3 DEF AttendedInv, UploadIsAttended, SeenTo
    <3>2. Attends(u, p, Processors)' \/ Attends(w, p, Processors)'
      BY <1>3, <3>1 DEF Moves, StillAttends, Attends, Processors
    <3>3. QED
      BY <3>2
  <2>2. CASE row[p].state # "PROCESSING"
    BY <1>3, <2>2 DEF AttendsNew, InProgress
  <2>3. QED
    BY <2>1, <2>2
<1>4. QED
  BY <1>1, <1>2, <1>3 DEF AttendedInv, UploadIsAttended, SeenTo

\* What an update of the state does to the state of any package.
LEMMA SetStateState ==
  ASSUME TypeInv, NEW p \in Pkgs, NEW s \in Settled \cup InProgress, row' = SetState(p, s)
  PROVE  \A q \in Pkgs : \/ q # p /\ row'[q].state = row[q].state
                         \/ q = p /\ (row'[q].state = s \/ row'[q].state \in NoRow)
  BY DEF SetState, Stored, TypeInv, TypeOK, StoreTypeOK, PkgRow

LEMMA BeginAttended ==
  ASSUME TypeInv, AttendedInv, NEW w \in Workers, NEW p \in Pkgs, Begin(w, p)
  PROVE  AttendedInv'
<1>1. Moves(w) /\ lost' = lost
  BY BeginMoves DEF Begin, CreateVnfPkg, Upload, UploadFromUri, RefuseUpload, DeleteVnfPkg,
                    DownloadVnfd
<1>2. StillAttends(w)
  BY DEF Begin, CreateVnfPkg, Upload, UploadFromUri, RefuseUpload, DeleteVnfPkg, DownloadVnfd,
         Start, At, StillAttends, Attends, Uploaders, Processors
<1>3. CASE CreateVnfPkg(w, p)
  <2>1. AttendsNew(w)
    BY <1>3 DEF CreateVnfPkg, AttendsNew, EmptyRow, InProgress, TypeInv, TypeOK, StoreTypeOK
  <2>2. QED
    BY <1>1, <1>2, <1>3, <2>1, AttendedFrame DEF CreateVnfPkg, At
<1>4. CASE RefuseUpload(w, p)
  <2>1. AttendsNew(w)
    BY <1>4, SetStateState DEF RefuseUpload, AttendsNew, Settled, InProgress, NoRow
  <2>2. QED
    BY <1>1, <1>2, <1>4, <2>1, AttendedFrame DEF RefuseUpload, At
<1>5. ASSUME NEW f \in Files, Upload(w, p, f)
      PROVE  AttendedInv'
  <2>1. /\ pc'[w] = "saving"
        /\ req'[w].pkg = p
        /\ req'[w].op = "put"
    BY <1>5 DEF Upload, Start, TypeInv, TypeOK, StoreTypeOK
  <2>2. AttendsNew(w)
    BY <1>5, <2>1, SetStateState
    DEF Upload, AttendsNew, Attends, Uploaders, InProgress, NoRow
  <2>3. QED
    BY <1>1, <1>2, <2>1, <2>2, AttendedFrame
<1>6. ASSUME row' = row, pc'[w] \in {"uri_mark", "uri_failing", "del_inspect", "vnfd_path"}
      PROVE  AttendedInv'
  <2>1. AttendsNew(w)
    BY <1>6 DEF AttendsNew
  <2>2. QED
    BY <1>1, <1>2, <1>6, <2>1, AttendedFrame
<1>7. ASSUME NEW f \in Files, UploadFromUri(w, p, f)
      PROVE  AttendedInv'
  BY <1>6, <1>7 DEF UploadFromUri, Start, TypeInv, TypeOK, StoreTypeOK
<1>8. CASE DeleteVnfPkg(w, p) \/ DownloadVnfd(w, p)
  BY <1>6, <1>8 DEF DeleteVnfPkg, DownloadVnfd, Start, TypeInv, TypeOK, StoreTypeOK
<1>9. QED
  BY <1>3, <1>4, <1>5, <1>7, <1>8 DEF Begin

\* A step that writes no row.
LEMMA QuietAttended ==
  ASSUME TypeInv, AttendedInv, NEW w \in Workers, Moves(w), row' = row, lost' = lost,
         StillAttends(w),
         pc'[w] \in {"saving", "processing", "parsing", "checking", "committing", "failing"} =>
           req'[w].op = "put"
  PROVE  AttendedInv'
<1>1. AttendsNew(w)
  BY DEF AttendsNew
<1>2. QED
  BY <1>1, AttendedFrame

\* An exception hands the package over to the except clause.
LEMMA FailAttended ==
  ASSUME TypeInv, AttendedInv, NEW w \in Workers, Moves(w), row' = row, lost' = lost, Fail(w),
         pc[w] \in {"parsing", "checking", "saving", "uri_fetch"}
  PROVE  AttendedInv'
<1>1. /\ req' = req
      /\ pc'[w] = IF req[w].op = "put" THEN "failing" ELSE "uri_failing"
  BY DEF Fail, Goto, TypeInv, TypeOK, StoreTypeOK
<1>2. pc[w] \in {"parsing", "checking", "saving"} => req[w].op = "put"
  BY DEF AttendedInv, OnlyPut
<1>3. StillAttends(w)
  BY <1>1, <1>2 DEF StillAttends, Attends, Uploaders, Processors
<1>4. QED
  BY <1>1, <1>3, QuietAttended

LEMMA StepAttended ==
  ASSUME ~UriBodyIsText, TypeInv, AttendedInv, NEW w \in Workers, Step(w), ~UriRefused(w)
  PROVE  AttendedInv'
<1>1. Moves(w) /\ lost' = lost
  BY StepMoves DEF Step, OwnStep, OutsideStep, Save, Process, ParseVnfd, CheckOtherPkg, Commit,
     NotifyOnboarded, HandleUploadFailed, UriMark, UriAnnounce, UriUnreachable, UriFetch,
     UriFailRead, UriReset, DelInspect, DelRow, DelAnnounce, DelDir, VnfdPath, VnfdZip, VnfdWrite
<1>2. OnlyPut
  BY DEF AttendedInv
<1>3. ASSUME NEW l \in Label, Goto(w, l)
      PROVE  pc'[w] = l /\ req' = req
  BY <1>3 DEF Goto, TypeInv, TypeOK, StoreTypeOK
<1>4. ASSUME Finish(w)
      PROVE  pc'[w] = "idle"
  BY <1>4 DEF Finish, TypeInv, TypeOK, StoreTypeOK
<1>5. CASE Save(w)
  <2>1. CASE Goto(w, "processing")
    <3>1. StillAttends(w)
      BY <1>3, <1>5, <2>1 DEF Save, At, StillAttends, Attends, Uploaders, Processors, Label
    <3>2. req'[w].op = "put"
      BY <1>2, <1>3, <1>5, <2>1 DEF Save, At, OnlyPut, Label
    <3>3. QED
      BY <1>1, <1>5, <3>1, <3>2, QuietAttended DEF Save
  <2>2. QED
    BY <1>1, <1>5, <2>1, FailAttended DEF Save, At
<1>6. CASE ParseVnfd(w)
  <2>1. ASSUME NEW c \in Vnfds, Keep(w, c, "checking")
        PROVE  AttendedInv'
    <3>1. /\ pc'[w] = "checking"
          /\ req'[w].pkg = req[w].pkg
          /\ req'[w].op = req[w].op
      BY <2>1 DEF Keep, TypeInv, TypeOK, StoreTypeOK, Request
    <3>2. StillAttends(w)
      BY <1>6, <3>1 DEF ParseVnfd, At, StillAttends, Attends, Uploaders, Processors
    <3>3. req'[w].op = "put"
      BY <1>2, <1>6, <3>1 DEF ParseVnfd, At, OnlyPut
    <3>4. QED
      BY <1>1, <1>6, <3>2, <3>3, QuietAttended DEF ParseVnfd
  <2>2. req[w].op = "put"
    BY <1>2, <1>6 DEF ParseVnfd, At, OnlyPut
  <2>3. QED
    BY <1>1, <1>6, <2>1, <2>2, FailAttended DEF ParseVnfd, At
<1>7. CASE CheckOtherPkg(w)
  <2>1. CASE Goto(w, "committing")
    <3>1. StillAttends(w)
      BY <1>3, <1>7, <2>1 DEF CheckOtherPkg, At, StillAttends, Attends, Uploaders, Processors,
           Label
    <3>2. req'[w].op = "put"
      BY <1>2, <1>3, <1>7, <2>1 DEF CheckOtherPkg, At, OnlyPut, Label
    <3>3. QED
      BY <1>1, <1>7, <3>1, <3>2, QuietAttended DEF CheckOtherPkg
  <2>2. QED
    BY <1>1, <1>7, <2>1, FailAttended DEF CheckOtherPkg, At
<1>8. CASE Process(w)
  <2>1. /\ req[w].pkg \in Pkgs
        /\ req[w].op = "put"
        /\ pc'[w] = "parsing"
        /\ req' = req
    BY <1>2, <1>3, <1>8 DEF Process, At, TypeInv, ReqOK, OnlyPut, Label
  <2>2. \A q \in Pkgs : \/ q # req[w].pkg /\ row'[q].state = row[q].state
                        \/ q = req[w].pkg /\ row'[q].state \in {"PROCESSING", "UNBORN", "GONE"}
    BY <1>8, <2>1, SetStateState DEF Process, InProgress, NoRow
  <2>3. AttendsNew(w)
    BY <2>1, <2>2 DEF AttendsNew, Attends, Processors, InProgress
  <2>4. StillAttends(w)
    BY <1>8, <2>1, <2>2 DEF Process, At, StillAttends, Attends, Uploaders, Processors
  <2>5. QED
    BY <1>1, <2>1, <2>3, <2>4, AttendedFrame
<1>9. CASE UriMark(w)
  <2>1. req[w].pkg \in Pkgs /\ pc'[w] = "uri_announce" /\ req' = req
    BY <1>3, <1>9 DEF UriMark, At, TypeInv, ReqOK, Label
  <2>2. AttendsNew(w)
    BY <1>9, <2>1, SetStateState
    DEF UriMark, AttendsNew, Attends, Uploaders, InProgress, NoRow
  <2>3. StillAttends(w)
    BY <1>9 DEF UriMark, At, StillAttends, Attends, Uploaders, Processors
  <2>4. QED
    BY <1>1, <2>1, <2>2, <2>3, AttendedFrame
<1>10. CASE HandleUploadFailed(w) \/ UriReset(w)
  <2>1. req[w].pkg \in Pkgs /\ pc'[w] = "idle" /\ row' = SetState(req[w].pkg, "CREATED")
    BY <1>4, <1>10 DEF HandleUploadFailed, UriReset, At, TypeInv, ReqOK
  <2>2. \A q \in Pkgs : \/ q # req[w].pkg /\ row'[q].state = row[q].state
                        \/ q = req[w].pkg /\ row'[q].state \in {"CREATED", "UNBORN", "GONE"}
    BY <2>1, SetStateState DEF Settled, NoRow
  <2>3. AttendsNew(w) /\ StillAttends(w)
    BY <2>1, <2>2 DEF AttendsNew, StillAttends, Attends, InProgress
  <2>4. QED
    BY <1>1, <2>1, <2>3, AttendedFrame
<1>11. CASE Commit(w)
  <2>1. req[w].pkg \in Pkgs /\ pc'[w] = "notifying"
    BY <1>3, <1>11 DEF Commit, At, TypeInv, ReqOK, Label
  <2>2. \A q \in Pkgs : \/ q # req[w].pkg /\ row'[q].state = row[q].state
                        \/ q = req[w].pkg /\ row'[q].state \in {"ONBOARDED", "UNBORN", "GONE"}
    BY <1>11 DEF Commit, OnboardedRow, Stored, NoRow, TypeInv, TypeOK, StoreTypeOK
  <2>3. AttendsNew(w) /\ StillAttends(w)
    BY <2>1, <2>2 DEF AttendsNew, StillAttends, Attends, InProgress
  <2>4. QED
    BY <1>1, <2>1, <2>3, AttendedFrame
<1>12. CASE DelRow(w)
  <2>1. pc'[w] = "del_announce"
    BY <1>3, <1>12 DEF DelRow, Label
  <2>2. AttendsNew(w)
    BY <1>12 DEF DelRow, AttendsNew, EmptyRow, InProgress, TypeInv, TypeOK, StoreTypeOK
  <2>3. StillAttends(w)
    BY <1>12 DEF DelRow, At, StillAttends, Attends, Uploaders, Processors
  <2>4. QED
    BY <1>1, <2>1, <2>2, <2>3, AttendedFrame
<1>13. CASE UriAnnounce(w)
  <2>1. pc'[w] = "uri_fetch" /\ req' = req
    BY <1>3, <1>13 DEF UriAnnounce, Label
  <2>2. StillAttends(w)
    BY <1>13, <2>1 DEF UriAnnounce, At, StillAttends, Attends, Uploaders, Processors
  <2>3. QED
    BY <1>1, <1>13, <2>1, <2>2, QuietAttended DEF UriAnnounce
<1>14. CASE UriUnreachable(w) \/ \E c \in Content : UriFetch(w, c)
  BY <1>1, <1>14, FailAttended DEF UriUnreachable, UriFetch, At
<1>15. CASE UriFailRead(w)
  <2>1. CASE row[req[w].pkg].state = "UPLOADING"
    <3>1. pc'[w] = "uri_reset" /\ req' = req
      BY <1>3, <1>15, <2>1 DEF UriFailRead, Label
    <3>2. StillAttends(w)
      BY <1>15, <3>1 DEF UriFailRead, At, StillAttends, Attends, Uploaders, Processors
    <3>3. QED
      BY <1>1, <1>15, <3>1, <3>2, QuietAttended DEF UriFailRead
  <2>2. CASE row[req[w].pkg].state # "UPLOADING"
    <3>1. pc'[w] = "idle"
      BY <1>4, <1>15, <2>2 DEF UriFailRead
    <3>2. StillAttends(w)
      BY <1>15, <2>2 DEF UriFailRead, At, StillAttends, Attends, Uploaders, Processors
    <3>3. QED
      BY <1>1, <1>15, <3>1, <3>2, QuietAttended DEF UriFailRead
  <2>3. QED
    BY <2>1, <2>2
<1>16. ASSUME pc[w] \in {"notifying", "del_inspect", "del_announce", "del_dir", "vnfd_path",
                         "vnfd_zip", "vnfd_write"},
              pc'[w] \in {"idle", "del_row", "del_dir", "vnfd_zip", "vnfd_write"},
              row' = row
      PROVE  AttendedInv'
  <2>1. StillAttends(w)
    BY <1>16 DEF StillAttends, Attends, Uploaders, Processors
  <2>2. QED
    BY <1>1, <1>16, <2>1, QuietAttended
<1>17. CASE NotifyOnboarded(w) \/ DelAnnounce(w) \/ DelDir(w) \/ VnfdWrite(w)
  BY <1>3, <1>4, <1>16, <1>17 DEF NotifyOnboarded, DelAnnounce, DelDir, VnfdWrite, At, Label
<1>18. CASE DelInspect(w) \/ VnfdPath(w) \/ VnfdZip(w)
  <2>1. pc'[w] \in {"idle", "del_row", "vnfd_zip", "vnfd_write"}
    BY <1>4, <1>18 DEF DelInspect, VnfdPath, VnfdZip, Keep, TypeInv, TypeOK, StoreTypeOK
  <2>2. QED
    BY <1>16, <1>18, <2>1 DEF DelInspect, VnfdPath, VnfdZip, At
<1>19. QED
  BY <1>5, <1>6, <1>7, <1>8, <1>9, <1>10, <1>11, <1>12, <1>13, <1>14, <1>15, <1>17, <1>18
  DEF Step, OwnStep, OutsideStep

LEMMA StopAttended ==
  ASSUME TypeInv, AttendedInv, NEW w \in Workers, Crash(w) \/ UriRefused(w)
  PROVE  AttendedInv'
<1>1. Finish(w) /\ UNCHANGED <<row, disk, zip>> /\ req[w].pkg \in Pkgs
  BY DEF Crash, UriRefused, Stop, At, TypeInv, ReqOK
<1>2. PICK why : lost' = [lost EXCEPT ![req[w].pkg] = @ \cup {why}]
  BY DEF Crash, UriRefused, Stop
<1>3. /\ lost'[req[w].pkg] # {}
      /\ \A p \in Pkgs : lost[p] \subseteq lost'[p]
  BY <1>1, <1>2 DEF TypeInv, TypeOK
<1>4. pc'[w] = "idle"
  BY <1>1 DEF Finish, TypeInv, TypeOK, StoreTypeOK
<1>5. StillAttends(w) /\ AttendsNew(w)
  BY <1>1, <1>3 DEF StillAttends, AttendsNew, Attends
<1>6. Moves(w)
  BY StepMoves DEF Step, OutsideStep
<1>7. QED
  BY <1>3, <1>4, <1>5, <1>6, AttendedFrame

\* No failure path of the upload handlers but one strands a package in UPLOADING or
\* PROCESSING: as long as none of its handlers is killed, and no URI of it is answered
\* with an HTTP error, a handler that will settle it is at work.
THEOREM Attended ==
  ASSUME ~UriBodyIsText
  PROVE  Spec => []UploadIsAttended
<1>1. Init => AttendedInv
  BY DEF Init, StoreInit, AttendedInv, UploadIsAttended, SeenTo, OnlyPut, EmptyRow
<1>2. TypeInv /\ AttendedInv /\ [Next]_vars => AttendedInv'
  <2> SUFFICES ASSUME TypeInv, AttendedInv, [Next]_vars
               PROVE  AttendedInv'
    OBVIOUS
  <2>1. CASE UNCHANGED vars
    BY <2>1 DEF vars, AttendedInv, UploadIsAttended, SeenTo, OnlyPut, Attends
  <2>2. QED
    BY <2>1, BeginAttended, StepAttended, StopAttended DEF Next
<1>3. AttendedInv => UploadIsAttended
  BY DEF AttendedInv
<1>4. QED
  BY <1>1, <1>2, <1>3, TypeCorrect, PTL DEF Spec

=============================================================================
