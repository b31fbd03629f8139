------------------------------- MODULE VnfPackage -------------------------------
(***************************************************************************)
(* The VNF package resources of the SOL005 interface: the handlers of      *)
(* packages/views/vnf_package_views.py over packages/biz/vnf_package.py.   *)
(*                                                                         *)
(* Four uwsgi processes with threads serve the requests, and an upload     *)
(* from a URI goes on in a thread of its own after its request was         *)
(* answered.  They share one database, with every query a transaction of   *)
(* its own (Django autocommit), and one directory tree with a directory    *)
(* per package.  An action is one query or one file operation; what a      *)
(* handler read and uses later stays in its req record.                    *)
(*                                                                         *)
(* Left out: columns no step reads, the bodies of responses, and the       *)
(* read-only queries and package downloads.                                *)
(***************************************************************************)
EXTENDS PackageStore

CONSTANTS Workers,        \* handlers and threads that can be at work at once
          UriBodyIsText   \* TRUE when response.read() of a URI returns str

ASSUME UriBodyAssumption == UriBodyIsText \in BOOLEAN

VARIABLES pc,     \* what each worker does next
          req,    \* the request a worker serves and what it has read for it
          lost    \* why handlers of each package stopped half-way (history)

vars == <<row, disk, zip, pc, req, lost>>

-----------------------------------------------------------------------------

Request == [op   : {"none", "put", "uri", "delete", "vnfd"},
            pkg  : Pkgs \cup {None},
            file : Files \cup {None},
            vnfd : Vnfds \cup {None}]

Label == {"idle", "saving", "processing", "parsing", "checking", "committing",
          "notifying", "failing", "uri_mark", "uri_announce", "uri_fetch",
          "uri_failing", "uri_reset", "del_inspect", "del_row", "del_announce",
          "del_dir", "vnfd_path", "vnfd_zip", "vnfd_write"}

NoReq == [op |-> "none", pkg |-> None, file |-> None, vnfd |-> None]

\* An identifier a client can name: one that create_vnf_pkg has answered with.
Known(p) == row[p].state # "UNBORN"

\* filter(vnfPackageId=p).update(onboardingState=s) changes no row when p has none.
SetState(p, s) == IF Stored(p) THEN [row EXCEPT ![p].state = s] ELSE row

Start(w, l, r) ==
  /\ pc[w] = "idle"
  /\ pc' = [pc EXCEPT ![w] = l]
  /\ req' = [req EXCEPT ![w] = r]

At(w, l) == pc[w] = l

Goto(w, l) ==
  /\ pc' = [pc EXCEPT ![w] = l]
  /\ req' = req

\* Keep v, read just now, for the steps to come.
Keep(w, v, l) ==
  /\ pc' = [pc EXCEPT ![w] = l]
  /\ req' = [req EXCEPT ![w].vnfd = v]

Finish(w) ==
  /\ pc' = [pc EXCEPT ![w] = "idle"]
  /\ req' = [req EXCEPT ![w] = NoReq]

\* The handler stops where it is: nothing it has begun is taken back.
Stop(w, why) ==
  /\ lost' = [lost EXCEPT ![req[w].pkg] = @ \cup {why}]
  /\ Finish(w)

\* The except clause an exception of the shared steps ends up in.
Fail(w) == Goto(w, IF req[w].op = "put" THEN "failing" ELSE "uri_failing")

Init ==
  /\ StoreInit
  /\ pc = [w \in Workers |-> "idle"]
  /\ req = [w \in Workers |-> NoReq]
  /\ lost = [p \in Pkgs |-> {}]

-----------------------------------------------------------------------------
(* POST vnf_packages *)

\* Faulty: operationalState and usageState swapped.
CreateSwapped(w, p) ==
  /\ At(w, "idle")
  /\ row[p].state = "UNBORN"
  /\ row' = [row EXCEPT ![p] = [EmptyRow("CREATED") EXCEPT !.oper = "NOT_IN_USE"]]
  /\ UNCHANGED <<disk, zip, pc, req, lost>>

CreateVnfPkg(w, p) ==
  /\ At(w, "idle")
  /\ row[p].state = "UNBORN"
  /\ row' = [row EXCEPT ![p] = EmptyRow("CREATED")]
  /\ UNCHANGED <<disk, zip, pc, req, lost>>

-----------------------------------------------------------------------------
(* PUT package_content: upload, then parse_vnfd_and_save *)

\* Faulty: the package is not marked while its archive is replaced.
UploadUnmarked(w, p, f) ==
  /\ Known(p)
  /\ Start(w, "saving", [op |-> "put", pkg |-> p, file |-> f, vnfd |-> None])
  /\ UNCHANGED <<row, disk, zip, lost>>

\* No state is asked for: the check in upload is commented out.
Upload(w, p, f) ==
  /\ Known(p)
  /\ Start(w, "saving", [op |-> "put", pkg |-> p, file |-> f, vnfd |-> None])
  /\ row' = SetState(p, "UPLOADING")
  /\ UNCHANGED <<disk, zip, lost>>

\* save makes the directory if need be and replaces a file of the same name; a
\* write that fails leaves the old file or a part of the new one.
Save(w) ==
  LET r == req[w] IN
  /\ At(w, "saving")
  /\ \/ \E c \in Content : /\ disk' = [disk EXCEPT ![r.pkg][r.file] = c]
                           /\ Goto(w, "processing") \/ (c = Broken /\ Fail(w))
     \/ /\ Fail(w)
        /\ UNCHANGED disk
  /\ UNCHANGED <<row, zip, lost>>

Process(w) ==
  /\ At(w, "processing")
  /\ row' = SetState(req[w].pkg, "PROCESSING")
  /\ Goto(w, "parsing")
  /\ UNCHANGED <<disk, zip, lost>>

\* What is parsed is what the file holds by now.  The errors of toscaparser have no
\* arguments, and those end the thread of a URI within its except clause.
ParseVnfd(w) ==
  LET c == disk[req[w].pkg][req[w].file] IN
  /\ At(w, "parsing")
  /\ \/ c \in Vnfds /\ Keep(w, c, "checking")
     \/ c \notin Vnfds /\ Fail(w)
     \/ c \notin Vnfds /\ req[w].op = "uri" /\ Finish(w)
  /\ UNCHANGED <<row, disk, zip, lost>>

\* Faulty: a VNFD that another package holds is taken.
CheckNothing(w) ==
  /\ At(w, "checking")
  /\ Goto(w, "committing")
  /\ UNCHANGED <<row, disk, zip, lost>>

\* Only the first of the holders is compared, in the order the database returns.
CheckOtherPkg(w) ==
  LET holders == Holders(req[w].vnfd) IN
  /\ At(w, "checking")
  /\ \/ holders = {} /\ Goto(w, "committing")
     \/ \E first \in holders : IF first = req[w].pkg THEN Goto(w, "committing")
                                                     ELSE Fail(w)
  /\ UNCHANGED <<row, disk, zip, lost>>

\* Faulty: save() of the record, which inserts it again when it was deleted.
CommitUpsert(w) ==
  /\ At(w, "committing")
  /\ row' = [row EXCEPT ![req[w].pkg] = OnboardedRow(req[w].vnfd, req[w].file)]
  /\ Goto(w, "notifying")
  /\ UNCHANGED <<disk, zip, lost>>

Commit(w) ==
  LET r == req[w] IN
  /\ At(w, "committing")
  /\ row' = IF Stored(r.pkg) THEN [row EXCEPT ![r.pkg] = OnboardedRow(r.vnfd, r.file)]
                             ELSE row
  /\ Goto(w, "notifying")
  /\ UNCHANGED <<disk, zip, lost>>

\* VnfPackageOnboardingNotification, with the vnfdId the row has at this time.
NotifyOnboarded(w) ==
  /\ At(w, "notifying")
  /\ Finish(w)
  /\ UNCHANGED <<row, disk, zip, lost>>

\* Faulty: the exception is answered and the package left as it is.
LeaveFailed(w) ==
  /\ At(w, "failing")
  /\ Finish(w)
  /\ UNCHANGED <<row, disk, zip, lost>>

HandleUploadFailed(w) ==
  /\ At(w, "failing")
  /\ row' = SetState(req[w].pkg, "CREATED")
  /\ Finish(w)
  /\ UNCHANGED <<disk, zip, lost>>

-----------------------------------------------------------------------------
(* POST upload_from_uri: VnfPkgUploadThread *)

\* A request refused before any upload began - addressInformation missing, no
\* thread to be had, or a PUT with no file part - runs handle_upload_failed.
RefuseUpload(w, p) ==
  /\ At(w, "idle")
  /\ Known(p)
  /\ row' = SetState(p, "CREATED")
  /\ UNCHANGED <<disk, zip, pc, req, lost>>

\* The thread reads the state; a row that is absent raises an IndexError.
UploadFromUri(w, p, f) ==
  /\ Known(p)
  /\ Start(w, IF row[p].state = "CREATED" THEN "uri_mark" ELSE "uri_failing",
           [op |-> "uri", pkg |-> p, file |-> f, vnfd |-> None])
  /\ UNCHANGED <<row, disk, zip, lost>>

UriMark(w) ==
  /\ At(w, "uri_mark")
  /\ row' = SetState(req[w].pkg, "UPLOADING")
  /\ Goto(w, "uri_announce")
  /\ UNCHANGED <<disk, zip, lost>>

\* The onboarding notification goes out before anything was fetched.
UriAnnounce(w) ==
  /\ At(w, "uri_announce")
  /\ Goto(w, "uri_fetch")
  /\ UNCHANGED <<row, disk, zip, lost>>

UriUnreachable(w) ==
  /\ At(w, "uri_fetch")
  /\ Fail(w)
  /\ UNCHANGED <<row, disk, zip, lost>>

\* A server that answers with an error: HTTPError is an exception without arguments,
\* so that e.args[0] raises within the except clause, and the thread is over.
UriRefused(w) ==
  /\ At(w, "uri_fetch")
  /\ Stop(w, "refused")
  /\ UNCHANGED <<row, disk, zip>>

\* Faulty: the thread ends without the look at the state and the reset.
UriFailForget(w) ==
  /\ At(w, "uri_failing")
  /\ Finish(w)
  /\ UNCHANGED <<row, disk, zip, lost>>

\* The file is opened in text mode: writing bytes to it raises a TypeError and
\* leaves it empty.
UriFetch(w, c) ==
  LET r == req[w] IN
  /\ At(w, "uri_fetch")
  /\ disk' = [disk EXCEPT ![r.pkg][r.file] = IF UriBodyIsText THEN c ELSE Broken]
  /\ IF UriBodyIsText THEN Goto(w, "processing") ELSE Fail(w)
  /\ UNCHANGED <<row, zip, lost>>

\* vnf_pkg_upload_failed_handle looks at the state and resets it a query later.
UriFailRead(w) ==
  /\ At(w, "uri_failing")
  /\ IF row[req[w].pkg].state = "UPLOADING" THEN Goto(w, "uri_reset") ELSE Finish(w)
  /\ UNCHANGED <<row, disk, zip, lost>>

UriReset(w) ==
  /\ At(w, "uri_reset")
  /\ row' = SetState(req[w].pkg, "CREATED")
  /\ Finish(w)
  /\ UNCHANGED <<disk, zip, lost>>

-----------------------------------------------------------------------------
(* DELETE vnf_packages/{vnfPkgId} *)

DeleteVnfPkg(w, p) ==
  /\ Stored(p)
  /\ Start(w, "del_inspect", [op |-> "delete", pkg |-> p, file |-> None, vnfd |-> None])
  /\ UNCHANGED <<row, disk, zip, lost>>

\* Faulty: the directory goes before the row does.
DelInspectAndWipe(w) ==
  LET p == req[w].pkg IN
  /\ At(w, "del_inspect")
  /\ disk' = [disk EXCEPT ![p] = NoFiles]
  /\ Goto(w, "del_row")
  /\ UNCHANGED <<row, zip, lost>>

\* Refused when a stored NSD names the VNFD, and also when one has a VNF without
\* descriptor_id (a KeyError); the row may be gone by now, which is an IndexError.
\* Which NSDs are stored is the environment's choice.
DelInspect(w) ==
  LET p == req[w].pkg IN
  /\ At(w, "del_inspect")
  /\ \/ Stored(p) /\ Keep(w, row[p].vnfd, "del_row")
     \/ Finish(w)
  /\ UNCHANGED <<row, disk, zip, lost>>

DelRow(w) ==
  /\ At(w, "del_row")
  /\ row' = [row EXCEPT ![req[w].pkg] = EmptyRow("GONE")]
  /\ Goto(w, "del_announce")
  /\ UNCHANGED <<disk, zip, lost>>

\* VnfPackageChangeNotification; the row it would take the vnfdId from is gone.
DelAnnounce(w) ==
  /\ At(w, "del_announce")
  /\ Goto(w, "del_dir")
  /\ UNCHANGED <<row, disk, zip, lost>>

DelDir(w) ==
  LET p == req[w].pkg IN
  /\ At(w, "del_dir")
  /\ disk' = [disk EXCEPT ![p] = NoFiles]
  /\ zip' = [zip EXCEPT ![p] = None]
  /\ Finish(w)
  /\ UNCHANGED <<row, lost>>

-----------------------------------------------------------------------------
(* GET vnf_packages/{vnfPkgId}/vnfd: download_vnfd and creat_vnfd *)

DownloadVnfd(w, p) ==
  /\ row[p].state = "ONBOARDED"
  /\ Start(w, "vnfd_path", [op |-> "vnfd", pkg |-> p, file |-> None, vnfd |-> None])
  /\ UNCHANGED <<row, disk, zip, lost>>

VnfdPath(w) ==
  LET p == req[w].pkg IN
  /\ At(w, "vnfd_path")
  /\ \/ /\ Stored(p)
        /\ pc' = [pc EXCEPT ![w] = "vnfd_zip"]
        /\ req' = [req EXCEPT ![w].file = row[p].path]
     \/ ~Stored(p) /\ Finish(w)
  /\ UNCHANGED <<row, disk, zip, lost>>

\* An existing VNFD.zip is served as it is; else the archive is unpacked.
VnfdZip(w) ==
  LET r == req[w]  c == disk[r.pkg][r.file] IN
  /\ At(w, "vnfd_zip")
  /\ IF zip[r.pkg] = None /\ c \in Vnfds THEN Keep(w, c, "vnfd_write") ELSE Finish(w)
  /\ UNCHANGED <<row, disk, zip, lost>>

\* A directory removed meanwhile makes ZipFile raise.  A write that fails leaves a
\* part of the file: the except clause tests the open ZipFile, not its name.
VnfdWrite(w) ==
  LET r == req[w] IN
  /\ At(w, "vnfd_write")
  /\ \/ /\ DirExists(r.pkg)
        /\ \E c \in {r.vnfd, Broken} : zip' = [zip EXCEPT ![r.pkg] = c]
     \/ UNCHANGED zip
  /\ Finish(w)
  /\ UNCHANGED <<row, disk, lost>>

-----------------------------------------------------------------------------

\* uwsgi kills a process, or it is restarted: its handlers stop where they are.
Crash(w) ==
  /\ ~At(w, "idle")
  /\ Stop(w, "killed")
  /\ UNCHANGED <<row, disk, zip>>

Begin(w, p) ==
  \/ CreateVnfPkg(w, p)
  \/ \E f \in Files : Upload(w, p, f) \/ UploadFromUri(w, p, f)
  \/ RefuseUpload(w, p)
  \/ DeleteVnfPkg(w, p)
  \/ DownloadVnfd(w, p)

\* The steps of the service itself.
OwnStep(w) ==
  \/ Save(w) \/ Process(w) \/ ParseVnfd(w) \/ CheckOtherPkg(w) \/ Commit(w)
  \/ HandleUploadFailed(w)
  \/ UriMark(w) \/ UriFailRead(w) \/ UriReset(w)
  \/ DelInspect(w) \/ DelRow(w) \/ DelDir(w)
  \/ VnfdPath(w) \/ VnfdZip(w) \/ VnfdWrite(w)

\* Returns of requests.post and urlopen, which are called without a timeout.
OutsideStep(w) ==
  \/ NotifyOnboarded(w) \/ UriAnnounce(w) \/ DelAnnounce(w)
  \/ UriUnreachable(w) \/ UriRefused(w) \/ (\E c \in Content : UriFetch(w, c))

Step(w) == OwnStep(w) \/ OutsideStep(w)

Next == \E w \in Workers : (\E p \in Pkgs : Begin(w, p)) \/ Step(w) \/ Crash(w)

\* A handler that runs goes on running.  Clients and crashes owe nothing, and neither
\* do the partners: a call to one of them may never return.
Fairness == \A w \in Workers : WF_vars(OwnStep(w))

Spec == Init /\ [][Next]_vars /\ Fairness

-----------------------------------------------------------------------------

TypeOK ==
  /\ StoreTypeOK
  /\ pc \in [Workers -> Label]
  /\ req \in [Workers -> Request]
  /\ lost \in [Pkgs -> SUBSET {"killed", "refused"}]

\* A package that is shown as ONBOARDED can be served, whatever the handlers do
\* to it at the same time: it is enabled, names a VNFD, and the archive its row
\* points to is on disk.  parse_vnfd_and_save writes the row in one update after
\* the archive is there, and delete_vnf_pkg takes the row away before the files.
OnboardedIsServable ==
  \A p \in Pkgs : row[p].state = "ONBOARDED" =>
    /\ row[p].oper = "ENABLED"
    /\ row[p].vnfd \in Vnfds
    /\ row[p].path \in Files
    /\ disk[p][row[p].path] # None

Attends(w, p, labels) == req[w].pkg = p /\ pc[w] \in labels

\* Labels from which a handler still takes a package out of UPLOADING, of PROCESSING.
Uploaders == {"saving", "processing", "failing", "uri_announce", "uri_fetch",
              "uri_failing", "uri_reset"}
Processors == {"parsing", "checking", "committing", "failing"}

SeenTo(p) ==
  /\ row[p].state = "UPLOADING" => \E w \in Workers : Attends(w, p, Uploaders)
  /\ row[p].state = "PROCESSING" => \E w \in Workers : Attends(w, p, Processors)

\* A package in UPLOADING or PROCESSING has a handler that will still take it out
\* of that state, unless a handler of it was killed or its URI was answered with an
\* HTTP error: no other failure path of the upload handlers leaves it there.  (With
\* UriBodyIsText one does: see the README.)
UploadIsAttended == \A p \in Pkgs : lost[p] = {} => SeenTo(p)

\* What test_upload_from_uri_failed asserts of an upload that could not be fetched: it
\* leaves the package CREATED, or here, while others upload it too, with a handler
\* that will yet see to it.
FailedFetchIsReset == \A p \in Pkgs : lost[p] \subseteq {"refused"} => SeenTo(p)

\* A deleted package never comes back, though uploads of it may still be running:
\* every later write is an update, which finds no row.
DeletedStaysDeleted ==
  [][\A p \in Pkgs : row[p].state = "GONE" => row'[p].state = "GONE"]_vars

\* The worker waits for a subscriber, or for the server of a URI.
Waits(w) == pc[w] \in {"notifying", "uri_announce", "uri_fetch", "del_announce"}

\* An upload comes to an end: the package is ONBOARDED, CREATED or deleted at last,
\* however many uploads of it overlap, unless a handler of it stopped half-way or
\* waits for ever for a partner's answer.
UploadSettles ==
  \A p \in Pkgs :
    (\A w \in Workers : []<>~(req[w].pkg = p /\ Waits(w))) =>
      (row[p].state \in InProgress ~> row[p].state \notin InProgress \/ lost[p] # {})

\* No two handlers are at work on one package.
Apart ==
  \A w, u \in Workers : ~At(w, "idle") /\ ~At(u, "idle") /\ req[w].pkg = req[u].pkg => w = u

\* No two packages are past the check for a VNFD and before the update with it.
ChecksApart ==
  \A w, u \in Workers :
    At(w, "committing") /\ At(u, "committing") /\ req[w].vnfd = req[u].vnfd =>
      req[w].pkg = req[u].pkg

TakeTurns == Apart /\ ChecksApart

\* "vnfdId ... identifies the VNF package and the VNFD in a globally unique way"
\* (VnfPkgInfoSerializer): no two packages have the same vnfdId.  It rests on the
\* check in parse_vnfd_and_save, made in a query before the update.
VnfdIdUnique ==
  \A p, q \in Pkgs : row[p].vnfd # None /\ row[p].vnfd = row[q].vnfd => p = q

\* The archive of an ONBOARDED package is the one its vnfdId was read from: the
\* row is moved out of ONBOARDED before its archive is overwritten.
OnboardedMatchesArchive ==
  \A p \in Pkgs : row[p].state = "ONBOARDED" => disk[p][row[p].path] = row[p].vnfd

\* What a client is shown of a package: its VNFD, or how far it is from having one.
\* Tagged, so that no VNFD can be taken for one of the words.
Shown(p) == IF row[p].state = "ONBOARDED" THEN <<"VNFD", row[p].vnfd>>
            ELSE IF Stored(p) THEN <<"EMPTY", None>> ELSE <<row[p].state, None>>

\* The handlers, seen through what they show, implement the atomic operations of
\* PackageCatalogue.
Catalogue ==
  INSTANCE PackageCatalogue WITH
    Vnfds <- {"VNFD"} \X Vnfds,
    Unborn <- <<"UNBORN", None>>, Empty <- <<"EMPTY", None>>, Gone <- <<"GONE", None>>,
    content <- [p \in Pkgs |-> Shown(p)]

ImplementsCatalogue == Catalogue!Spec

\* "Read VNFD of an on-boarded VNF package" (views): the VNFD.zip that is served
\* is that of the VNFD now on-boarded.
VnfdZipIsCurrent ==
  \A p \in Pkgs : row[p].state = "ONBOARDED" /\ zip[p] # None => zip[p] = row[p].vnfd

=============================================================================
