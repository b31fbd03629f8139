---------------------------- MODULE VnfDistribution ----------------------------
(***************************************************************************)
(* The VNF packages SDC distributes: the threads NfDistributeThread and    *)
(* NfPkgDeleteThread of packages/biz/sdc_vnf_package.py.                    *)
(*                                                                         *)
(* A request is answered with a job id at once; its thread reports on the  *)
(* job as it goes, and a client polls for progress 100 (done) or 255       *)
(* (failed).  The client chooses the csar id, so that threads may be at    *)
(* work on one package at the same time.  Only its thread writes to a job  *)
(* here; JobStatus looks into the queries of one report.                   *)
(*                                                                         *)
(* Left out: what is extracted from an archive beside VNFD.zip, and the    *)
(* text of the reports.                                                    *)
(***************************************************************************)
EXTENDS PackageStore, Naturals, Sequences

CONSTANTS Jobs,    \* jobs under way or remembered; an id (uuid4) is never drawn again,
                   \* so that a job that starts takes the place of one that is over
          Csar     \* the file name an archive is stored under

ASSUME CsarAssumption == Csar \in Files

VARIABLES job,         \* the thread and the reports of each job
          contended,   \* packages two threads were at work on at once (history)
          lost,        \* packages one of whose threads stopped half-way (history)
          last         \* the latest job of each package (history)

vars == <<row, disk, zip, job, contended, lost, last>>

-----------------------------------------------------------------------------

JOB_ERROR == 255

Progress == {5, 30, 50, 100, JOB_ERROR}

Idle == {"unused", "ended", "stopped"}

Label == Idle \cup
         {"dist_create", "dist_exists", "dist_download", "dist_zip", "dist_parse", "dist_check",
          "dist_save", "dist_done", "dist_notify", "roll_row", "roll_dir", "roll_report",
          "del_create", "del_notify", "del_row", "del_dir", "del_done"}

Job == [pc : Label, pkg : Pkgs \cup {None}, vnfd : Vnfds \cup {None}, log : Seq(Progress)]

Started(p, l) == [pc |-> l, pkg |-> p, vnfd |-> None, log |-> <<>>]

NoJob == Started(None, "unused")

Working(p) == {j \in Jobs : job[j].pkg = p /\ job[j].pc \notin Idle}

At(j, l) == job[j].pc = l

Goto(j, l) == job' = [job EXCEPT ![j].pc = l]

GotoWith(j, v, l) == job' = [job EXCEPT ![j] = [@ EXCEPT !.pc = l, !.vnfd = v]]

\* A thread that is over leaves its reports.
Over(j, l) == GotoWith(j, None, l)

\* add_job_status of the job, on the way to l.
Report(j, n, l) ==
  job' = [job EXCEPT ![j] = [@ EXCEPT !.pc = l, !.log = Append(job[j].log, n)]]

Reports(j) == {job[j].log[k] : k \in 1..Len(job[j].log)}

\* A CatalogException, or another exception that has arguments, ends in
\* rollback_distribute; one that has none raises again in the except clause.
Fail(j) == Over(j, "roll_row")

\* The thread stops where it is: nothing is taken back and nothing reported.
Stop(j) ==
  /\ Over(j, "stopped")
  /\ lost' = lost \cup {job[j].pkg}
  /\ UNCHANGED <<row, disk, zip, contended, last>>

History == UNCHANGED <<contended, lost, last>>

Init ==
  /\ StoreInit
  /\ job = [j \in Jobs |-> NoJob]
  /\ contended = {}
  /\ lost = {}
  /\ last = [p \in Pkgs |-> None]

\* The view answers with the new job and starts its thread.
Accept(j, p, l) ==
  /\ job[j].pc \in Idle
  /\ job' = [job EXCEPT ![j] = Started(p, l)]
  /\ contended' = IF Working(p) = {} THEN contended ELSE contended \cup {p}
  /\ last' = [last EXCEPT ![p] = j]
  /\ UNCHANGED <<row, disk, zip, lost>>

-----------------------------------------------------------------------------
(* POST nfpackages: NfDistributeThread *)

Distribute(j, p) == Accept(j, p, "dist_create")

CreateDistribution(j) ==
  /\ At(j, "dist_create")
  /\ Report(j, 5, "dist_exists")
  /\ UNCHANGED <<row, disk, zip>> /\ History

\* Faulty: the thread does not return.
ReportExists(j) ==
  /\ At(j, "dist_exists")
  /\ IF Stored(job[j].pkg) THEN Report(j, JOB_ERROR, "dist_download")
                           ELSE Goto(j, "dist_download")
  /\ UNCHANGED <<row, disk, zip>> /\ History

\* A package that is there is an error, and is left alone.
CheckExists(j) ==
  /\ At(j, "dist_exists")
  /\ IF Stored(job[j].pkg) THEN Report(j, JOB_ERROR, "ended") ELSE Goto(j, "dist_download")
  /\ UNCHANGED <<row, disk, zip>> /\ History

\* SDC may not know the package or not deliver it; a write that fails leaves
\* the old file or a part of the new one.
Download(j) ==
  /\ At(j, "dist_download")
  /\ \/ \E c \in Content : /\ disk' = [disk EXCEPT ![job[j].pkg][Csar] = c]
                           /\ Goto(j, "dist_zip") \/ (c = Broken /\ Fail(j))
     \/ /\ Fail(j)
        /\ UNCHANGED disk
  /\ UNCHANGED <<row, zip>> /\ History

\* The archive is unpacked and VNFD.zip made of the descriptors in it: of those of
\* the vendor package, unless VNFD.zip is there already, where an error may leave a
\* part of it; or of those of the csar, where it leaves none and the thread goes on.
CreateVnfdZip(j) ==
  LET p == job[j].pkg  c == disk[p][Csar] IN
  /\ At(j, "dist_zip")
  /\ \/ /\ \/ c # None /\ zip' = [zip EXCEPT ![p] = c]
           \/ zip[p] # None /\ UNCHANGED zip
           \/ zip' = [zip EXCEPT ![p] = None]
        /\ Goto(j, "dist_parse")
     \/ /\ Fail(j)
        /\ UNCHANGED zip \/ zip' = [zip EXCEPT ![p] = Broken]
  /\ UNCHANGED <<row, disk>> /\ History

ParseVnfd(j) ==
  LET c == disk[job[j].pkg][Csar] IN
  /\ At(j, "dist_parse")
  /\ \/ c \in Vnfds /\ GotoWith(j, c, "dist_check")
     \/ c \notin Vnfds /\ Fail(j)
  /\ UNCHANGED <<row, disk, zip>> /\ History

\* The errors of toscaparser have no arguments: e.args[0] raises in the except clause.
ParseAborts(j) ==
  /\ At(j, "dist_parse")
  /\ disk[job[j].pkg][Csar] \notin Vnfds
  /\ Stop(j)

CheckVnfdId(j) ==
  /\ At(j, "dist_check")
  /\ IF Holders(job[j].vnfd) = {} THEN Report(j, 30, "dist_save") ELSE Fail(j)
  /\ UNCHANGED <<row, disk, zip>> /\ History

\* save() inserts the row, or replaces one that was inserted meanwhile.
SaveRow(j) ==
  /\ At(j, "dist_save")
  /\ row' = [row EXCEPT ![job[j].pkg] = OnboardedRow(job[j].vnfd, Csar)]
  /\ Goto(j, "dist_done")
  /\ UNCHANGED <<disk, zip>> /\ History

ReportDistributed(j) ==
  /\ At(j, "dist_done")
  /\ Report(j, 100, "dist_notify")
  /\ UNCHANGED <<row, disk, zip>> /\ History

NotifyOnboarded(j) ==
  /\ At(j, "dist_notify")
  /\ Over(j, "ended")
  /\ UNCHANGED <<row, disk, zip>> /\ History

-----------------------------------------------------------------------------
(* rollback_distribute *)

RemoveRow(p) == row' = IF Stored(p) THEN [row EXCEPT ![p] = EmptyRow("GONE")] ELSE row

RemoveDir(p) ==
  /\ disk' = [disk EXCEPT ![p] = NoFiles]
  /\ zip' = [zip EXCEPT ![p] = None]

\* Faulty: only the row is taken back.
RollbackRowOnly(j) ==
  /\ At(j, "roll_row")
  /\ RemoveRow(job[j].pkg)
  /\ Goto(j, "roll_report")
  /\ UNCHANGED <<disk, zip>> /\ History

RollbackRow(j) ==
  /\ At(j, "roll_row")
  /\ RemoveRow(job[j].pkg)
  /\ Goto(j, "roll_dir")
  /\ UNCHANGED <<disk, zip>> /\ History

RollbackDir(j) ==
  /\ At(j, "roll_dir")
  /\ RemoveDir(job[j].pkg)
  /\ Goto(j, "roll_report")
  /\ UNCHANGED row /\ History

\* Faulty: the failure is logged and not reported.
LogFailed(j) ==
  /\ At(j, "roll_report")
  /\ Goto(j, "ended")
  /\ UNCHANGED <<row, disk, zip>> /\ History

ReportFailed(j) ==
  /\ At(j, "roll_report")
  /\ Report(j, JOB_ERROR, "ended")
  /\ UNCHANGED <<row, disk, zip>> /\ History

-----------------------------------------------------------------------------
(* DELETE nfpackages/{csarId}: NfPkgDeleteThread *)

DeleteCsar(j, p) == Accept(j, p, "del_create")

CreateDeletion(j) ==
  /\ At(j, "del_create")
  /\ Report(j, 5, "del_notify")
  /\ UNCHANGED <<row, disk, zip>> /\ History

\* Faulty: the files go before the row does.
NotifyAndWipe(j) ==
  /\ At(j, "del_notify")
  /\ RemoveDir(job[j].pkg)
  /\ Goto(j, "del_row")
  /\ UNCHANGED row /\ History

NotifyDeleted(j) ==
  /\ At(j, "del_notify")
  /\ Goto(j, "del_row")
  /\ UNCHANGED <<row, disk, zip>> /\ History

\* The row goes whether or not an NSD names its VNFD.
DeleteRow(j) ==
  /\ At(j, "del_row")
  /\ RemoveRow(job[j].pkg)
  /\ Report(j, 50, "del_dir")
  /\ UNCHANGED <<disk, zip>> /\ History

DeleteDir(j) ==
  /\ At(j, "del_dir")
  /\ RemoveDir(job[j].pkg)
  /\ Goto(j, "del_done")
  /\ UNCHANGED row /\ History

ReportDeleted(j) ==
  /\ At(j, "del_done")
  /\ Report(j, 100, "ended")
  /\ UNCHANGED <<row, disk, zip>> /\ History

-----------------------------------------------------------------------------

\* The process of a thread is killed.
Kill(j) ==
  /\ job[j].pc \notin Idle
  /\ Stop(j)

\* The steps of the service itself.
OwnStep(j) ==
  \/ CreateDistribution(j) \/ CheckExists(j) \/ CreateVnfdZip(j) \/ ParseVnfd(j)
  \/ CheckVnfdId(j) \/ SaveRow(j) \/ ReportDistributed(j)
  \/ RollbackRow(j) \/ RollbackDir(j) \/ ReportFailed(j)
  \/ CreateDeletion(j) \/ DeleteRow(j) \/ DeleteDir(j) \/ ReportDeleted(j)

\* Returns of calls to SDC and to subscribers, which have no timeout.
OutsideStep(j) == Download(j) \/ NotifyOnboarded(j) \/ NotifyDeleted(j)

Step(j) == OwnStep(j) \/ OutsideStep(j)

Next ==
  \E j \in Jobs : \/ \E p \in Pkgs : Distribute(j, p) \/ DeleteCsar(j, p)
                  \/ Step(j) \/ ParseAborts(j) \/ Kill(j)

\* A thread that was started runs on; a call it makes to a partner may never return.
Fairness == \A j \in Jobs : WF_vars(OwnStep(j))

Spec == Init /\ [][Next]_vars /\ Fairness

-----------------------------------------------------------------------------

TypeOK ==
  /\ StoreTypeOK
  /\ job \in [Jobs -> Job]
  /\ contended \in SUBSET Pkgs
  /\ lost \in SUBSET Pkgs
  /\ last \in [Pkgs -> Jobs \cup {None}]

\* A report on a job is final when it says 100 or 255, and progress only grows: a
\* client that polls stops at the right report.  Every path of a thread makes one
\* such report, after the rollback if there is one.
ReportsAreFinal ==
  \A j \in Jobs : \A k \in 2..Len(job[j].log) :
    job[j].log[k - 1] < 100 /\ job[j].log[k - 1] < job[j].log[k]

Distributed(j) == job[j].log = <<5, 30, 100>>
Deleted(j) == job[j].log = <<5, 50, 100>>

Intact(p) == Stored(p) /\ disk[p][Csar] = row[p].vnfd
Absent(p) == ~Stored(p) /\ disk[p] = NoFiles /\ zip[p] = None

\* What the final report on a job tells is so until the next request for the
\* package: it is on-boarded with its archive, or gone with all its files, or it
\* failed and left a package that was there intact and nothing otherwise.  Threads
\* of other packages do not matter, nor do those of this one that came earlier.
ReportIsTrue ==
  \A p \in Pkgs \ (contended \cup lost) : \A j \in Jobs :
    last[p] = j /\ job[j].pkg = p =>
      /\ Distributed(j) => Intact(p)
      /\ Deleted(j) => Absent(p)
      /\ job[j].pc = "ended" => Intact(p) \/ Absent(p)

\* A package that is listed has the archive its row was read from, and VNFD.zip is
\* made of that archive, at every moment: the row is written after the files and
\* removed before them.  Threads that stop half-way may leave files, and then only
\* the archive is replaced by the next distribution.
ListedIsServable ==
  \A p \in Pkgs \ contended : Stored(p) =>
    /\ disk[p][Csar] = row[p].vnfd
    /\ p \notin lost => zip[p] \in {None, row[p].vnfd}

\* The thread waits for SDC or for a subscriber.
Waits(j) == job[j].pc \in {"dist_download", "dist_notify", "del_notify"}

\* Every job comes to its final report and a client that polls is not left waiting,
\* unless the thread stops half-way - it is killed, or an exception without arguments
\* ends it - or waits for ever for a partner's answer.
JobEnds ==
  \A j \in Jobs :
    []<>~Waits(j) =>
      (job[j].pc \notin Idle ~>
         job[j].pc = "stopped" \/ \E n \in Reports(j) : n >= 100)

\* "CSAR(%s) distribute successfully." (the report at 100): the package is there
\* until somebody asks to delete it.
OnlyDeletionRemoves ==
  [][\A j \in Jobs : Distributed(j) /\ Stored(job[j].pkg) =>
       Stored(job[j].pkg)' \/ \E k \in Jobs : DeleteRow(k)]_vars

=============================================================================
