------------------------- MODULE VnfDistributionProofs -------------------------
(***************************************************************************)
(* Proofs about VnfDistribution, for every set of packages and jobs.       *)
(***************************************************************************)
EXTENDS VnfDistribution, SequenceTheorems, TLAPS

\* The reports a thread has made by each of its steps; one may be stopped anywhere.
LogOK(l, log) ==
  /\ l \in {"unused", "dist_create", "del_create"} => log = <<>>
  /\ l \in {"dist_exists", "dist_download", "dist_zip", "dist_parse", "dist_check", "roll_row",
            "roll_dir", "roll_report", "del_notify", "del_row"} => log = <<5>>
  /\ l \in {"dist_save", "dist_done"} => log = <<5, 30>>
  /\ l = "dist_notify" => log = <<5, 30, 100>>
  /\ l \in {"del_dir", "del_done"} => log = <<5, 50>>
  /\ l = "ended" => log \in {<<5, JOB_ERROR>>, <<5, 30, 100>>, <<5, 50, 100>>}
  /\ l = "stopped" => log \in {<<>>, <<5>>, <<5, 30>>, <<5, 50>>, <<5, 30, 100>>}

JobOK(r) ==
  /\ r.pc \notin Idle => r.pkg \in Pkgs
  /\ r.pc \in {"dist_check", "dist_save"} => r.vnfd \in Vnfds
  /\ LogOK(r.pc, r.log)

TypeInv == TypeOK /\ \A j \in Jobs : JobOK(job[j])

LEMMA InitType == Init => TypeInv
  BY DEF Init, StoreInit, TypeInv, TypeOK, StoreTypeOK, NoFiles, EmptyRow, PkgRow, NoRow, Settled,
     InProgress, Content, NoJob, Started, Job, JobOK, LogOK, Label, Idle, Progress

LEMMA AppendToOne ==
  ASSUME NEW a \in Nat, NEW b \in Nat
  PROVE  Append(<<a>>, b) = <<a, b>>
<1>1. Append(<<a>>, b) \in Seq(Nat) /\ <<a, b>> \in Seq(Nat)
  OBVIOUS
<1>2. Len(Append(<<a>>, b)) = 2 /\ Len(<<a, b>>) = 2
  OBVIOUS
<1>3. \A i \in 1..2 : Append(<<a>>, b)[i] = <<a, b>>[i]
  OBVIOUS
<1>4. QED
  BY <1>1, <1>2, <1>3, SeqEqual

LEMMA AppendToTwo ==
  ASSUME NEW a \in Nat, NEW b \in Nat, NEW c \in Nat
  PROVE  Append(<<a, b>>, c) = <<a, b, c>>
<1>1. Append(<<a, b>>, c) \in Seq(Nat) /\ <<a, b, c>> \in Seq(Nat)
  OBVIOUS
<1>2. Len(Append(<<a, b>>, c)) = 3 /\ Len(<<a, b, c>>) = 3
  OBVIOUS
<1>3. \A i \in 1..3 : Append(<<a, b>>, c)[i] = <<a, b, c>>[i]
  OBVIOUS
<1>4. QED
  BY <1>1, <1>2, <1>3, SeqEqual

\* What the reports add up to.
LEMMA Appends ==
  /\ Append(<<>>, 5) = <<5>>
  /\ Append(<<5>>, 30) = <<5, 30>>
  /\ Append(<<5, 30>>, 100) = <<5, 30, 100>>
  /\ Append(<<5>>, 50) = <<5, 50>>
  /\ Append(<<5, 50>>, 100) = <<5, 50, 100>>
  /\ Append(<<5>>, JOB_ERROR) = <<5, JOB_ERROR>>
<1>1. Append(<<>>, 5) = <<5>>
  OBVIOUS
<1>2. QED
  BY <1>1, AppendToOne, AppendToTwo DEF JOB_ERROR

\* A report takes a thread from the log of its step to that of the next.
LEMMA NextLog ==
  ASSUME NEW log
  PROVE  /\ LogOK("dist_create", log) => LogOK("dist_exists", Append(log, 5))
         /\ LogOK("dist_exists", log) => LogOK("ended", Append(log, JOB_ERROR))
         /\ LogOK("dist_check", log) => LogOK("dist_save", Append(log, 30))
         /\ LogOK("dist_done", log) => LogOK("dist_notify", Append(log, 100))
         /\ LogOK("roll_report", log) => LogOK("ended", Append(log, JOB_ERROR))
         /\ LogOK("del_create", log) => LogOK("del_notify", Append(log, 5))
         /\ LogOK("del_row", log) => LogOK("del_dir", Append(log, 50))
         /\ LogOK("del_done", log) => LogOK("ended", Append(log, 100))
<1>1. LogOK("dist_create", log) => LogOK("dist_exists", Append(log, 5))
  BY Appends DEF LogOK
<1>2. LogOK("dist_exists", log) => LogOK("ended", Append(log, JOB_ERROR))
  BY Appends DEF LogOK
<1>3. LogOK("dist_check", log) => LogOK("dist_save", Append(log, 30))
  BY Appends DEF LogOK
<1>4. LogOK("dist_done", log) => LogOK("dist_notify", Append(log, 100))
  BY Appends DEF LogOK
<1>5. LogOK("roll_report", log) => LogOK("ended", Append(log, JOB_ERROR))
  BY Appends DEF LogOK
<1>6. LogOK("del_create", log) => LogOK("del_notify", Append(log, 5))
  BY Appends DEF LogOK
<1>7. LogOK("del_row", log) => LogOK("del_dir", Append(log, 50))
  BY Appends DEF LogOK
<1>8. LogOK("del_done", log) => LogOK("ended", Append(log, 100))
  BY Appends DEF LogOK
<1>9. QED
  BY <1>1, <1>2, <1>3, <1>4, <1>5, <1>6, <1>7, <1>8

-----------------------------------------------------------------------------
(* Types *)

\* A step that gives job j another record, and the other jobs none.
Moves(j, l, v, log) ==
  /\ job'[j].pc = l
  /\ job'[j].pkg = job[j].pkg
  /\ job'[j].vnfd = v
  /\ job'[j].log = log
  /\ \A k \in Jobs \ {j} : job'[k] = job[k]

LEMMA GotoMoves ==
  ASSUME TypeOK, NEW j \in Jobs, NEW l, Goto(j, l)
  PROVE  Moves(j, l, job[j].vnfd, job[j].log)
BY DEF TypeOK, Goto, Moves, Job

LEMMA GotoWithMoves ==
  ASSUME TypeOK, NEW j \in Jobs, NEW v, NEW l, GotoWith(j, v, l)
  PROVE  Moves(j, l, v, job[j].log)
<1> DEFINE r == [job[j] EXCEPT !.pc = l, !.vnfd = v]
<1>1. r.pc = l /\ r.pkg = job[j].pkg /\ r.vnfd = v /\ r.log = job[j].log
  BY DEF TypeOK, Job
<1>2. job' = [job EXCEPT ![j] = r]
  BY DEF GotoWith
<1> HIDE DEF r
<1>3. job'[j] = r /\ \A k \in Jobs \ {j} : job'[k] = job[k]
  BY <1>2 DEF TypeOK
<1>4. QED
  BY <1>1, <1>3 DEF Moves

LEMMA OverMoves ==
  ASSUME TypeOK, NEW j \in Jobs, NEW l, Over(j, l)
  PROVE  Moves(j, l, None, job[j].log)
BY GotoWithMoves DEF Over

LEMMA ReportMoves ==
  ASSUME TypeOK, NEW j \in Jobs, NEW n, NEW l, Report(j, n, l)
  PROVE  Moves(j, l, job[j].vnfd, Append(job[j].log, n))
<1> DEFINE r == [job[j] EXCEPT !.pc = l, !.log = Append(job[j].log, n)]
<1>1. r.pc = l /\ r.pkg = job[j].pkg /\ r.vnfd = job[j].vnfd /\ r.log = Append(job[j].log, n)
  BY DEF TypeOK, Job
<1>2. job' = [job EXCEPT ![j] = r]
  BY DEF Report
<1> HIDE DEF r
<1>3. job'[j] = r /\ \A k \in Jobs \ {j} : job'[k] = job[k]
  BY <1>2 DEF TypeOK
<1>4. QED
  BY <1>1, <1>3 DEF Moves

\* A step that gives one job another record.
LEMMA JobType ==
  ASSUME TypeInv, NEW j \in Jobs, NEW r \in Job, JobOK(r), job' = [job EXCEPT ![j] = r]
  PROVE  job' \in [Jobs -> Job] /\ \A k \in Jobs : JobOK(job[k])'
<1>1. job' \in [Jobs -> Job]
  BY DEF TypeInv, TypeOK
<1>2. \A k \in Jobs : job'[k] = IF k = j THEN r ELSE job[k]
  BY DEF TypeInv, TypeOK
<1>3. QED
  BY <1>1, <1>2 DEF TypeInv

LEMMA GotoType ==
  ASSUME TypeInv, NEW j \in Jobs, NEW l \in Label, job[j].pc \notin Idle, l \notin Idle,
         Goto(j, l),
         l \in {"dist_check", "dist_save"} => job[j].vnfd \in Vnfds,
         LogOK(l, job[j].log)
  PROVE  job' \in [Jobs -> Job] /\ \A k \in Jobs : JobOK(job[k])'
<1>1. job[j] \in Job
  BY DEF TypeInv, TypeOK
<1> DEFINE r == [job[j] EXCEPT !.pc = l]
<1>2. r \in Job /\ JobOK(r)
  BY <1>1 DEF Job, TypeInv, JobOK
<1>3. job' = [job EXCEPT ![j] = r]
  BY DEF Goto
<1>4. QED
  BY <1>2, <1>3, JobType

LEMMA OverType ==
  ASSUME TypeInv, NEW j \in Jobs, NEW l \in Label, job[j].pc \notin Idle,
         l \notin {"dist_check", "dist_save"}, Over(j, l), LogOK(l, job[j].log)
  PROVE  job' \in [Jobs -> Job] /\ \A k \in Jobs : JobOK(job[k])'
<1>1. job[j] \in Job
  BY DEF TypeInv, TypeOK
<1> DEFINE r == [job[j] EXCEPT !.pc = l, !.vnfd = None]
<1>2. r \in Job /\ JobOK(r)
  BY <1>1 DEF Job, TypeInv, JobOK
<1>3. job' = [job EXCEPT ![j] = r]
  BY DEF Over, GotoWith
<1>4. QED
  BY <1>2, <1>3, JobType

LEMMA ReportType ==
  ASSUME TypeInv, NEW j \in Jobs, NEW n \in Progress, NEW l \in Label, job[j].pc \notin Idle,
         Report(j, n, l),
         l \in {"dist_check", "dist_save"} => job[j].vnfd \in Vnfds,
         LogOK(l, Append(job[j].log, n))
  PROVE  job' \in [Jobs -> Job] /\ \A k \in Jobs : JobOK(job[k])'
<1>1. job[j] \in Job
  BY DEF TypeInv, TypeOK
<1> DEFINE r == [job[j] EXCEPT !.pc = l, !.log = Append(job[j].log, n)]
<1>2. Append(job[j].log, n) \in Seq(Progress)
  BY <1>1 DEF Job
<1>3. r \in Job /\ JobOK(r)
  BY <1>1, <1>2 DEF Job, TypeInv, JobOK
<1>4. job' = [job EXCEPT ![j] = r]
  BY DEF Report
<1>5. QED
  BY <1>3, <1>4, JobType

LEMMA AcceptType ==
  ASSUME TypeInv, NEW j \in Jobs, NEW p \in Pkgs, NEW l \in {"dist_create", "del_create"},
         Accept(j, p, l)
  PROVE  TypeInv'
<1>1. <<>> \in Seq(Progress)
  OBVIOUS
<1>2. Started(p, l) \in Job /\ JobOK(Started(p, l))
  BY <1>1 DEF Started, Job, JobOK, LogOK, Label, Idle
<1>3. job' \in [Jobs -> Job] /\ \A k \in Jobs : JobOK(job[k])'
  BY <1>2, JobType DEF Accept
<1>4. QED
  BY <1>3 DEF Accept, TypeInv, TypeOK, StoreTypeOK

LEMMA StepType ==
  ASSUME TypeInv, NEW j \in Jobs, Step(j)
  PROVE  TypeInv'
<1>1. job[j] \in Job /\ JobOK(job[j])
  BY DEF TypeInv, TypeOK
<1> DEFINE JobsOK == job' \in [Jobs -> Job] /\ \A k \in Jobs : JobOK(job[k])'
<1>2. JobsOK /\ StoreTypeOK' /\ History => TypeInv'
  BY DEF TypeInv, TypeOK, History
<1>3. UNCHANGED <<row, disk, zip>> => StoreTypeOK'
  BY DEF TypeInv, TypeOK, StoreTypeOK
<1>4. ASSUME NEW p \in Pkgs, RemoveRow(p)
      PROVE  row' \in [Pkgs -> PkgRow]
  <2>1. EmptyRow("GONE") \in PkgRow
    BY DEF EmptyRow, PkgRow, NoRow
  <2>2. QED
    BY <1>4, <2>1 DEF RemoveRow, TypeInv, TypeOK, StoreTypeOK
<1>5. ASSUME NEW p \in Pkgs, RemoveDir(p)
      PROVE  /\ disk' \in [Pkgs -> [Files -> Content \cup {None}]]
             /\ zip' \in [Pkgs -> Content \cup {None}]
  BY <1>5 DEF RemoveDir, NoFiles, TypeInv, TypeOK, StoreTypeOK
<1>6. CASE CreateDistribution(j)
  <2>1. JobsOK
    BY <1>1, <1>6, NextLog, ReportType DEF CreateDistribution, At, JobOK, Label, Idle, Progress,
       JOB_ERROR
  <2>2. QED
    BY <1>2, <1>3, <1>6, <2>1 DEF CreateDistribution
<1>7. CASE CheckExists(j)
  <2>1. CASE Stored(job[j].pkg)
    <3>1. JobsOK
      BY <1>1, <1>7, <2>1, NextLog, ReportType DEF CheckExists, At, JobOK, Label, Idle, Progress,
         JOB_ERROR
    <3>2. QED
      BY <1>2, <1>3, <1>7, <3>1 DEF CheckExists
  <2>2. CASE ~Stored(job[j].pkg)
    <3>1. JobsOK
      BY <1>1, <1>7, <2>2, GotoType DEF CheckExists, At, JobOK, LogOK, Label, Idle
    <3>2. QED
      BY <1>2, <1>3, <1>7, <3>1 DEF CheckExists
  <2>3. QED
    BY <2>1, <2>2
<1>8. CASE Download(j)
  <2>1. JobsOK
    BY <1>1, <1>8, GotoType, OverType DEF Download, Fail, At, JobOK, LogOK, Label, Idle
  <2>2. StoreTypeOK'
    <3>1. CASE UNCHANGED disk
      BY <1>3, <1>8, <3>1 DEF Download
    <3>2. ASSUME NEW c \in Content, disk' = [disk EXCEPT ![job[j].pkg][Csar] = c]
          PROVE  StoreTypeOK'
      BY <1>1, <1>8, <3>2, CsarAssumption DEF Download, At, JobOK, Idle, TypeInv, TypeOK,
         StoreTypeOK
    <3>3. QED
      BY <1>8, <3>1, <3>2 DEF Download
  <2>3. QED
    BY <1>2, <1>8, <2>1, <2>2 DEF Download
<1>9. CASE CreateVnfdZip(j)
  <2>1. JobsOK
    BY <1>1, <1>9, GotoType, OverType DEF CreateVnfdZip, Fail, At, JobOK, LogOK, Label, Idle
  <2>2. StoreTypeOK'
    BY <1>1, <1>9, CsarAssumption DEF CreateVnfdZip, At, JobOK, Idle, TypeInv, TypeOK,
               StoreTypeOK, Content
  <2>3. QED
    BY <1>2, <1>9, <2>1, <2>2 DEF CreateVnfdZip
<1>10. CASE ParseVnfd(j)
  <2>1. CASE Fail(j)
    <3>1. JobsOK
      BY <1>1, <1>10, <2>1, OverType DEF ParseVnfd, Fail, At, JobOK, LogOK, Label, Idle
    <3>2. QED
      BY <1>2, <1>3, <1>10, <3>1 DEF ParseVnfd
  <2>2. ASSUME NEW c \in Vnfds, GotoWith(j, c, "dist_check")
        PROVE  TypeInv'
    <3> DEFINE r == [job[j] EXCEPT !.pc = "dist_check", !.vnfd = c]
    <3>1. r \in Job /\ JobOK(r)
      BY <1>1, <1>10 DEF ParseVnfd, At, Job, JobOK, LogOK, Label, Idle
    <3>2. job' = [job EXCEPT ![j] = r]
      BY <2>2 DEF GotoWith
    <3>3. JobsOK
      BY <3>1, <3>2, JobType
    <3>4. QED
      BY <1>2, <1>3, <1>10, <3>3 DEF ParseVnfd
  <2>3. QED
    BY <1>10, <2>1, <2>2 DEF ParseVnfd
<1>11. CASE CheckVnfdId(j)
  <2>1. CASE Holders(job[j].vnfd) = {}
    <3>1. JobsOK
      BY <1>1, <1>11, <2>1, NextLog, ReportType DEF CheckVnfdId, At, JobOK, Label, Idle, Progress
    <3>2. QED
      BY <1>2, <1>3, <1>11, <3>1 DEF CheckVnfdId
  <2>2. CASE Holders(job[j].vnfd) # {}
    <3>1. JobsOK
      BY <1>1, <1>11, <2>2, OverType DEF CheckVnfdId, Fail, At, JobOK, LogOK, Label, Idle
    <3>2. QED
      BY <1>2, <1>3, <1>11, <3>1 DEF CheckVnfdId
  <2>3. QED
    BY <2>1, <2>2
<1>12. CASE SaveRow(j)
  <2>1. JobsOK
    BY <1>1, <1>12, GotoType DEF SaveRow, At, JobOK, LogOK, Label, Idle
  <2>2. StoreTypeOK'
    BY <1>1, <1>12, CsarAssumption DEF SaveRow, OnboardedRow, PkgRow, Settled, At, JobOK, Idle,
       TypeInv, TypeOK, StoreTypeOK
  <2>3. QED
    BY <1>2, <1>12, <2>1, <2>2 DEF SaveRow
<1>13. CASE ReportDistributed(j)
  <2>1. JobsOK
    BY <1>1, <1>13, NextLog, ReportType DEF ReportDistributed, At, JobOK, Label, Idle, Progress,
       JOB_ERROR
  <2>2. QED
    BY <1>2, <1>3, <1>13, <2>1 DEF ReportDistributed
<1>14. CASE NotifyOnboarded(j)
  <2>1. JobsOK
    BY <1>1, <1>14, OverType DEF NotifyOnboarded, At, JobOK, LogOK, Label, Idle
  <2>2. QED
    BY <1>2, <1>3, <1>14, <2>1 DEF NotifyOnboarded
<1>15. CASE RollbackRow(j)
  <2>1. JobsOK
    BY <1>1, <1>15, GotoType DEF RollbackRow, At, JobOK, LogOK, Label, Idle
  <2>2. StoreTypeOK'
    BY <1>1, <1>4, <1>15 DEF RollbackRow, At, JobOK, Idle, TypeInv, TypeOK, StoreTypeOK
  <2>3. QED
    BY <1>2, <1>15, <2>1, <2>2 DEF RollbackRow
<1>16. CASE RollbackDir(j)
  <2>1. JobsOK
    BY <1>1, <1>16, GotoType DEF RollbackDir, At, JobOK, LogOK, Label, Idle
  <2>2. StoreTypeOK'
    BY <1>1, <1>5, <1>16 DEF RollbackDir, At, JobOK, Idle, TypeInv, TypeOK, StoreTypeOK
  <2>3. QED
    BY <1>2, <1>16, <2>1, <2>2 DEF RollbackDir
<1>17. CASE ReportFailed(j)
  <2>1. JobsOK
    BY <1>1, <1>17, NextLog, ReportType DEF ReportFailed, At, JobOK, Label, Idle, Progress,
       JOB_ERROR
  <2>2. QED
    BY <1>2, <1>3, <1>17, <2>1 DEF ReportFailed
<1>18. CASE CreateDeletion(j)
  <2>1. JobsOK
    BY <1>1, <1>18, NextLog, ReportType DEF CreateDeletion, At, JobOK, Label, Idle, Progress,
       JOB_ERROR
  <2>2. QED
    BY <1>2, <1>3, <1>18, <2>1 DEF CreateDeletion
<1>19. CASE NotifyDeleted(j)
  <2>1. JobsOK
    BY <1>1, <1>19, GotoType DEF NotifyDeleted, At, JobOK, LogOK, Label, Idle
  <2>2. QED
    BY <1>2, <1>3, <1>19, <2>1 DEF NotifyDeleted
<1>20. CASE DeleteRow(j)
  <2>1. JobsOK
    BY <1>1, <1>20, NextLog, ReportType DEF DeleteRow, At, JobOK, Label, Idle, Progress,
       JOB_ERROR
  <2>2. StoreTypeOK'
    BY <1>1, <1>4, <1>20 DEF DeleteRow, At, JobOK, Idle, TypeInv, TypeOK, StoreTypeOK
  <2>3. QED
    BY <1>2, <1>20, <2>1, <2>2 DEF DeleteRow
<1>21. CASE DeleteDir(j)
  <2>1. JobsOK
    BY <1>1, <1>21, GotoType DEF DeleteDir, At, JobOK, LogOK, Label, Idle
  <2>2. StoreTypeOK'
    BY <1>1, <1>5, <1>21 DEF DeleteDir, At, JobOK, Idle, TypeInv, TypeOK, StoreTypeOK
  <2>3. QED
    BY <1>2, <1>21, <2>1, <2>2 DEF DeleteDir
<1>22. CASE ReportDeleted(j)
  <2>1. JobsOK
    BY <1>1, <1>22, NextLog, ReportType DEF ReportDeleted, At, JobOK, Label, Idle, Progress,
       JOB_ERROR
  <2>2. QED
    BY <1>2, <1>3, <1>22, <2>1 DEF ReportDeleted
<1>23. QED
  BY <1>6, <1>7, <1>8, <1>9, <1>10, <1>11, <1>12, <1>13, <1>14, <1>15, <1>16, <1>17, <1>18,
     <1>19, <1>20, <1>21, <1>22 DEF Step, OwnStep, OutsideStep

LEMMA StopType ==
  ASSUME TypeInv, NEW j \in Jobs, job[j].pc \notin Idle, Stop(j)
  PROVE  TypeInv'
<1>1. job[j] \in Job /\ JobOK(job[j])
  BY DEF TypeInv, TypeOK
<1>2. job' \in [Jobs -> Job] /\ \A k \in Jobs : JobOK(job[k])'
  <2>1. LogOK("stopped", job[j].log)
    BY <1>1 DEF Job, JobOK, LogOK, Label
  <2>2. QED
    BY <1>1, <2>1, OverType DEF Stop, Label, Idle
<1>3. QED
  BY <1>1, <1>2 DEF Stop, JobOK, TypeInv, TypeOK, StoreTypeOK

LEMMA NextType == TypeInv /\ [Next]_vars => TypeInv'
<1> SUFFICES ASSUME TypeInv, [Next]_vars
             PROVE  TypeInv'
  OBVIOUS
<1>1. CASE Next
  BY <1>1, AcceptType, StepType, StopType DEF Next, Distribute, DeleteCsar, Kill, ParseAborts,
     At, Idle
<1>2. CASE UNCHANGED vars
  BY <1>2 DEF vars, TypeInv, TypeOK, StoreTypeOK, JobOK
<1>3. QED
  BY <1>1, <1>2

LEMMA TypeInvariant == Spec => []TypeInv
<1>1. Init => TypeInv
  BY InitType
<1>2. TypeInv /\ [Next]_vars => TypeInv'
  BY NextType
<1>3. QED
  BY <1>1, <1>2, PTL DEF Spec

\* The rows, the directories and the jobs are well formed.
THEOREM WellTyped == Spec => []TypeOK
<1>1. TypeInv => TypeOK
  BY DEF TypeInv
<1>2. QED
  BY <1>1, TypeInvariant, PTL

\* Progress grows and nothing follows a final report: by LogOK, the reports of a job
\* are among a few sequences, all of which are so.
THEOREM FinalReports == Spec => []ReportsAreFinal
<1>1. ASSUME TypeInv, NEW j \in Jobs, NEW k \in 2..Len(job[j].log)
      PROVE  job[j].log[k - 1] < 100 /\ job[j].log[k - 1] < job[j].log[k]
  <2>1. job[j].log \in {<<>>, <<5>>, <<5, 30>>, <<5, 50>>, <<5, 30, 100>>, <<5, 50, 100>>,
                        <<5, 255>>}
    BY <1>1 DEF TypeInv, TypeOK, JobOK, LogOK, Job, Label, Idle, JOB_ERROR
  <2>2. CASE job[j].log \in {<<>>, <<5>>}
    BY <1>1, <2>2
  <2>3. CASE job[j].log \in {<<5, 30>>, <<5, 50>>, <<5, 255>>}
    <3>1. Len(job[j].log) = 2
      BY <2>3
    <3>2. k = 2
      BY <1>1, <3>1
    <3>3. QED
      BY <2>3, <3>2
  <2>4. CASE job[j].log \in {<<5, 30, 100>>, <<5, 50, 100>>}
    <3>1. Len(job[j].log) = 3
      BY <2>4
    <3>2. k \in {2, 3}
      BY <1>1, <3>1
    <3>3. QED
      BY <2>4, <3>2
  <2>5. QED
    BY <2>1, <2>2, <2>3, <2>4
<1>2. TypeInv => ReportsAreFinal
  BY <1>1 DEF ReportsAreFinal
<1>3. QED
  BY <1>2, TypeInvariant, PTL

-----------------------------------------------------------------------------
(* The store, as the one thread at work on a package knows it. *)

Listed(p) ==
  Stored(p) => /\ disk[p][Csar] = row[p].vnfd
               /\ p \notin lost => zip[p] \in {None, row[p].vnfd}

\* What a thread with record r knows of its package p, by its next step.
Knows(p, r) ==
  /\ r.pc \in {"dist_download", "dist_zip", "dist_parse", "dist_check", "dist_save", "roll_row",
               "roll_dir", "roll_report", "del_dir", "del_done"} => ~Stored(p)
  /\ r.pc \in {"dist_done", "dist_notify"} => Stored(p)
  /\ r.pc \in {"dist_check", "dist_save"} => disk[p][Csar] = r.vnfd
  /\ r.pc \in {"roll_report", "del_done"} => disk[p] = NoFiles /\ zip[p] = None
  /\ p \notin lost =>
       /\ r.pc \in {"dist_create", "dist_exists", "del_create", "del_notify", "del_row"} =>
            Intact(p) \/ Absent(p)
       /\ r.pc \in {"dist_download", "dist_zip"} => zip[p] = None
       /\ r.pc \in {"dist_parse", "dist_check", "dist_save"} => zip[p] \in {None, disk[p][Csar]}

\* What a thread with record r leaves when it is over.
Leaves(p, r) ==
  r.pc \in Idle /\ p \notin lost =>
    /\ Intact(p) \/ Absent(p)
    /\ r.log = <<5, 30, 100>> => Stored(p)
    /\ r.log = <<5, 50, 100>> => ~Stored(p)

Alone(p) == Working(p) \subseteq {last[p]}

AtRest(p) == Working(p) = {} /\ p \notin lost => Intact(p) \/ Absent(p)

PkgOK(p) ==
  /\ Alone(p)
  /\ AtRest(p)
  /\ Listed(p)
  /\ \A j \in Jobs : job[j].pkg = p /\ last[p] = j => Knows(p, job[j]) /\ Leaves(p, job[j])

StoppedIsLost == \A j \in Jobs : job[j].pc = "stopped" => job[j].pkg \in lost

StoreInv ==
  /\ TypeInv
  /\ StoppedIsLost
  /\ \A p \in Pkgs \ contended : PkgOK(p)

LEMMA InitInv == Init => StoreInv
  BY InitType DEF Init, StoreInit, StoreInv, TypeInv, TypeOK, StoppedIsLost, PkgOK, Alone, AtRest,
     Listed, Knows, Leaves, Working, Idle, Absent, Stored, NoJob, Started, EmptyRow, NoRow

\* A package that a step leaves alone.
LEMMA OtherPkg ==
  ASSUME TypeInv, TypeInv', NEW q \in Pkgs, PkgOK(q),
         row'[q] = row[q], disk'[q] = disk[q], zip'[q] = zip[q], last'[q] = last[q],
         q \in lost' <=> q \in lost,
         \A k \in Jobs : job'[k].pkg = q => job'[k] = job[k] \/ job'[k].pc \in Idle,
         \A k \in Jobs : job[k].pkg = q /\ job[k].pc \notin Idle => job'[k] = job[k],
         \A k \in Jobs : job'[k].pkg = q /\ last[q] = k => job'[k] = job[k]
  PROVE  PkgOK(q)'
<1>1. Working(q)' = Working(q)
  BY DEF Working
<1>2. /\ (Stored(q) <=> Stored(q)') /\ (Intact(q) <=> Intact(q)')
      /\ (Absent(q) <=> Absent(q)')
  BY DEF Stored, Intact, Absent
<1>3. Listed(q)'
  BY <1>2 DEF PkgOK, Listed
<1>4. Alone(q)' /\ AtRest(q)'
  BY <1>1, <1>2 DEF PkgOK, Alone, AtRest
<1>5. ASSUME NEW k \in Jobs, job'[k].pkg = q, last'[q] = k
      PROVE  Knows(q, job[k])' /\ Leaves(q, job[k])'
  BY <1>2, <1>5 DEF PkgOK, Knows, Leaves
<1>6. QED
  BY <1>3, <1>4, <1>5 DEF PkgOK

\* A step of a thread keeps to its own job and its own package.
Keeps(j) ==
  /\ job[j].pc \notin Idle
  /\ \A k \in Jobs \ {j} : job'[k] = job[k]
  /\ job'[j].pkg = job[j].pkg
  /\ job'[j].pc # "stopped"
  /\ \A q \in Pkgs \ {job[j].pkg} : row'[q] = row[q] /\ disk'[q] = disk[q] /\ zip'[q] = zip[q]
  /\ History

LEMMA StepKeeps ==
  ASSUME TypeInv, NEW j \in Jobs, Step(j)
  PROVE  Keeps(j)
<1>1. /\ TypeOK
      /\ row \in [Pkgs -> PkgRow]
      /\ disk \in [Pkgs -> [Files -> Content \cup {None}]]
      /\ zip \in [Pkgs -> Content \cup {None}]
  BY DEF TypeInv, TypeOK, StoreTypeOK
<1>2. CASE CreateDistribution(j)
  BY <1>1, <1>2, ReportMoves DEF CreateDistribution, At, Moves, Keeps, Idle, History
<1>3. CASE CheckExists(j)
  BY <1>1, <1>3, GotoMoves, ReportMoves DEF CheckExists, At, Moves, Keeps, Idle, History
<1>4. CASE Download(j)
  <2>1. Goto(j, "dist_zip") \/ Over(j, "roll_row")
    BY <1>4 DEF Download, Fail
  <2>2. \A q \in Pkgs \ {job[j].pkg} : row'[q] = row[q] /\ disk'[q] = disk[q] /\ zip'[q] = zip[q]
    BY <1>1, <1>4 DEF Download
  <2>3. QED
    BY <1>1, <1>4, <2>1, <2>2, GotoMoves, OverMoves DEF Download, At, Moves, Keeps, Idle, History
<1>5. CASE CreateVnfdZip(j)
  BY <1>1, <1>5, GotoMoves, OverMoves DEF CreateVnfdZip, At, Fail, Moves, Keeps, Idle, History
<1>6. CASE ParseVnfd(j)
  BY <1>1, <1>6, GotoWithMoves, OverMoves DEF ParseVnfd, At, Fail, Moves, Keeps, Idle, History
<1>7. CASE CheckVnfdId(j)
  BY <1>1, <1>7, OverMoves, ReportMoves DEF CheckVnfdId, At, Fail, Moves, Keeps, Idle, History
<1>8. CASE SaveRow(j)
  BY <1>1, <1>8, GotoMoves DEF SaveRow, At, Moves, Keeps, Idle, History
<1>9. CASE ReportDistributed(j)
  BY <1>1, <1>9, ReportMoves DEF ReportDistributed, At, Moves, Keeps, Idle, History
<1>10. CASE NotifyOnboarded(j)
  BY <1>1, <1>10, OverMoves DEF NotifyOnboarded, At, Moves, Keeps, Idle, History
<1>11. CASE RollbackRow(j)
  BY <1>1, <1>11, GotoMoves DEF RollbackRow, At, RemoveRow, Moves, Keeps, Idle, History
<1>12. CASE RollbackDir(j)
  BY <1>1, <1>12, GotoMoves DEF RollbackDir, At, RemoveDir, Moves, Keeps, Idle, History
<1>13. CASE ReportFailed(j)
  BY <1>1, <1>13, ReportMoves DEF ReportFailed, At, Moves, Keeps, Idle, History
<1>14. CASE CreateDeletion(j)
  BY <1>1, <1>14, ReportMoves DEF CreateDeletion, At, Moves, Keeps, Idle, History
<1>15. CASE NotifyDeleted(j)
  BY <1>1, <1>15, GotoMoves DEF NotifyDeleted, At, Moves, Keeps, Idle, History
<1>16. CASE DeleteRow(j)
  BY <1>1, <1>16, ReportMoves DEF DeleteRow, At, RemoveRow, Moves, Keeps, Idle, History
<1>17. CASE DeleteDir(j)
  BY <1>1, <1>17, GotoMoves DEF DeleteDir, At, RemoveDir, Moves, Keeps, Idle, History
<1>18. CASE ReportDeleted(j)
  BY <1>1, <1>18, ReportMoves DEF ReportDeleted, At, Moves, Keeps, Idle, History
<1>19. QED
  BY <1>2, <1>3, <1>4, <1>5, <1>6, <1>7, <1>8, <1>9, <1>10, <1>11, <1>12, <1>13, <1>14, <1>15,
     <1>16, <1>17, <1>18 DEF Step, OwnStep, OutsideStep

\* So what remains to show of a step is what it does to the package of its thread.
LEMMA OwnPkg ==
  ASSUME StoreInv, TypeInv', NEW j \in Jobs, NEW p \in Pkgs, job[j].pkg = p, Keeps(j),
         p \notin contended => Listed(p)' /\ Knows(p, job[j])' /\ Leaves(p, job[j])'
  PROVE  StoreInv'
<1>1. StoppedIsLost'
  BY DEF StoreInv, StoppedIsLost, Keeps, History
<1>2. ASSUME NEW q \in Pkgs \ contended, q # p
      PROVE  PkgOK(q)'
  <2>1. PkgOK(q) /\ last'[q] = last[q] /\ (q \in lost' <=> q \in lost)
    BY DEF StoreInv, Keeps, History
  <2>2. \A k \in Jobs : job'[k].pkg = q \/ job[k].pkg = q => job'[k] = job[k]
    BY <1>2 DEF Keeps
  <2>3. QED
    BY <1>2, <2>1, <2>2, OtherPkg DEF Keeps, StoreInv
<1>3. ASSUME p \in Pkgs \ contended
      PROVE  PkgOK(p)'
  <2>1. PkgOK(p) /\ last[p] = j /\ last' = last
    BY <1>3 DEF StoreInv, PkgOK, Alone, Working, Keeps, History
  <2>2. Alone(p)'
    BY <2>1 DEF PkgOK, Alone, Working, Keeps
  <2>3. AtRest(p)'
    BY <1>3 DEF AtRest, Working, Leaves, Keeps
  <2>4. \A k \in Jobs : last'[p] = k => k = j
    BY <2>1
  <2>5. QED
    BY <1>3, <2>2, <2>3, <2>4 DEF PkgOK, Keeps
<1>4. \A q \in Pkgs \ contended : PkgOK(q)'
  BY <1>2, <1>3
<1>5. contended' = contended
  BY DEF Keeps, History
<1>6. QED
  BY <1>1, <1>4, <1>5 DEF StoreInv

\* The three ways a job ends are told apart by its reports.
LEMMA EndsDiffer ==
  /\ Append(<<5>>, JOB_ERROR) # <<5, 30, 100>>
  /\ Append(<<5>>, JOB_ERROR) # <<5, 50, 100>>
  /\ <<5, 30, 100>> # <<5, 50, 100>>
<1>1. /\ <<5, 30, 100>>[2] = 30 /\ <<5, 50, 100>>[2] = 50 /\ Append(<<5>>, JOB_ERROR)[2] = 255
  BY DEF JOB_ERROR
<1>2. QED
  BY <1>1

LEMMA LogsDiffer ==
  \A x \in {<<5, 30, 100>>, <<5, 50, 100>>} : x \notin {<<>>, <<5>>, <<5, 30>>, <<5, 50>>}
<1>1. /\ Len(<<>>) = 0 /\ Len(<<5>>) = 1 /\ Len(<<5, 30>>) = 2 /\ Len(<<5, 50>>) = 2
      /\ Len(<<5, 30, 100>>) = 3 /\ Len(<<5, 50, 100>>) = 3
  OBVIOUS
<1>2. QED
  BY <1>1

LEMMA StepInv ==
  ASSUME StoreInv, NEW j \in Jobs, Step(j)
  PROVE  StoreInv'
<1>1. TypeInv /\ TypeInv' /\ Keeps(j)
  BY StepType, StepKeeps DEF StoreInv
<1>2. PICK p \in Pkgs : job[j].pkg = p
  BY <1>1 DEF TypeInv, JobOK, Keeps
<1> DEFINE Goal == Listed(p)' /\ Knows(p, job[j])' /\ Leaves(p, job[j])'
<1>3. SUFFICES ASSUME p \notin contended
               PROVE  Goal
  BY <1>1, <1>2, OwnPkg DEF StoreInv
<1>4. Listed(p) /\ Knows(p, job[j]) /\ lost' = lost
  BY <1>1, <1>2, <1>3 DEF StoreInv, PkgOK, Alone, Working, Keeps, History
<1>5. /\ TypeOK
      /\ LogOK(job[j].pc, job[j].log)
      /\ row \in [Pkgs -> PkgRow]
      /\ disk \in [Pkgs -> [Files -> Content \cup {None}]]
      /\ zip \in [Pkgs -> Content \cup {None}]
  BY <1>1 DEF TypeInv, TypeOK, StoreTypeOK, JobOK
<1>6. job[j].log = <<5>> => Append(job[j].log, JOB_ERROR) \notin {<<5, 30, 100>>, <<5, 50, 100>>}
  BY EndsDiffer
<1>7. CASE CreateDistribution(j)
  BY <1>2, <1>4, <1>5, <1>7, ReportMoves DEF CreateDistribution, At, Moves, Idle, Listed,
     Knows, Leaves, Intact, Absent, Stored
<1>8. CASE CheckExists(j)
  <2>1. CASE Stored(p)
    <3>1. Moves(j, "ended", job[j].vnfd, Append(job[j].log, JOB_ERROR)) /\ job[j].log = <<5>>
      BY <1>2, <1>5, <1>8, <2>1, ReportMoves DEF CheckExists, At, LogOK
    <3>2. job'[j].log \notin {<<5, 30, 100>>, <<5, 50, 100>>}
      BY <1>6, <3>1 DEF Moves
    <3>3. QED
      BY <1>4, <1>8, <3>1, <3>2 DEF CheckExists, At, Moves, Idle, Listed, Knows, Leaves, Intact,
         Absent, Stored
  <2>2. CASE ~Stored(p)
    BY <1>2, <1>4, <1>5, <1>8, <2>2, GotoMoves DEF CheckExists, At, Moves, Idle, Listed, Knows,
       Leaves, Intact, Absent, Stored
  <2>3. QED
    BY <2>1, <2>2
<1>9. CASE Download(j)
  BY <1>2, <1>4, <1>5, <1>9, GotoMoves, OverMoves, CsarAssumption DEF Download, At, Fail,
     Moves, Idle, Listed, Knows, Leaves, Intact, Absent, Stored
<1>10. CASE CreateVnfdZip(j)
  BY <1>2, <1>4, <1>5, <1>10, GotoMoves, OverMoves, CsarAssumption DEF CreateVnfdZip, At,
     Fail, Moves, Idle, Listed, Knows, Leaves, Intact, Absent, Stored
<1>11. CASE ParseVnfd(j)
  BY <1>2, <1>4, <1>5, <1>11, GotoWithMoves, OverMoves DEF ParseVnfd, At, Fail, Moves, Idle,
     Listed, Knows, Leaves, Intact, Absent, Stored
<1>12. CASE CheckVnfdId(j)
  BY <1>2, <1>4, <1>5, <1>12, OverMoves, ReportMoves DEF CheckVnfdId, At, Fail, Moves, Idle,
     Listed, Knows, Leaves, Intact, Absent, Stored
<1>13. CASE SaveRow(j)
  BY <1>2, <1>4, <1>5, <1>13, GotoMoves, CsarAssumption DEF SaveRow, At, Moves, OnboardedRow,
     NoRow, Idle, Listed, Knows, Leaves, Intact, Absent, Stored
<1>14. CASE ReportDistributed(j)
  BY <1>2, <1>4, <1>5, <1>14, ReportMoves DEF ReportDistributed, At, Moves, Idle, Listed,
     Knows, Leaves, Intact, Absent, Stored
<1>15. CASE NotifyOnboarded(j)
  BY <1>2, <1>4, <1>5, <1>15, OverMoves, EndsDiffer, Appends DEF NotifyOnboarded, At, Moves,
     LogOK, Idle, Listed, Knows, Leaves, Intact, Absent, Stored
<1>16. CASE RollbackRow(j)
  BY <1>2, <1>4, <1>5, <1>16, GotoMoves DEF RollbackRow, At, RemoveRow, Moves, EmptyRow,
     NoRow, Idle, Listed, Knows, Leaves, Intact, Absent, Stored
<1>17. CASE RollbackDir(j)
  BY <1>2, <1>4, <1>5, <1>17, GotoMoves DEF RollbackDir, At, RemoveDir, Moves, Idle, Listed,
     Knows, Leaves, Intact, Absent, Stored
<1>18. CASE ReportFailed(j)
  <2>1. Moves(j, "ended", job[j].vnfd, Append(job[j].log, JOB_ERROR)) /\ job[j].log = <<5>>
    BY <1>5, <1>18, ReportMoves DEF ReportFailed, At, LogOK
  <2>2. job'[j].log \notin {<<5, 30, 100>>, <<5, 50, 100>>}
    BY <1>6, <2>1 DEF Moves
  <2>3. QED
    BY <1>4, <1>18, <2>1, <2>2 DEF ReportFailed, At, Moves, Idle, Listed, Knows, Leaves, Intact,
       Absent, Stored
<1>19. CASE CreateDeletion(j)
  BY <1>2, <1>4, <1>5, <1>19, ReportMoves DEF CreateDeletion, At, Moves, Idle, Listed, Knows,
     Leaves, Intact, Absent, Stored
<1>20. CASE NotifyDeleted(j)
  BY <1>2, <1>4, <1>5, <1>20, GotoMoves DEF NotifyDeleted, At, Moves, Idle, Listed, Knows,
     Leaves, Intact, Absent, Stored
<1>21. CASE DeleteRow(j)
  BY <1>2, <1>4, <1>5, <1>21, ReportMoves DEF DeleteRow, At, RemoveRow, Moves, EmptyRow,
     NoRow, Idle, Listed, Knows, Leaves, Intact, Absent, Stored
<1>22. CASE DeleteDir(j)
  BY <1>2, <1>4, <1>5, <1>22, GotoMoves DEF DeleteDir, At, RemoveDir, Moves, Idle, Listed,
     Knows, Leaves, Intact, Absent, Stored
<1>23. CASE ReportDeleted(j)
  <2>1. Moves(j, "ended", job[j].vnfd, Append(job[j].log, 100)) /\ job[j].log = <<5, 50>>
    BY <1>5, <1>23, ReportMoves DEF ReportDeleted, At, LogOK
  <2>2. job'[j].log # <<5, 30, 100>>
    BY <2>1, Appends, EndsDiffer DEF Moves
  <2>3. QED
    BY <1>4, <1>23, <2>1, <2>2 DEF ReportDeleted, At, Moves, Idle, Listed, Knows, Leaves, Intact,
       Absent, Stored
<1>24. QED
  BY <1>7, <1>8, <1>9, <1>10, <1>11, <1>12, <1>13, <1>14, <1>15, <1>16, <1>17, <1>18, <1>19,
     <1>20, <1>21, <1>22, <1>23 DEF Step, OwnStep, OutsideStep

\* A request takes a slot that is idle; if nothing is at work on its package, that
\* package is as the last thread left it.
LEMMA AcceptInv ==
  ASSUME StoreInv, NEW j \in Jobs, NEW p \in Pkgs, NEW l \in {"dist_create", "del_create"},
         Accept(j, p, l)
  PROVE  StoreInv'
<1>1. TypeInv /\ TypeInv' /\ job \in [Jobs -> Job]
  BY AcceptType DEF StoreInv, TypeInv, TypeOK
<1>2. /\ job[j].pc \in Idle
      /\ job'[j] = Started(p, l)
      /\ \A k \in Jobs \ {j} : job'[k] = job[k]
      /\ UNCHANGED <<row, disk, zip, lost>>
      /\ last' = [last EXCEPT ![p] = j]
  BY <1>1 DEF Accept
<1>3. job'[j].pc = l /\ job'[j].pkg = p
  BY <1>2 DEF Started
<1>4. StoppedIsLost'
  BY <1>2, <1>3 DEF StoreInv, StoppedIsLost
<1>5. ASSUME NEW q \in Pkgs \ contended, q # p
      PROVE  PkgOK(q)'
  <2>1. PkgOK(q) /\ last'[q] = last[q]
    BY <1>1, <1>2, <1>5 DEF StoreInv, TypeInv, TypeOK
  <2>2. \A k \in Jobs : job'[k].pkg = q => job'[k] = job[k]
    BY <1>2, <1>3, <1>5
  <2>3. \A k \in Jobs : job[k].pkg = q /\ job[k].pc \notin Idle => job'[k] = job[k]
    BY <1>2
  <2>4. QED
    BY <1>1, <1>2, <2>1, <2>2, <2>3, OtherPkg
<1>6. ASSUME p \notin contended, Working(p) = {}
      PROVE  PkgOK(p)'
  <2>1. Listed(p) /\ (p \notin lost => Intact(p) \/ Absent(p))
    BY <1>6 DEF StoreInv, PkgOK, AtRest
  <2>2. last'[p] = j
    BY <1>1, <1>2 DEF TypeInv, TypeOK
  <2>3. Working(p)' = {j}
    BY <1>2, <1>3, <1>6 DEF Working, Idle
  <2>4. Alone(p)' /\ AtRest(p)'
    BY <2>2, <2>3 DEF Alone, AtRest
  <2>5. Listed(p)' /\ Knows(p, job[j])' /\ Leaves(p, job[j])'
    BY <1>2, <1>3, <2>1 DEF Listed, Knows, Leaves, Idle, Intact, Absent, Stored
  <2>6. \A k \in Jobs : last'[p] = k => k = j
    BY <2>2
  <2>7. QED
    BY <2>4, <2>5, <2>6 DEF PkgOK
<1>7. contended' = IF Working(p) = {} THEN contended ELSE contended \cup {p}
  BY DEF Accept
<1>8. ASSUME NEW q \in Pkgs \ contended'
      PROVE  PkgOK(q)'
  BY <1>5, <1>6, <1>7
<1>9. QED
  BY <1>1, <1>4, <1>8 DEF StoreInv

LEMMA StopInv ==
  ASSUME StoreInv, NEW j \in Jobs, job[j].pc \notin Idle, Stop(j)
  PROVE  StoreInv'
<1>1. TypeInv /\ TypeInv' /\ TypeOK
  BY StopType DEF StoreInv, TypeInv
<1>2. PICK p \in Pkgs : job[j].pkg = p
  BY <1>1 DEF TypeInv, JobOK
<1>3. Moves(j, "stopped", None, job[j].log)
  BY <1>1, OverMoves DEF Stop
<1>4. /\ job'[j].pc = "stopped" /\ job'[j].pkg = p
      /\ \A k \in Jobs \ {j} : job'[k] = job[k]
      /\ UNCHANGED <<row, disk, zip, contended, last>> /\ lost' = lost \cup {p}
  BY <1>2, <1>3 DEF Stop, Moves
<1>5. StoppedIsLost'
  BY <1>4 DEF StoreInv, StoppedIsLost
<1>6. ASSUME NEW q \in Pkgs \ contended, q # p
      PROVE  PkgOK(q)'
  <2>1. PkgOK(q) /\ (q \in lost' <=> q \in lost)
    BY <1>4, <1>6 DEF StoreInv
  <2>2. \A k \in Jobs : job'[k].pkg = q \/ job[k].pkg = q => job'[k] = job[k]
    BY <1>2, <1>4, <1>6
  <2>3. QED
    BY <1>1, <1>4, <2>1, <2>2, OtherPkg
<1>7. ASSUME p \notin contended
      PROVE  PkgOK(p)'
  <2>1. PkgOK(p) /\ last[p] = j
    BY <1>2, <1>7 DEF StoreInv, PkgOK, Alone, Working
  <2>2. Alone(p)'
    BY <1>4, <2>1 DEF PkgOK, Alone, Working
  <2>3. AtRest(p)' /\ Listed(p)'
    BY <1>4, <2>1 DEF PkgOK, AtRest, Listed, Stored
  <2>4. Knows(p, job[j])' /\ Leaves(p, job[j])'
    BY <1>4 DEF Knows, Leaves
  <2>5. \A k \in Jobs : last'[p] = k => k = j
    BY <1>4, <2>1
  <2>6. QED
    BY <2>2, <2>3, <2>4, <2>5 DEF PkgOK
<1>8. \A q \in Pkgs \ contended : PkgOK(q)'
  BY <1>6, <1>7
<1>9. QED
  BY <1>1, <1>4, <1>5, <1>8 DEF StoreInv

LEMMA NextInv == StoreInv /\ [Next]_vars => StoreInv'
<1> SUFFICES ASSUME StoreInv, [Next]_vars
             PROVE  StoreInv'
  OBVIOUS
<1>1. CASE Next
  BY <1>1, AcceptInv, StepInv, StopInv DEF Next, Distribute, DeleteCsar, Kill, ParseAborts, At,
     Idle
<1>2. CASE UNCHANGED vars
  <2>1. TypeInv'
    BY <1>2, NextType DEF StoreInv
  <2>2. StoppedIsLost' /\ contended' = contended
    BY <1>2 DEF vars, StoreInv, StoppedIsLost
  <2>3. ASSUME NEW q \in Pkgs \ contended
        PROVE  PkgOK(q)'
    BY <1>2, <2>1, OtherPkg DEF vars, StoreInv
  <2>4. QED
    BY <2>1, <2>2, <2>3 DEF StoreInv
<1>3. QED
  BY <1>1, <1>2

LEMMA StoreInvariant == Spec => []StoreInv
<1>1. Init => StoreInv
  BY InitInv
<1>2. StoreInv /\ [Next]_vars => StoreInv'
  BY NextInv
<1>3. QED
  BY <1>1, <1>2, PTL DEF Spec

\* Whatever the threads of the other packages do, a package that is listed has the
\* archive its row was read from, at every moment of a distribution, a rollback or
\* a deletion.
THEOREM AlwaysServable == Spec => []ListedIsServable
<1>1. StoreInv => ListedIsServable
  BY DEF StoreInv, PkgOK, Listed, ListedIsServable
<1>2. QED
  BY <1>1, StoreInvariant, PTL

\* What the final report on a job says is so until the next request for its package.
THEOREM TrueReports == Spec => []ReportIsTrue
<1>1. ASSUME StoreInv, NEW p \in Pkgs \ (contended \cup lost), NEW j \in Jobs, last[p] = j,
             job[j].pkg = p
      PROVE  /\ Distributed(j) => Intact(p)
             /\ Deleted(j) => Absent(p)
             /\ job[j].pc = "ended" => Intact(p) \/ Absent(p)
  <2>1. Knows(p, job[j]) /\ Leaves(p, job[j]) /\ Listed(p) /\ job[j].pc # "stopped"
    BY <1>1 DEF StoreInv, PkgOK, StoppedIsLost
  <2>2. job[j].pc \in Label /\ LogOK(job[j].pc, job[j].log)
    BY <1>1 DEF StoreInv, TypeInv, TypeOK, JobOK, Job
  <2>3. CASE Distributed(j)
    <3>1. job[j].pc \in {"dist_notify", "ended"}
      BY <2>1, <2>2, <2>3, LogsDiffer DEF Distributed, LogOK, Label, Idle
    <3>2. Stored(p)
      BY <1>1, <2>1, <2>3, <3>1 DEF Distributed, Knows, Leaves, Idle
    <3>3. Intact(p) /\ ~Deleted(j)
      BY <2>1, <2>3, <3>2, EndsDiffer DEF Listed, Intact, Distributed, Deleted
    <3>4. QED
      BY <3>3
  <2>4. CASE Deleted(j)
    <3>1. job[j].pc = "ended"
      BY <2>1, <2>2, <2>4, LogsDiffer DEF Deleted, LogOK, Label, Idle
    <3>2. QED
      BY <1>1, <2>1, <2>4, <3>1, EndsDiffer DEF Deleted, Distributed, Leaves, Idle, Intact, Absent
  <2>5. job[j].pc = "ended" => Intact(p) \/ Absent(p)
    BY <1>1, <2>1 DEF Leaves, Idle
  <2>6. QED
    BY <2>3, <2>4, <2>5
<1>2. StoreInv => ReportIsTrue
  BY <1>1 DEF ReportIsTrue
<1>3. QED
  BY <1>2, StoreInvariant, PTL

=============================================================================
