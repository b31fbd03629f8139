------------------------------- MODULE JobReports -------------------------------
(***************************************************************************)
(* What JobUtil promises of one job when its callers overlap and its       *)
(* queries fail: a report is put down in one step, under an index that     *)
(* leaves no gap, and is shown in one later step, or never.  The thread of *)
(* the job only reports progress.  Two reports may have one index, and a   *)
(* report may set a finished job back, so neither is excluded here.        *)
(***************************************************************************)
EXTENDS Naturals, Sequences

CONSTANTS Thread,    \* the thread of the job
          Clients,   \* the clients that POST
          Progress,  \* the progress that they report
          Codes,     \* error codes of reports
          NoJob      \* the job before it is created

VARIABLES reports,  \* the reports on the job, in the order they are put down
          pending,  \* the reports, by position, that may still be shown
          shown     \* what is shown of the job: its progress and whether it is finished

vars == <<reports, pending, shown>>

Init ==
  /\ reports = <<>>
  /\ pending = {}
  /\ shown = NoJob

Create ==
  /\ shown = NoJob
  /\ shown' = [progress |-> 0, finished |-> FALSE]
  /\ UNCHANGED <<reports, pending>>

\* More than the thread reported before.
Grows(n) == \A k \in DOMAIN reports : reports[k].by = Thread => reports[k].progress < n

\* The indexes of the reports stay 1 to the largest one.
Indexes == {1} \cup {reports[k].index + 1 : k \in DOMAIN reports}

\* A caller has one report at a time under way.
Add(w) ==
  /\ shown # NoJob
  /\ \A k \in pending : reports[k].by # w
  /\ pending' = pending \cup {Len(reports) + 1}
  /\ \E n \in Progress, e \in Codes, i \in Indexes :
       /\ w = Thread => Grows(n)
       /\ reports' = Append(reports, [index |-> i, progress |-> n, errcode |-> e, by |-> w])
  /\ UNCHANGED shown

\* A report of 100 or more finishes the job, and no job is finished without one.
Show(k) ==
  /\ k \in pending
  /\ \E done \in BOOLEAN :
       /\ reports[k].progress >= 100 => done
       /\ done => \E i \in DOMAIN reports : reports[i].progress >= 100
       /\ shown' = [progress |-> reports[k].progress, finished |-> done]
  /\ pending' = pending \ {k}
  /\ UNCHANGED reports

\* A query failed, or the process was killed.
Drop(k) ==
  /\ k \in pending
  /\ pending' = pending \ {k}
  /\ UNCHANGED <<reports, shown>>

Next ==
  \/ Create
  \/ \E w \in Clients \cup {Thread} : Add(w)
  \/ \E k \in pending : Show(k) \/ Drop(k)

Spec == Init /\ [][Next]_vars

=============================================================================
