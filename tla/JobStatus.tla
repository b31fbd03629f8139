------------------------------- MODULE JobStatus -------------------------------
(***************************************************************************)
(* One job: its row of CATALOG_JOB and its rows of CATALOG_JOB_STATUS.      *)
(*                                                                         *)
(* JobUtil.add_job_status makes four queries, in no transaction: it reads  *)
(* the job, reads its statuses for the next index, saves a status and      *)
(* saves the job row it read, whole.  Its callers are the thread the job   *)
(* is of and every client that POSTs to /jobs/{job_id}; nothing keeps them *)
(* apart.  (VnfDistribution has what a thread reports, and when.)          *)
(*                                                                         *)
(* Left out: descriptions, times, and the word that stands for a progress. *)
(***************************************************************************)
EXTENDS Naturals, Sequences

CONSTANTS Thread,      \* the thread of the job
          Clients,     \* the clients that POST
          Progress,    \* the progress the thread reports and the clients send
          Unreadable,  \* a progress sent that int() does not take
          None,
          MaxStatuses  \* bound: the statuses after which nothing more is POSTed

ASSUME JobAssumption ==
  /\ Thread \notin Clients
  /\ Progress \subseteq Nat
  /\ Unreadable \notin Nat
  /\ MaxStatuses \in Nat

VARIABLES job,       \* the job, None before it is created
          statuses,  \* its statuses, in the order they are saved
          call,      \* the call of add_job_status each caller is in
          said,      \* the progress the thread reported last
          stale      \* history: the callers whose copy of the job another call outdated

vars == <<job, statuses, call, said, stale>>

-----------------------------------------------------------------------------

JOB_ERROR == 255

PROCESSING == 0
FINISH == 1

\* "1" stands for those of JOB_ERROR_CODE, "" for the default argument.
ErrCode == {"0", "1", "255"}

Callers == Clients \cup {Thread}

JobRow == [status : {PROCESSING, FINISH}, progress : Nat]

ASSUME NoneAssumption == None \notin JobRow \cup [progress : Nat, finished : BOOLEAN]

\* A status, with its caller and the number of statuses there were when the
\* caller read them (history).
StatusRow == [index : Nat, progress : Progress, errcode : ErrCode,
              by : Callers, seen : Nat]

Call == [pc : {"idle", "find", "index", "save", "update"},
         progress : Progress \cup {Unreadable}, errcode : ErrCode \cup {""},
         row : JobRow \cup {None}, next : Nat, seen : Nat]

Indexes == {statuses[k].index : k \in 1..Len(statuses)}

Largest == CHOOSE i \in Indexes : \A k \in Indexes : k <= i

\* Faulty: the number of statuses, the status saved last.
CountIndex == Len(statuses) + 1
LastIndex == IF statuses = <<>> THEN 1 ELSE statuses[Len(statuses)].index + 1

\* The loop of add_job_status: one more than the largest index.
NextIndex == IF statuses = <<>> THEN 1 ELSE Largest + 1

\* query_job_status without an index: a status with the largest index there is.
Latest == {k \in 1..Len(statuses) : \A i \in Indexes : i <= statuses[k].index}

At(w, l) == call[w].pc = l

Goto(w, l) == call' = [call EXCEPT ![w].pc = l]

\* A caller that is done, or whose exception is caught, keeps nothing.
Started(n, e, l) ==
  [pc |-> l, progress |-> n, errcode |-> e, row |-> None, next |-> 0, seen |-> 0]

NoCall == Started(Unreadable, "", "idle")

Return(w) ==
  /\ call' = [call EXCEPT ![w] = NoCall]
  /\ stale' = stale \ {w}

\* The caller keeps the row it read, and saves it whole at the end.
HasRow(w) == call[w].pc \in {"index", "save", "update"}

Init ==
  /\ job = None
  /\ statuses = <<>>
  /\ call = [w \in Callers |-> NoCall]
  /\ said = 0
  /\ stale = {}

-----------------------------------------------------------------------------
(* The callers *)

CreateJob ==
  /\ job = None /\ said = 0
  /\ job' = [status |-> PROCESSING, progress |-> 0]
  /\ UNCHANGED <<statuses, call, said, stale>>

\* Faulty: a report is tried again.
RepeatReport(n, e) ==
  /\ job # None
  /\ At(Thread, "idle")
  /\ n >= said
  /\ e = "1" => n = JOB_ERROR
  /\ call' = [call EXCEPT ![Thread] = Started(n, e, "find")]
  /\ said' = n
  /\ UNCHANGED <<job, statuses, stale>>

\* The thread goes on to its next report; a failure (255) ends it, also after 100, and
\* a distribution gives it a code.
Report(n, e) ==
  /\ job # None
  /\ At(Thread, "idle")
  /\ n > said
  /\ e = "1" => n = JOB_ERROR
  /\ call' = [call EXCEPT ![Thread] = Started(n, e, "find")]
  /\ said' = n
  /\ UNCHANGED <<job, statuses, stale>>

\* POST jobs/{job_id}: is refused, silently, once the latest status says 255.
Post(c, n, e) ==
  /\ At(c, "idle")
  /\ Len(statuses) < MaxStatuses
  /\ Indexes = {} \/ \E k \in Latest : statuses[k].errcode # "255"
  /\ call' = [call EXCEPT ![c] = Started(n, e, "find")]
  /\ UNCHANGED <<job, statuses, said, stale>>

-----------------------------------------------------------------------------
(* add_job_status *)

\* jobs = filter(jobid): the row read is kept to the end; no row is an exception.
FindJob(w) ==
  /\ At(w, "find")
  /\ IF job = None \/ call[w].progress = Unreadable THEN Return(w)
     ELSE /\ call' = [call EXCEPT ![w] = [@ EXCEPT !.pc = "index", !.row = job]]
          /\ UNCHANGED stale
  /\ UNCHANGED <<job, statuses, said>>

ReadIndex(w) ==
  /\ At(w, "index")
  /\ call' = [call EXCEPT ![w] = [@ EXCEPT !.pc = "save", !.next = NextIndex,
                                           !.seen = Len(statuses)]]
  /\ UNCHANGED <<job, statuses, said, stale>>

NewStatus(w) ==
  [index |-> call[w].next, progress |-> call[w].progress,
   errcode |-> IF call[w].errcode = "" THEN "0" ELSE call[w].errcode,
   by |-> w, seen |-> call[w].seen]

SaveStatus(w) ==
  /\ At(w, "save")
  /\ statuses' = Append(statuses, NewStatus(w))
  /\ Goto(w, "update")
  /\ UNCHANGED <<job, said, stale>>

\* Faulty: any progress finishes the job, or the job starts again.
FinishSoon(w) == [status |-> FINISH, progress |-> call[w].progress]
FinishAgain(w) ==
  [status |-> IF call[w].progress >= 100 THEN FINISH ELSE PROCESSING,
   progress |-> call[w].progress]

\* The status of the job is the one read in FindJob, unless this call finishes it.
UpdatedJob(w) ==
  [status |-> IF call[w].progress >= 100 THEN FINISH ELSE call[w].row.status,
   progress |-> call[w].progress]

SaveJob(w) ==
  /\ At(w, "update")
  /\ job' = UpdatedJob(w)
  /\ call' = [call EXCEPT ![w] = NoCall]
  /\ stale' = {u \in Callers \ {w} : u \in stale \/ HasRow(u)}
  /\ UNCHANGED <<statuses, said>>

\* The first query is outside the try: a request ends, the thread turns to reporting
\* its failure.
FindFails(w) ==
  /\ At(w, "find")
  /\ Return(w)
  /\ said' = IF w = Thread /\ said < 100 THEN 100 ELSE said
  /\ UNCHANGED <<job, statuses>>

\* Any other exception is logged and forgotten, and the caller goes on.
QueryFails(w) ==
  /\ HasRow(w)
  /\ Return(w)
  /\ UNCHANGED <<job, statuses, said>>

\* The process of the thread is killed; for a client's, a query that fails stands.
Kill ==
  /\ said < JOB_ERROR
  /\ Return(Thread)
  /\ said' = JOB_ERROR
  /\ UNCHANGED <<job, statuses>>

-----------------------------------------------------------------------------

Add(w) == FindJob(w) \/ ReadIndex(w) \/ SaveStatus(w) \/ SaveJob(w)

Next ==
  \/ CreateJob
  \/ \E n \in Progress, e \in {"", "1"} : Report(n, e)
  \/ \E c \in Clients, n \in Progress \cup {Unreadable}, e \in {"0", "255"} : Post(c, n, e)
  \/ \E w \in Callers : Add(w) \/ FindFails(w) \/ QueryFails(w)
  \/ Kill

Spec == Init /\ [][Next]_vars

-----------------------------------------------------------------------------

TypeOK ==
  /\ job \in JobRow \cup {None}
  /\ statuses \in Seq(StatusRow)
  /\ call \in [Callers -> Call]
  /\ said \in Nat
  /\ stale \subseteq Callers

\* Whatever the callers' order, the indexes have no gap: a client that has the index
\* n has been given n statuses or more (query_job_status, add_job_status).
NoGap == Indexes = 1..(NextIndex - 1)

\* A status has a larger index than every status that was there when its call read
\* the statuses: only calls that overlap are listed out of order or under one index.
LaterIsLarger ==
  \A k \in 1..Len(statuses) : \A i \in 1..statuses[k].seen :
    i < k /\ statuses[i].index < statuses[k].index

\* The job never runs ahead of its statuses: its progress is that of a status, and
\* it is finished after a status of 100 or more only.
JobIsReported ==
  job # None =>
    /\ job.progress = 0 \/ \E k \in 1..Len(statuses) : statuses[k].progress = job.progress
    /\ job.status = FINISH => \E k \in 1..Len(statuses) : statuses[k].progress >= 100

\* A finished job is set back to PROCESSING only by a call that read the job before
\* another call saved it: never by one that had the job to itself (add_job_status
\* saves the row it read first).
FinishLostIsARace ==
  [][(job # None /\ job.status = FINISH /\ job'.status # FINISH)
       => \E w \in stale : At(w, "update") /\ ~At(w, "update")']_vars

\* The statuses without their history, and those that the job is not updated with yet.
ReportOf(s) == [index |-> s.index, progress |-> s.progress, errcode |-> s.errcode, by |-> s.by]

ReportsMade == [k \in DOMAIN statuses |-> ReportOf(statuses[k])]

LastOf(k) == \A i \in DOMAIN statuses : statuses[i].by = statuses[k].by => i <= k

ReportsPending == {k \in DOMAIN statuses : LastOf(k) /\ At(statuses[k].by, "update")}

JobShown ==
  IF job = None THEN None
  ELSE [progress |-> job.progress, finished |-> job.status = FINISH]

\* Whatever calls overlap or fail, the queries of add_job_status implement the reports
\* of JobReports: each is put down once, under an index that leaves no gap, and then
\* shown once at most.
Promise ==
  INSTANCE JobReports WITH Codes <- ErrCode, NoJob <- None, reports <- ReportsMade,
                           pending <- ReportsPending, shown <- JobShown

ImplementsReports == Promise!Spec

=============================================================================
