---------------------------- MODULE JobStatusProofs ----------------------------
(***************************************************************************)
(* Theorems of JobStatus, for any clients, any order of their queries and  *)
(* any failure.  The types of a call that is under way depend on how far   *)
(* it is, and what it read may be old: CallInv says what is still true of  *)
(* it when it is used.                                                     *)
(***************************************************************************)
EXTENDS JobStatus, SequenceTheorems, TLAPS

\* A status of progress n was saved.
Saved(n) == \E k \in 1..Len(statuses) : statuses[k].progress = n

Finished == \E k \in 1..Len(statuses) : statuses[k].progress >= 100

\* The job a call read, which it will save again.
KnowsJob(w) ==
  call[w].pc \in {"index", "save", "update"} =>
    /\ call[w].row \in JobRow
    /\ call[w].progress \in Progress
    /\ call[w].row.status = FINISH => Finished

\* The index a call worked out: others may have taken it, none has left it behind.
KnowsIndex(w) ==
  At(w, "save") =>
    /\ call[w].next \in 1..NextIndex
    /\ call[w].seen \in 0..Len(statuses)
    /\ \A i \in 1..call[w].seen : statuses[i].index < call[w].next

\* A call that saves the job has saved its status.
HasSaved(w) == At(w, "update") => Saved(call[w].progress)

CallInv == \A w \in Callers : KnowsJob(w) /\ KnowsIndex(w) /\ HasSaved(w)

IndexInv == \E m \in Nat : Indexes = 1..m

JobInv == TypeOK /\ IndexInv /\ CallInv /\ LaterIsLarger /\ JobIsReported

-----------------------------------------------------------------------------
(* Indexes *)

\* The largest index is found where the indexes have no gap.
LEMMA NextIndexIs ==
  ASSUME TypeOK, NEW m \in Nat, Indexes = 1..m
  PROVE  NextIndex = m + 1
<1>1. statuses \in Seq(StatusRow)
  BY DEF TypeOK
<1>2. CASE statuses = <<>>
  <2>1. Indexes = {}
    BY <1>2 DEF Indexes
  <2>2. m = 0
    <3>1. 1 \notin 1..m
      BY <2>1
    <3> QED
      BY <3>1
  <2> QED
    BY <1>2, <2>2 DEF NextIndex
<1>3. CASE statuses # <<>>
  <2>1. 1 \in 1..Len(statuses)
    BY <1>1, <1>3
  <2>2. statuses[1].index \in Indexes
    BY <2>1 DEF Indexes
  <2>3. m \in 1..m
    BY <2>2
  <2>4. m \in Indexes /\ \A k \in Indexes : k <= m
    BY <2>3
  <2>5. Largest \in Indexes /\ \A k \in Indexes : k <= Largest
    BY <2>4 DEF Largest
  <2>6. Largest = m
    BY <2>4, <2>5
  <2> QED
    BY <1>3, <2>6 DEF NextIndex
<1> QED
  BY <1>2, <1>3

\* NextIndex is an index, as long as there is no gap.
LEMMA NextIndexNat ==
  ASSUME TypeOK, IndexInv
  PROVE  /\ NextIndex \in Nat \ {0}
         /\ Indexes = 1..(NextIndex - 1)
<1>1. PICK m \in Nat : Indexes = 1..m
  BY DEF IndexInv
<1>2. NextIndex = m + 1
  BY <1>1, NextIndexIs
<1> QED
  BY <1>1, <1>2

\* Every status that is there has an index below the next one.
LEMMA BelowNext ==
  ASSUME TypeOK, IndexInv, NEW i \in 1..Len(statuses)
  PROVE  statuses[i].index < NextIndex
<1>1. statuses[i].index \in Indexes
  BY DEF Indexes
<1> QED
  BY <1>1, NextIndexNat

-----------------------------------------------------------------------------
(* Initially *)

LEMMA StartedType ==
  ASSUME NEW n \in Progress \cup {Unreadable}, NEW e \in ErrCode \cup {""},
         NEW l \in {"idle", "find"}
  PROVE  Started(n, e, l) \in Call /\ Started(n, e, l).pc = l
  BY DEF Started, Call

LEMMA InitInv == Init => JobInv
<1> SUFFICES ASSUME Init
             PROVE  JobInv
  OBVIOUS
<1>1. TypeOK
  <2>1. NoCall \in Call
    BY StartedType DEF NoCall
  <2> QED
    BY <2>1 DEF Init, TypeOK
<1>2. Indexes = 1..0
  BY DEF Init, Indexes
<1>3. \A w \in Callers : At(w, "idle")
  BY DEF Init, At, NoCall, Started
<1>4. CallInv
  BY <1>3 DEF CallInv, At, KnowsJob, KnowsIndex, HasSaved
<1>5. LaterIsLarger /\ JobIsReported
  BY DEF Init, LaterIsLarger, JobIsReported
<1> QED
  BY <1>1, <1>2, <1>4, <1>5 DEF JobInv, IndexInv

-----------------------------------------------------------------------------
(* Steps that save nothing: each changes one call at most *)

\* Where the job and its statuses are left alone, it is enough that each call that
\* is changed knows what it must.
LEMMA ReadOnly ==
  ASSUME JobInv, UNCHANGED <<job, statuses>>, TypeOK', CallInv'
  PROVE  JobInv'
<1>1. IndexInv' /\ LaterIsLarger' /\ JobIsReported'
  BY DEF JobInv, IndexInv, Indexes, LaterIsLarger, JobIsReported
<1> QED
  BY <1>1 DEF JobInv

\* What the calls that are not touched know.
LEMMA CallChange ==
  ASSUME JobInv, UNCHANGED statuses, NEW w \in Callers, NEW c \in Call,
         call' = [call EXCEPT ![w] = c],
         (KnowsJob(w) /\ KnowsIndex(w) /\ HasSaved(w))'
  PROVE  call' \in [Callers -> Call] /\ CallInv'
<1>1. call' \in [Callers -> Call]
  BY DEF JobInv, TypeOK
<1>2. ASSUME NEW v \in Callers
      PROVE  (KnowsJob(v) /\ KnowsIndex(v) /\ HasSaved(v))'
  <2>1. CASE v = w
    BY <2>1
  <2>2. CASE v # w
    <3>1. call'[v] = call[v]
      BY <2>2 DEF JobInv, TypeOK
    <3>2. KnowsJob(v) /\ KnowsIndex(v) /\ HasSaved(v)
      BY DEF JobInv, CallInv
    <3>3. KnowsJob(v)'
      BY <3>1, <3>2 DEF KnowsJob, Finished
    <3>4. KnowsIndex(v)'
      BY <3>1, <3>2 DEF KnowsIndex, At, NextIndex, Largest, Indexes
    <3>5. HasSaved(v)'
      BY <3>1, <3>2 DEF HasSaved, At, Saved
    <3> QED
      BY <3>3, <3>4, <3>5
  <2> QED
    BY <2>1, <2>2
<1> QED
  BY <1>1, <1>2 DEF CallInv

\* A call that begins, and one that ends, knows nothing.
LEMMA FreshCall ==
  ASSUME JobInv, UNCHANGED statuses, NEW w \in Callers, NEW c \in Call,
         c.pc \in {"idle", "find"}, call' = [call EXCEPT ![w] = c]
  PROVE  call' \in [Callers -> Call] /\ CallInv'
<1>1. call'[w] = c
  BY DEF JobInv, TypeOK
<1>2. (KnowsJob(w) /\ KnowsIndex(w) /\ HasSaved(w))'
  BY <1>1 DEF KnowsJob, KnowsIndex, HasSaved, At
<1> QED
  BY <1>2, CallChange

-----------------------------------------------------------------------------
(* Saving a status *)

NextIndexFact == TypeOK => \A m \in Nat : Indexes = 1..m => NextIndex = m + 1

LEMMA NextIndexAlways == NextIndexFact
  BY NextIndexIs DEF NextIndexFact

\* NextIndexIs, for the state after a step.
LEMMA NextIndexAfter == NextIndexFact'
  BY NextIndexAlways, PTL

\* Others may have saved the index of the call, or the next one, since it was worked
\* out: saving it leaves no gap, and no index another call has worked out behind.
LEMMA SaveStatusInv ==
  ASSUME JobInv, NEW w \in Callers, SaveStatus(w)
  PROVE  JobInv'
<1> DEFINE r == NewStatus(w)
           n == Len(statuses)
<1>1. /\ TypeOK /\ call \in [Callers -> Call] /\ statuses \in Seq(StatusRow)
      /\ KnowsJob(w) /\ KnowsIndex(w) /\ At(w, "save") /\ n \in Nat
  BY DEF JobInv, TypeOK, CallInv, SaveStatus
<1>2. /\ NextIndex \in Nat \ {0}
      /\ Indexes = 1..(NextIndex - 1)
  BY NextIndexNat DEF JobInv
<1>3. r \in StatusRow
  <2>1. call[w].progress \in Progress
    BY <1>1 DEF KnowsJob, At
  <2>2. call[w].next \in Nat /\ call[w].seen \in Nat /\ call[w].errcode \in ErrCode \cup {""}
    BY <1>1 DEF Call
  <2> QED
    BY <2>1, <2>2 DEF NewStatus, StatusRow, ErrCode
<1>4. /\ statuses' = Append(statuses, r)
      /\ statuses' \in Seq(StatusRow)
      /\ Len(statuses') = n + 1
      /\ statuses'[n + 1] = r
      /\ \A k \in 1..n : statuses'[k] = statuses[k]
  BY <1>1, <1>3 DEF SaveStatus
<1>5. /\ r.index = call[w].next /\ r.progress = call[w].progress /\ r.seen = call[w].seen
      /\ r.by = w
  BY DEF NewStatus
<1>6. /\ call' = [call EXCEPT ![w].pc = "update"]
      /\ job' = job /\ said' = said /\ stale' = stale
  BY DEF SaveStatus, Goto
<1>7. TypeOK'
  <2>1. call' \in [Callers -> Call]
    BY <1>1, <1>6 DEF Call
  <2> QED
    BY <1>1, <1>4, <1>6, <2>1 DEF TypeOK
<1>8. Indexes' = Indexes \cup {r.index}
  <2>1. Indexes' = {statuses'[k].index : k \in 1..(n + 1)}
    BY <1>4 DEF Indexes
  <2>2. 1..(n + 1) = 1..n \cup {n + 1}
    BY <1>1
  <2> QED
    BY <1>4, <2>1, <2>2 DEF Indexes
<1>9. r.index \in 1..NextIndex
  BY <1>1, <1>5 DEF KnowsIndex
<1>10. PICK m \in Nat : Indexes' = 1..m /\ NextIndex <= m + 1
  <2>1. CASE r.index = NextIndex
    <3>1. Indexes' = 1..NextIndex
      BY <1>2, <1>8, <2>1
    <3> QED
      BY <1>2, <3>1
  <2>2. CASE r.index # NextIndex
    <3>1. Indexes' = 1..(NextIndex - 1)
      BY <1>2, <1>8, <1>9, <2>2
    <3> QED
      BY <1>2, <3>1
  <2> QED
    BY <2>1, <2>2
<1>11. NextIndex' \in Nat /\ NextIndex <= NextIndex'
  BY <1>2, <1>7, <1>10, NextIndexAfter DEF NextIndexFact
<1>12. /\ Finished => Finished'
       /\ \A p : Saved(p) => Saved(p)'
       /\ Saved(call[w].progress)'
  <2>1. \A k \in 1..n : k \in 1..(n + 1) /\ statuses'[k] = statuses[k]
    BY <1>1, <1>4
  <2>2. n + 1 \in 1..(n + 1)
    BY <1>1
  <2>3. Finished => \E k \in 1..(n + 1) : statuses'[k].progress >= 100
    BY <2>1 DEF Finished
  <2>4. \A p : Saved(p) => \E k \in 1..(n + 1) : statuses'[k].progress = p
    BY <2>1 DEF Saved
  <2>5. call'[w].progress = call[w].progress
    BY <1>1, <1>6 DEF Call
  <2>6. \E k \in 1..(n + 1) : statuses'[k].progress = call'[w].progress
    BY <1>4, <1>5, <2>2, <2>5
  <2> QED
    BY <1>4, <2>3, <2>4, <2>6 DEF Finished, Saved
<1>13. CallInv'
  <2>1. ASSUME NEW v \in Callers
        PROVE  (KnowsJob(v) /\ KnowsIndex(v) /\ HasSaved(v))'
    <3>1. KnowsJob(v) /\ KnowsIndex(v) /\ HasSaved(v)
      BY DEF JobInv, CallInv
    <3>2. CASE v = w
      <4>1. /\ call'[v].pc = "update" /\ call'[v].row = call[v].row
            /\ call'[v].progress = call[v].progress
        BY <1>1, <1>6, <3>2 DEF Call
      <4>2. KnowsJob(v)' /\ HasSaved(v)'
        BY <1>1, <1>12, <3>2, <4>1 DEF KnowsJob, HasSaved, At, Saved
      <4>3. KnowsIndex(v)'
        BY <4>1 DEF KnowsIndex, At
      <4> QED
        BY <4>2, <4>3
    <3>3. CASE v # w
      <4>1. call'[v] = call[v]
        BY <1>1, <1>6, <3>3
      <4>2. KnowsJob(v)'
        BY <1>12, <3>1, <4>1 DEF KnowsJob
      <4>3. HasSaved(v)'
        BY <1>12, <3>1, <4>1 DEF HasSaved, At, Saved
      <4>4. KnowsIndex(v)'
        <5>1. SUFFICES ASSUME call[v].pc = "save"
                       PROVE  /\ call[v].next \in 1..NextIndex'
                              /\ call[v].seen \in 0..(n + 1)
                              /\ \A i \in 1..call[v].seen : statuses'[i].index < call[v].next
          BY <1>4, <4>1 DEF KnowsIndex, At
        <5>2. /\ call[v].next \in 1..NextIndex
              /\ call[v].seen \in 0..n
              /\ \A i \in 1..call[v].seen : statuses[i].index < call[v].next
          BY <3>1, <5>1 DEF KnowsIndex, At
        <5>3. \A i \in 1..call[v].seen : statuses'[i] = statuses[i]
          BY <1>1, <1>4, <5>2
        <5> QED
          BY <1>1, <1>2, <1>11, <5>2, <5>3
      <4> QED
        BY <4>2, <4>3, <4>4
    <3> QED
      BY <3>2, <3>3
  <2> QED
    BY <2>1 DEF CallInv
<1>14. LaterIsLarger'
  <2>1. ASSUME NEW k \in 1..Len(statuses'), NEW i \in 1..statuses'[k].seen
        PROVE  i < k /\ statuses'[i].index < statuses'[k].index
    <3>1. CASE k = n + 1
      <4>1. /\ call[w].seen \in 0..n
            /\ \A j \in 1..call[w].seen : statuses[j].index < call[w].next
        BY <1>1 DEF KnowsIndex
      <4>2. i \in 1..n /\ i \in 1..call[w].seen
        BY <1>1, <1>4, <1>5, <3>1, <4>1
      <4> QED
        BY <1>1, <1>4, <1>5, <3>1, <4>1, <4>2
    <3>2. CASE k # n + 1
      <4>1. k \in 1..n /\ statuses'[k] = statuses[k]
        BY <1>1, <1>4, <3>2
      <4>2. i < k /\ statuses[i].index < statuses[k].index
        BY <4>1 DEF JobInv, LaterIsLarger
      <4>3. statuses'[i] = statuses[i]
        BY <1>1, <1>4, <4>1, <4>2
      <4> QED
        BY <4>1, <4>2, <4>3
    <3> QED
      BY <3>1, <3>2
  <2> QED
    BY <2>1 DEF LaterIsLarger
<1>15. JobIsReported'
  BY <1>6, <1>12 DEF JobInv, JobIsReported, Finished, Saved
<1> QED
  BY <1>7, <1>10, <1>13, <1>14, <1>15 DEF JobInv, IndexInv

-----------------------------------------------------------------------------
(* The other steps *)

LEMMA SameCalls ==
  ASSUME CallInv, UNCHANGED <<statuses, call>>
  PROVE  CallInv'
<1>1. ASSUME NEW v \in Callers
      PROVE  (KnowsJob(v) /\ KnowsIndex(v) /\ HasSaved(v))'
  <2>1. KnowsJob(v) /\ KnowsIndex(v) /\ HasSaved(v)
    BY DEF CallInv
  <2>2. KnowsJob(v)'
    BY <2>1 DEF KnowsJob, Finished
  <2>3. KnowsIndex(v)'
    BY <2>1 DEF KnowsIndex, At, NextIndex, Largest, Indexes
  <2>4. HasSaved(v)'
    BY <2>1 DEF HasSaved, At, Saved
  <2> QED
    BY <2>2, <2>3, <2>4
<1> QED
  BY <1>1 DEF CallInv

LEMMA CreateInv ==
  ASSUME JobInv, CreateJob
  PROVE  JobInv'
<1>1. TypeOK'
  BY DEF JobInv, TypeOK, CreateJob, JobRow
<1>2. UNCHANGED <<statuses, call>>
  BY DEF CreateJob
<1>3. IndexInv' /\ LaterIsLarger'
  BY <1>2 DEF JobInv, IndexInv, Indexes, LaterIsLarger
<1>4. CallInv'
  BY <1>2, SameCalls DEF JobInv
<1>5. JobIsReported'
  BY DEF CreateJob, JobIsReported, PROCESSING, FINISH
<1> QED
  BY <1>1, <1>3, <1>4, <1>5 DEF JobInv

\* The thread reports, a client posts.
LEMMA BeginInv ==
  ASSUME JobInv, NEW w \in Callers, NEW n \in Progress \cup {Unreadable},
         NEW e \in ErrCode \cup {""},
         call' = [call EXCEPT ![w] = Started(n, e, "find")],
         UNCHANGED <<job, statuses, stale>>, said' \in Nat
  PROVE  JobInv'
<1>1. call' \in [Callers -> Call] /\ CallInv'
  BY FreshCall, StartedType
<1>2. TypeOK'
  BY <1>1 DEF JobInv, TypeOK
<1> QED
  BY <1>1, <1>2, ReadOnly

\* A call returns, for whatever reason.
LEMMA ReturnInv ==
  ASSUME JobInv, NEW w \in Callers, Return(w), UNCHANGED <<job, statuses>>, said' \in Nat
  PROVE  JobInv'
<1>1. NoCall \in Call /\ NoCall.pc = "idle"
  BY StartedType DEF NoCall
<1>2. call' \in [Callers -> Call] /\ CallInv'
  BY <1>1, FreshCall DEF Return
<1>3. TypeOK'
  BY <1>2 DEF JobInv, TypeOK, Return
<1> QED
  BY <1>2, <1>3, ReadOnly

LEMMA FindJobInv ==
  ASSUME JobInv, NEW w \in Callers, FindJob(w)
  PROVE  JobInv'
<1>1. UNCHANGED <<job, statuses, said>> /\ At(w, "find") /\ said \in Nat
  BY DEF FindJob, JobInv, TypeOK
<1>2. CASE job = None \/ call[w].progress = Unreadable
  BY <1>1, <1>2, ReturnInv DEF FindJob
<1>3. CASE ~(job = None \/ call[w].progress = Unreadable)
  <2> DEFINE c == [call[w] EXCEPT !.pc = "index", !.row = job]
  <2>1. call' = [call EXCEPT ![w] = c] /\ stale' = stale
    BY <1>3 DEF FindJob
  <2>2. job \in JobRow /\ call[w] \in Call /\ call[w].progress \in Progress
    BY <1>3 DEF JobInv, TypeOK, Call
  <2>3. c \in Call /\ c.pc = "index" /\ c.row = job /\ c.progress = call[w].progress
    BY <2>2 DEF Call
  <2>4. job.status = FINISH => Finished
    BY <1>3 DEF JobInv, JobIsReported, Finished
  <2>5. call'[w] = c
    BY <2>1 DEF JobInv, TypeOK
  <2>6. (KnowsJob(w) /\ KnowsIndex(w) /\ HasSaved(w))'
    BY <1>1, <2>2, <2>3, <2>4, <2>5 DEF KnowsJob, KnowsIndex, HasSaved, At, Finished
  <2>7. call' \in [Callers -> Call] /\ CallInv'
    BY <1>1, <2>1, <2>3, <2>6, CallChange
  <2>8. TypeOK'
    BY <1>1, <2>1, <2>7 DEF JobInv, TypeOK
  <2> QED
    BY <1>1, <2>7, <2>8, ReadOnly
<1> QED
  BY <1>2, <1>3

LEMMA ReadIndexInv ==
  ASSUME JobInv, NEW w \in Callers, ReadIndex(w)
  PROVE  JobInv'
<1> DEFINE c == [call[w] EXCEPT !.pc = "save", !.next = NextIndex, !.seen = Len(statuses)]
<1>1. /\ UNCHANGED <<job, statuses, said, stale>>
      /\ call' = [call EXCEPT ![w] = c] /\ call[w].pc = "index"
  BY DEF ReadIndex, At
<1>2. NextIndex \in Nat \ {0} /\ Len(statuses) \in Nat /\ call[w] \in Call
  BY NextIndexNat DEF JobInv, TypeOK
<1>3. /\ c \in Call /\ c.pc = "save" /\ c.row = call[w].row /\ c.progress = call[w].progress
      /\ c.next = NextIndex /\ c.seen = Len(statuses)
  BY <1>2 DEF Call
<1>4. call'[w] = c
  BY <1>1 DEF JobInv, TypeOK
<1>5. KnowsJob(w)
  BY DEF JobInv, CallInv
<1>6. KnowsJob(w)' /\ HasSaved(w)'
  BY <1>1, <1>3, <1>4, <1>5 DEF KnowsJob, HasSaved, At, Finished
<1>7. \A i \in 1..Len(statuses) : statuses[i].index < NextIndex
  BY BelowNext DEF JobInv
<1>8. KnowsIndex(w)'
  <2>1. NextIndex' = NextIndex
    BY <1>1 DEF NextIndex, Largest, Indexes
  <2> QED
    BY <1>1, <1>2, <1>3, <1>4, <1>7, <2>1 DEF KnowsIndex, At
<1>9. call' \in [Callers -> Call] /\ CallInv'
  BY <1>1, <1>3, <1>6, <1>8, CallChange
<1>10. TypeOK'
  BY <1>1, <1>9 DEF JobInv, TypeOK
<1> QED
  BY <1>1, <1>9, <1>10, ReadOnly

\* The row that is saved may be old, but not ahead of the statuses.
LEMMA SaveJobInv ==
  ASSUME JobInv, NEW w \in Callers, SaveJob(w)
  PROVE  JobInv'
<1>1. /\ job' = UpdatedJob(w) /\ UNCHANGED <<statuses, said>>
      /\ At(w, "update") /\ call' = [call EXCEPT ![w] = NoCall]
      /\ stale' \subseteq Callers
  BY DEF SaveJob
<1>2. /\ call[w].row \in JobRow /\ call[w].progress \in Nat
      /\ call[w].row.status = FINISH => Finished
      /\ Saved(call[w].progress)
  BY <1>1, JobAssumption DEF JobInv, CallInv, KnowsJob, HasSaved, At
<1>3. UpdatedJob(w) \in JobRow
  BY <1>2 DEF UpdatedJob, JobRow, FINISH
<1>4. call' \in [Callers -> Call] /\ CallInv'
  <2>1. NoCall \in Call /\ NoCall.pc = "idle"
    BY StartedType DEF NoCall
  <2> QED
    BY <1>1, <2>1, FreshCall
<1>5. TypeOK'
  BY <1>1, <1>3, <1>4 DEF JobInv, TypeOK
<1>6. IndexInv' /\ LaterIsLarger'
  BY <1>1 DEF JobInv, IndexInv, Indexes, LaterIsLarger
<1>7. JobIsReported'
  <2>1. /\ UpdatedJob(w).progress = call[w].progress
        /\ UpdatedJob(w).status = FINISH => Finished
    BY <1>2 DEF UpdatedJob, Saved, Finished
  <2> QED
    BY <1>1, <1>2, <2>1 DEF JobIsReported, Saved, Finished
<1> QED
  BY <1>4, <1>5, <1>6, <1>7 DEF JobInv

LEMMA NextInv == JobInv /\ [Next]_vars => JobInv'
<1> SUFFICES ASSUME JobInv, [Next]_vars
             PROVE  JobInv'
  OBVIOUS
<1>0. said \in Nat /\ Thread \in Callers /\ Clients \subseteq Callers
  BY DEF JobInv, TypeOK, Callers
<1>1. CASE CreateJob
  BY <1>1, CreateInv
<1>2. ASSUME NEW n \in Progress, NEW e \in {"", "1"}, Report(n, e)
      PROVE  JobInv'
  <2>1. n \in Nat /\ e \in ErrCode \cup {""}
    BY JobAssumption DEF ErrCode
  <2> QED
    BY <1>0, <1>2, <2>1, BeginInv DEF Report
<1>3. ASSUME NEW c \in Clients, NEW n \in Progress \cup {Unreadable}, NEW e \in {"0", "255"},
             Post(c, n, e)
      PROVE  JobInv'
  <2>1. e \in ErrCode \cup {""}
    BY DEF ErrCode
  <2> QED
    BY <1>0, <1>3, <2>1, BeginInv DEF Post
<1>4. ASSUME NEW w \in Callers, Add(w)
      PROVE  JobInv'
  BY <1>4, FindJobInv, ReadIndexInv, SaveStatusInv, SaveJobInv DEF Add
<1>5. ASSUME NEW w \in Callers, FindFails(w) \/ QueryFails(w)
      PROVE  JobInv'
  <2>1. Return(w) /\ UNCHANGED <<job, statuses>> /\ said' \in Nat
    BY <1>0, <1>5 DEF FindFails, QueryFails
  <2> QED
    BY <2>1, ReturnInv
<1>6. CASE Kill
  BY <1>0, <1>6, ReturnInv DEF Kill, JOB_ERROR
<1>7. CASE UNCHANGED vars
  <2>1. UNCHANGED <<job, statuses, call, said, stale>>
    BY <1>7 DEF vars
  <2>2. TypeOK'
    BY <2>1 DEF JobInv, TypeOK
  <2>3. CallInv'
    BY <2>1, SameCalls DEF JobInv
  <2> QED
    BY <2>1, <2>2, <2>3, ReadOnly
<1> QED
  BY <1>1, <1>2, <1>3, <1>4, <1>5, <1>6, <1>7 DEF Next

LEMMA JobInvariant == Spec => []JobInv
<1>1. Init => JobInv
  BY InitInv
<1>2. JobInv /\ [Next]_vars => JobInv'
  BY NextInv
<1> QED
  BY <1>1, <1>2, PTL DEF Spec

-----------------------------------------------------------------------------

\* The rows of the two tables, and the calls of add_job_status, are well formed.
THEOREM JobTypes == Spec => []TypeOK
<1>1. JobInv => TypeOK
  BY DEF JobInv
<1> QED
  BY <1>1, JobInvariant, PTL

\* However the calls of add_job_status interleave and fail, the indexes of a job are
\* 1 to n.
THEOREM IndexesHaveNoGap == Spec => []NoGap
<1>1. JobInv => NoGap
  BY NextIndexNat DEF JobInv, NoGap
<1> QED
  BY <1>1, JobInvariant, PTL

\* A status saved after a call of add_job_status read the statuses is the only kind
\* that its own index may not exceed.
THEOREM OrderOfIndexes == Spec => []LaterIsLarger
<1>1. JobInv => LaterIsLarger
  BY DEF JobInv
<1> QED
  BY <1>1, JobInvariant, PTL

\* However old the row that add_job_status saves, the job is not ahead of its
\* statuses: it is not finished before one of them says so.
THEOREM JobNotAhead == Spec => []JobIsReported
<1>1. JobInv => JobIsReported
  BY DEF JobInv
<1> QED
  BY <1>1, JobInvariant, PTL

-----------------------------------------------------------------------------
(* The row that a call has read *)

\* A call that may still save the job has read one, and the one that is there unless
\* another call saved it since.
RowInv ==
  \A w \in Callers : HasRow(w) => job # None /\ (w \notin stale => call[w].row = job)

\* One call is changed, and the job is not.
LEMMA RowFrame ==
  ASSUME RowInv, call \in [Callers -> Call], UNCHANGED job, NEW w \in Callers, NEW c,
         call' = [call EXCEPT ![w] = c],
         \A v \in Callers : v # w /\ v \in stale => v \in stale',
         c.pc \in {"index", "save", "update"} =>
           job # None /\ (w \notin stale' => c.row = job)
  PROVE  RowInv'
<1>1. ASSUME NEW v \in Callers, HasRow(v)'
      PROVE  job' # None /\ (v \notin stale' => call'[v].row = job')
  <2>1. CASE v = w
    <3>1. call'[v] = c
      BY <2>1
    <3> QED
      BY <1>1, <2>1, <3>1 DEF HasRow
  <2>2. CASE v # w
    <3>1. call'[v] = call[v]
      BY <2>2
    <3> QED
      BY <1>1, <2>2, <3>1 DEF HasRow, RowInv
  <2> QED
    BY <2>1, <2>2
<1> QED
  BY <1>1 DEF RowInv

LEMMA RowReturns ==
  ASSUME JobInv, RowInv, UNCHANGED job, NEW w \in Callers, Return(w)
  PROVE  RowInv'
<1>1. /\ call' = [call EXCEPT ![w] = NoCall] /\ NoCall.pc = "idle"
      /\ \A v \in Callers : v # w /\ v \in stale => v \in stale'
      /\ call \in [Callers -> Call]
  BY DEF Return, NoCall, Started, JobInv, TypeOK
<1> QED
  BY <1>1, RowFrame

LEMMA RowSaved ==
  ASSUME JobInv, RowInv, NEW w \in Callers, SaveJob(w)
  PROVE  RowInv'
<1>1. /\ call \in [Callers -> Call] /\ call' = [call EXCEPT ![w] = NoCall]
      /\ NoCall.pc = "idle" /\ job' = UpdatedJob(w)
      /\ stale' = {u \in Callers \ {w} : u \in stale \/ HasRow(u)}
  BY DEF JobInv, TypeOK, SaveJob, NoCall, Started
<1>2. job' # None
  <2>1. job' \in JobRow \cup {None} /\ job'.progress = call[w].progress
    BY <1>1, SaveJobInv DEF JobInv, TypeOK, UpdatedJob
  <2>2. UpdatedJob(w) \in JobRow
    BY JobAssumption
    DEF UpdatedJob, JobRow, FINISH, PROCESSING, JobInv, CallInv, KnowsJob, SaveJob, At
  <2> QED
    BY <1>1, <2>2, NoneAssumption
<1>3. ASSUME NEW v \in Callers, HasRow(v)'
      PROVE  v \in stale'
  <2>1. v # w
    BY <1>1, <1>3 DEF HasRow
  <2>2. HasRow(v)
    BY <1>1, <1>3, <2>1 DEF HasRow
  <2> QED
    BY <1>1, <2>1, <2>2
<1> QED
  BY <1>2, <1>3 DEF RowInv

LEMMA NextRow ==
  ASSUME JobInv, RowInv, [Next]_vars
  PROVE  RowInv'
<1>0. call \in [Callers -> Call] /\ Thread \in Callers /\ Clients \subseteq Callers
  BY DEF JobInv, TypeOK, Callers
<1>1. CASE CreateJob
  <2>1. job = None /\ UNCHANGED call
    BY <1>1 DEF CreateJob
  <2>2. \A v \in Callers : ~HasRow(v)'
    BY <2>1 DEF RowInv, HasRow
  <2> QED
    BY <2>2 DEF RowInv
<1>2. ASSUME NEW w \in Callers, NEW n, NEW e, UNCHANGED <<job, stale>>,
             call' = [call EXCEPT ![w] = Started(n, e, "find")]
      PROVE  RowInv'
  <2> DEFINE c == Started(n, e, "find")
  <2>1. c.pc = "find" /\ call' = [call EXCEPT ![w] = c]
    BY <1>2 DEF Started
  <2> HIDE DEF c
  <2> QED
    BY <1>0, <1>2, <2>1, RowFrame
<1>3. ASSUME NEW n \in Progress, NEW e \in {"", "1"}, Report(n, e)
      PROVE  RowInv'
  BY <1>0, <1>2, <1>3 DEF Report
<1>4. ASSUME NEW w \in Clients, NEW n \in Progress \cup {Unreadable}, NEW e \in {"0", "255"},
             Post(w, n, e)
      PROVE  RowInv'
  BY <1>0, <1>2, <1>4 DEF Post
<1>5. ASSUME NEW w \in Callers, FindJob(w)
      PROVE  RowInv'
  <2>1. CASE Return(w)
    BY <1>5, <2>1, RowReturns DEF FindJob
  <2>2. CASE ~Return(w)
    <3> DEFINE c == [call[w] EXCEPT !.pc = "index", !.row = job]
    <3>1. /\ job # None /\ UNCHANGED <<job, stale>>
          /\ call' = [call EXCEPT ![w] = c]
      BY <1>5, <2>2 DEF FindJob
    <3>2. c.row = job
      BY <1>0 DEF Call
    <3> HIDE DEF c
    <3> QED
      BY <1>0, <3>1, <3>2, RowFrame
  <2> QED
    BY <2>1, <2>2
<1>6. ASSUME NEW w \in Callers, ReadIndex(w)
      PROVE  RowInv'
  <2> DEFINE c == [call[w] EXCEPT !.pc = "save", !.next = NextIndex, !.seen = Len(statuses)]
  <2>1. /\ UNCHANGED <<job, stale>> /\ call' = [call EXCEPT ![w] = c] /\ call[w].pc = "index"
    BY <1>6 DEF ReadIndex, At
  <2>2. c.row = call[w].row
    BY <1>0 DEF Call
  <2>3. job # None /\ (w \notin stale => c.row = job)
    BY <2>1, <2>2 DEF RowInv, HasRow
  <2> HIDE DEF c
  <2> QED
    BY <1>0, <2>1, <2>3, RowFrame
<1>7. ASSUME NEW w \in Callers, SaveStatus(w)
      PROVE  RowInv'
  <2> DEFINE c == [call[w] EXCEPT !.pc = "update"]
  <2>1. /\ UNCHANGED <<job, stale>> /\ call' = [call EXCEPT ![w] = c] /\ call[w].pc = "save"
    BY <1>0, <1>7 DEF SaveStatus, Goto, At
  <2>2. c.row = call[w].row
    BY <1>0 DEF Call
  <2>3. job # None /\ (w \notin stale => c.row = job)
    BY <2>1, <2>2 DEF RowInv, HasRow
  <2> HIDE DEF c
  <2> QED
    BY <1>0, <2>1, <2>3, RowFrame
<1>8. ASSUME NEW w \in Callers, FindFails(w) \/ QueryFails(w)
      PROVE  RowInv'
  BY <1>8, RowReturns DEF FindFails, QueryFails
<1>9. CASE Kill
  BY <1>0, <1>9, RowReturns DEF Kill
<1>10. CASE UNCHANGED vars
  BY <1>10 DEF vars, RowInv, HasRow
<1> QED
  BY <1>1, <1>3, <1>4, <1>5, <1>6, <1>7, <1>8, <1>9, <1>10, RowSaved DEF Next, Add

LEMMA RowInvariant == Spec => [](JobInv /\ RowInv)
<1>1. Init => RowInv
  <2> SUFFICES ASSUME Init
               PROVE  RowInv
    OBVIOUS
  <2>1. \A w \in Callers : call[w].pc = "idle"
    BY DEF Init, NoCall, Started
  <2> QED
    BY <2>1 DEF RowInv, HasRow
<1>2. JobInv /\ RowInv /\ [Next]_vars => RowInv'
  BY NextRow
<1> QED
  BY <1>1, <1>2, JobInvariant, PTL DEF Spec

\* A finished job is only ever set back by a call of add_job_status that overlapped
\* with another one: a call that has the job to itself leaves it finished.
THEOREM SetBackByRacesOnly == Spec => FinishLostIsARace
<1> DEFINE SetBack == job # None /\ job.status = FINISH /\ job'.status # FINISH
<1>1. ASSUME JobInv, RowInv, [Next]_vars, SetBack
      PROVE  \E w \in stale : At(w, "update") /\ ~At(w, "update")'
  <2>1. PICK w \in Callers : SaveJob(w)
    BY <1>1 DEF Next, Add, CreateJob, Report, Post, FindJob, ReadIndex, SaveStatus,
                FindFails, QueryFails, Kill, vars
  <2>2. At(w, "update") /\ job' = UpdatedJob(w) /\ call' = [call EXCEPT ![w] = NoCall]
    BY <2>1 DEF SaveJob
  <2>3. call[w].row.status # FINISH
    BY <1>1, <2>2 DEF UpdatedJob
  <2>4. w \in stale
    BY <1>1, <2>2, <2>3 DEF RowInv, HasRow, At
  <2>5. ~At(w, "update")'
    BY <1>1, <2>2 DEF At, NoCall, Started, JobInv, TypeOK
  <2> QED
    BY <2>2, <2>4, <2>5
<1>2. JobInv /\ RowInv /\ [Next]_vars =>
        [SetBack => \E w \in stale : At(w, "update") /\ ~At(w, "update")']_vars
  BY <1>1
<1> QED
  BY <1>2, RowInvariant, PTL DEF Spec, FinishLostIsARace

-----------------------------------------------------------------------------
(***************************************************************************)
(* The refinement of JobReports.  A step that saves a status puts its      *)
(* report down, one that saves the job shows it, and a call that fails in  *)
(* between drops it.  All other steps but the creation are stutters.       *)
(***************************************************************************)

\* The thread's reports grow, however they interleave and fail.
ThreadInv ==
  /\ \A k \in 1..Len(statuses) : statuses[k].by = Thread => statuses[k].progress <= said
  /\ call[Thread].pc \in {"find", "index", "save"} =>
       /\ call[Thread].progress = said
       /\ \A k \in 1..Len(statuses) : statuses[k].by = Thread => statuses[k].progress < said

LEMMA StatusProgress ==
  ASSUME JobInv
  PROVE  /\ \A k \in 1..Len(statuses) : statuses[k].progress \in Nat
         /\ said \in Nat
<1>1. statuses \in Seq(StatusRow) /\ said \in Nat
  BY DEF JobInv, TypeOK
<1>2. \A k \in 1..Len(statuses) : statuses[k] \in StatusRow
  BY <1>1
<1> QED
  BY <1>1, <1>2, JobAssumption DEF StatusRow

\* A lemma because strings that are empty keep the arithmetic from the provers.
LEMMA LessIsLeq == \A i, k \in Nat : i < k => i <= k
  OBVIOUS

\* A step of a client's call that saves no status.
LEMMA ClientFrame ==
  ASSUME JobInv, ThreadInv, UNCHANGED <<statuses, said>>,
         NEW w \in Callers, w # Thread, NEW c, call' = [call EXCEPT ![w] = c]
  PROVE  ThreadInv'
<1>1. call'[Thread] = call[Thread]
  BY DEF JobInv, TypeOK, Callers
<1> QED
  BY <1>1 DEF ThreadInv

\* A step of the thread that saves no status.
LEMMA ThreadFrame ==
  ASSUME JobInv, ThreadInv, UNCHANGED statuses, said' \in Nat, said <= said',
         NEW c, call' = [call EXCEPT ![Thread] = c],
         c.pc \in {"find", "index", "save"} =>
           /\ c.progress = said'
           /\ said < said' \/ call[Thread].pc \in {"find", "index", "save"}
  PROVE  ThreadInv'
<1>1. call'[Thread] = c
  BY DEF JobInv, TypeOK, Callers
<1>2. \A k \in 1..Len(statuses) : statuses[k].by = Thread => statuses[k].progress <= said'
  BY StatusProgress DEF ThreadInv
<1>3. ASSUME c.pc \in {"find", "index", "save"}
      PROVE  \A k \in 1..Len(statuses) : statuses[k].by = Thread =>
               statuses[k].progress < said'
  BY <1>3, StatusProgress DEF ThreadInv
<1> QED
  BY <1>1, <1>2, <1>3 DEF ThreadInv

\* Whoever returns is not about to save a status.
LEMMA ReturnFrame ==
  ASSUME JobInv, ThreadInv, UNCHANGED statuses, said' \in Nat, said <= said',
         NEW w \in Callers, w # Thread => said' = said, call' = [call EXCEPT ![w] = NoCall]
  PROVE  ThreadInv'
<1>1. NoCall.pc = "idle"
  BY DEF NoCall, Started
<1>2. CASE w = Thread
  BY <1>1, <1>2, ThreadFrame
<1>3. CASE w # Thread
  BY <1>1, <1>3, ClientFrame
<1> QED
  BY <1>2, <1>3

LEMMA ThreadSaves ==
  ASSUME JobInv, ThreadInv, NEW w \in Callers, SaveStatus(w)
  PROVE  ThreadInv'
<1> DEFINE n == Len(statuses)
<1>1. /\ statuses \in Seq(StatusRow) /\ n \in Nat /\ call \in [Callers -> Call]
      /\ call[w].pc = "save" /\ said' = said /\ Thread \in Callers
  BY DEF JobInv, TypeOK, SaveStatus, At, Callers
<1>2. /\ Len(statuses') = n + 1
      /\ statuses'[n + 1] = NewStatus(w)
      /\ \A k \in 1..n : statuses'[k] = statuses[k]
  BY <1>1 DEF SaveStatus
<1>3. /\ call'[w].pc = "update"
      /\ w # Thread => call'[Thread] = call[Thread]
  BY <1>1 DEF SaveStatus, Goto, Call
<1>4. NewStatus(w).by = w /\ NewStatus(w).progress = call[w].progress
  BY DEF NewStatus
<1>5. w = Thread => NewStatus(w).progress = said
  BY <1>1, <1>4 DEF ThreadInv
<1>6. 1..Len(statuses') = 1..n \cup {n + 1}
  BY <1>1, <1>2
<1>7. \A k \in 1..Len(statuses') : statuses'[k].by = Thread => statuses'[k].progress <= said'
  <2>1. \A k \in 1..n : statuses'[k].by = Thread => statuses'[k].progress <= said'
    BY <1>1, <1>2 DEF ThreadInv
  <2>2. statuses'[n + 1].by = Thread => statuses'[n + 1].progress <= said'
    <3>1. said \in Nat
      BY StatusProgress
    <3> QED
      BY <1>1, <1>2, <1>4, <1>5, <3>1
  <2> QED
    BY <1>6, <2>1, <2>2
<1>8. ASSUME call'[Thread].pc \in {"find", "index", "save"}
      PROVE  /\ call'[Thread].progress = said'
             /\ \A k \in 1..Len(statuses') : statuses'[k].by = Thread =>
                  statuses'[k].progress < said'
  <2>1. w # Thread /\ call'[Thread] = call[Thread]
    BY <1>3, <1>8
  <2> QED
    BY <1>1, <1>2, <1>4, <1>6, <1>8, <2>1 DEF ThreadInv
<1> QED
  BY <1>7, <1>8 DEF ThreadInv

LEMMA NextThread ==
  ASSUME JobInv, ThreadInv, [Next]_vars
  PROVE  ThreadInv'
<1>1. said \in Nat
  BY StatusProgress
<1>2. ASSUME NEW n \in Progress, NEW e \in {"", "1"}, Report(n, e)
      PROVE  ThreadInv'
  <2>1. said' = n /\ n \in Nat /\ said < n
    BY <1>1, <1>2, JobAssumption DEF Report
  <2>2. call' = [call EXCEPT ![Thread] = Started(n, e, "find")]
    BY <1>2 DEF Report
  <2>3. Started(n, e, "find").progress = n
    BY DEF Started
  <2>4. said' \in Nat /\ said < said' /\ said <= said' /\ UNCHANGED statuses
    BY <1>1, <1>2, <2>1, LessIsLeq DEF Report
  <2> DEFINE c == Started(n, e, "find")
  <2>5. c.progress = said' /\ call' = [call EXCEPT ![Thread] = c]
    BY <2>1, <2>2, <2>3
  <2> HIDE DEF c
  <2> QED
    BY <2>4, <2>5, ThreadFrame
<1>3. ASSUME NEW c \in Clients, NEW n \in Progress \cup {Unreadable}, NEW e \in {"0", "255"},
             Post(c, n, e)
      PROVE  ThreadInv'
  <2>1. c # Thread /\ c \in Callers /\ UNCHANGED <<statuses, said>>
    BY <1>3, JobAssumption DEF Post, Callers
  <2>2. call' = [call EXCEPT ![c] = Started(n, e, "find")]
    BY <1>3 DEF Post
  <2> QED
    BY <2>1, <2>2, ClientFrame
<1>4. ASSUME NEW w \in Callers, FindJob(w) \/ ReadIndex(w)
      PROVE  ThreadInv'
  <2>1. /\ UNCHANGED <<statuses, said>> /\ call \in [Callers -> Call]
        /\ call[w].pc \in {"find", "index", "save"}
    BY <1>4 DEF FindJob, ReadIndex, At, JobInv, TypeOK
  <2>2. w = Thread => call[w].progress = said
    BY <2>1 DEF ThreadInv
  <2>3. CASE Return(w)
    <3>1. /\ call' = [call EXCEPT ![w] = NoCall] /\ UNCHANGED statuses
          /\ said' \in Nat /\ said' = said
      BY <1>1, <2>1, <2>3 DEF Return
    <3>2. said <= said'
      BY <1>1, <3>1
    <3> QED
      BY <3>1, <3>2, ReturnFrame
  <2>4. ASSUME ~Return(w)
        PROVE  \E c : call' = [call EXCEPT ![w] = c] /\ c.progress = call[w].progress
    <3>1. CASE FindJob(w)
      <4> DEFINE c == [call[w] EXCEPT !.pc = "index", !.row = job]
      <4>1. call' = [call EXCEPT ![w] = c] /\ c.progress = call[w].progress
        BY <2>1, <2>4, <3>1 DEF FindJob, Call
      <4> QED
        BY <4>1
    <3>2. CASE ReadIndex(w)
      <4> DEFINE c == [call[w] EXCEPT !.pc = "save", !.next = NextIndex,
                                      !.seen = Len(statuses)]
      <4>1. call' = [call EXCEPT ![w] = c] /\ c.progress = call[w].progress
        BY <2>1, <2>4, <3>2 DEF ReadIndex, Call
      <4> QED
        BY <4>1
    <3> QED
      BY <1>4, <3>1, <3>2
  <2>5. CASE ~Return(w)
    <3>1. PICK c : call' = [call EXCEPT ![w] = c] /\ c.progress = call[w].progress
      BY <2>4, <2>5
    <3>2. CASE w = Thread
      <4>1. said' = said /\ said' \in Nat /\ said <= said' /\ c.progress = said'
        BY <1>1, <2>1, <2>2, <3>1, <3>2
      <4> QED
        BY <2>1, <3>1, <3>2, <4>1, ThreadFrame
    <3>3. CASE w # Thread
      BY <2>1, <3>1, <3>3, ClientFrame
    <3> QED
      BY <3>2, <3>3
  <2> QED
    BY <2>3, <2>5
<1>5. ASSUME NEW w \in Callers, SaveJob(w) \/ FindFails(w) \/ QueryFails(w)
      PROVE  ThreadInv'
  <2>1. call' = [call EXCEPT ![w] = NoCall] /\ UNCHANGED statuses
    BY <1>5 DEF SaveJob, FindFails, QueryFails, Return
  <2>2. said' \in Nat /\ said <= said' /\ (w # Thread => said' = said)
    BY <1>1, <1>5 DEF SaveJob, FindFails, QueryFails
  <2> QED
    BY <2>1, <2>2, ReturnFrame
<1>6. CASE Kill
  <2>1. said' \in Nat /\ said <= said' /\ Thread \in Callers
    BY <1>1, <1>6 DEF Kill, JOB_ERROR, Callers
  <2> QED
    BY <1>6, <2>1, ReturnFrame DEF Kill, Return
<1>7. CASE CreateJob \/ UNCHANGED vars
  <2>1. UNCHANGED <<statuses, call, said>>
    BY <1>7 DEF CreateJob, vars
  <2> QED
    BY <2>1 DEF ThreadInv
<1> QED
  BY <1>2, <1>3, <1>4, <1>5, <1>6, <1>7, ThreadSaves DEF Next, Add

LEMMA ThreadInvariant == Spec => []ThreadInv
<1>1. Init => ThreadInv
  <2> SUFFICES ASSUME Init
               PROVE  ThreadInv
    OBVIOUS
  <2>1. statuses = <<>> /\ call[Thread].pc = "idle"
    BY DEF Init, NoCall, Started, Callers
  <2> QED
    BY <2>1 DEF ThreadInv
<1>2. JobInv /\ ThreadInv /\ [Next]_vars => ThreadInv'
  BY NextThread
<1> QED
  BY <1>1, <1>2, JobInvariant, PTL DEF Spec

\* The reports that are made are a sequence of the length of the statuses.
Reports == [index : Nat, progress : Progress, errcode : ErrCode, by : Callers]

LEMMA ReportsAre ==
  ASSUME NEW s \in Seq(StatusRow), NEW t, t = [k \in DOMAIN s |-> ReportOf(s[k])]
  PROVE  /\ t \in Seq(Reports)
         /\ Len(t) = Len(s)
         /\ \A k \in 1..Len(s) : t[k] = ReportOf(s[k])
<1>1. Len(s) \in Nat /\ DOMAIN s = 1..Len(s)
  OBVIOUS
<1>2. ASSUME NEW k \in 1..Len(s)
      PROVE  ReportOf(s[k]) \in Reports
  <2>1. s[k] \in StatusRow
    BY <1>2
  <2> QED
    BY <2>1 DEF StatusRow, Reports, ReportOf
<1>3. t \in [1..Len(s) -> Reports]
  BY <1>1, <1>2
<1>4. t \in Seq(Reports)
  BY <1>1, <1>3, SeqDef
<1>5. Len(t) = Len(s)
  BY <1>1, <1>3, <1>4, LenProperties
<1> QED
  BY <1>1, <1>4, <1>5

\* A status that is saved is the next report, without its history.
LEMMA ReportAppended ==
  ASSUME JobInv, NEW w \in Callers, SaveStatus(w)
  PROVE  ReportsMade' = Append(ReportsMade,
                               [index |-> call[w].next, progress |-> call[w].progress,
                                errcode |-> NewStatus(w).errcode, by |-> w])
<1> DEFINE n == Len(statuses)
           r == [index |-> call[w].next, progress |-> call[w].progress,
                 errcode |-> NewStatus(w).errcode, by |-> w]
<1>1. statuses \in Seq(StatusRow) /\ statuses' \in Seq(StatusRow) /\ n \in Nat
  <2>1. JobInv'
    BY SaveStatusInv
  <2> QED
    BY <2>1 DEF JobInv, TypeOK
<1>2. /\ Len(statuses') = n + 1
      /\ statuses'[n + 1] = NewStatus(w)
      /\ \A k \in 1..n : statuses'[k] = statuses[k]
  BY <1>1 DEF SaveStatus
<1>3. ReportOf(NewStatus(w)) = r
  BY DEF ReportOf, NewStatus
<1>4. /\ ReportsMade \in Seq(Reports) /\ Len(ReportsMade) = n
      /\ \A k \in 1..n : ReportsMade[k] = ReportOf(statuses[k])
  BY <1>1, ReportsAre DEF ReportsMade
<1>5. /\ ReportsMade' \in Seq(Reports) /\ Len(ReportsMade') = n + 1
      /\ \A k \in 1..(n + 1) : ReportsMade'[k] = ReportOf(statuses'[k])
  <2>1. /\ ReportsMade' \in Seq(Reports) /\ Len(ReportsMade') = Len(statuses')
        /\ \A k \in 1..Len(statuses') : ReportsMade'[k] = ReportOf(statuses'[k])
    BY <1>1, ReportsAre DEF ReportsMade
  <2> QED
    BY <1>2, <2>1
<1> HIDE DEF r
<1>6. r \in Reports
  <2>1. ReportsMade'[n + 1] = r /\ n + 1 \in 1..(n + 1)
    BY <1>1, <1>2, <1>3, <1>5
  <2> QED
    BY <1>5, <2>1
<1>7. /\ Append(ReportsMade, r) \in Seq(Reports)
      /\ Len(Append(ReportsMade, r)) = n + 1
      /\ \A k \in 1..(n + 1) : Append(ReportsMade, r)[k] = ReportsMade'[k]
  <2>1. 1..(n + 1) = 1..n \cup {n + 1}
    BY <1>1
  <2>2. /\ Append(ReportsMade, r) \in Seq(Reports)
        /\ Len(Append(ReportsMade, r)) = n + 1
        /\ Append(ReportsMade, r)[n + 1] = r
        /\ \A k \in 1..n : Append(ReportsMade, r)[k] = ReportsMade[k]
    BY <1>1, <1>4, <1>6
  <2>3. \A k \in 1..n : ReportsMade'[k] = ReportsMade[k]
    BY <1>1, <1>2, <1>4, <1>5, <2>1
  <2>4. ReportsMade'[n + 1] = r
    BY <1>2, <1>3, <1>5, <2>1
  <2> QED
    BY <2>1, <2>2, <2>3, <2>4
<1>8. ReportsMade' = Append(ReportsMade, r)
  BY <1>5, <1>7, SeqEqual
<1> QED
  BY <1>8 DEF r

\* What the reports say is what the statuses say.
LEMMA ReportFields ==
  ASSUME JobInv
  PROVE  /\ DOMAIN ReportsMade = DOMAIN statuses /\ DOMAIN statuses = 1..Len(statuses)
         /\ Len(ReportsMade) = Len(statuses)
         /\ \A k \in DOMAIN statuses : /\ ReportsMade[k].by = statuses[k].by
                                       /\ ReportsMade[k].index = statuses[k].index
                                       /\ ReportsMade[k].progress = statuses[k].progress
<1>1. statuses \in Seq(StatusRow)
  BY DEF JobInv, TypeOK
<1>2. Len(ReportsMade) = Len(statuses) /\ DOMAIN statuses = 1..Len(statuses)
  BY <1>1, ReportsAre DEF ReportsMade
<1>3. DOMAIN ReportsMade = DOMAIN statuses
  BY DEF ReportsMade
<1>4. \A k \in DOMAIN statuses : ReportsMade[k] = ReportOf(statuses[k])
  BY DEF ReportsMade
<1> QED
  BY <1>2, <1>3, <1>4 DEF ReportOf

\* A call that saves the job has saved its status, and no other one since.
UpdateInv ==
  \A w \in Callers : At(w, "update") =>
    \E k \in DOMAIN statuses : /\ statuses[k].by = w /\ LastOf(k)
                               /\ statuses[k].progress = call[w].progress

\* A step of one call that saves no status and leaves another place than the update.
LEMMA UpdateFrame ==
  ASSUME JobInv, UpdateInv, UNCHANGED statuses, NEW w \in Callers, NEW c,
         call' = [call EXCEPT ![w] = c], c.pc # "update"
  PROVE  UpdateInv'
<1>1. ASSUME NEW v \in Callers, At(v, "update")'
      PROVE  call'[v] = call[v] /\ At(v, "update")
  BY <1>1 DEF At, JobInv, TypeOK
<1> QED
  BY <1>1 DEF UpdateInv, LastOf

LEMMA PendingFrame ==
  ASSUME JobInv, UNCHANGED statuses, NEW w \in Callers, NEW c,
         call' = [call EXCEPT ![w] = c], c.pc # "update", call[w].pc # "update"
  PROVE  UNCHANGED ReportsPending
<1>1. \A v \in Callers : At(v, "update")' <=> At(v, "update")
  BY DEF At, JobInv, TypeOK
<1>2. \A k \in DOMAIN statuses : statuses[k].by \in Callers
  <2>1. statuses \in Seq(StatusRow) /\ DOMAIN statuses = 1..Len(statuses)
    BY DEF JobInv, TypeOK
  <2>2. \A k \in DOMAIN statuses : statuses[k] \in StatusRow
    BY <2>1
  <2> QED
    BY <2>2 DEF StatusRow
<1> QED
  BY <1>1, <1>2 DEF ReportsPending, LastOf

\* A call that ends at the update takes its report out of those that may be shown.
LEMMA PendingEnds ==
  ASSUME JobInv, UpdateInv, UNCHANGED statuses, NEW w \in Callers, At(w, "update"),
         call' = [call EXCEPT ![w] = NoCall]
  PROVE  \E k \in ReportsPending : /\ statuses[k].progress = call[w].progress
                                   /\ ReportsPending' = ReportsPending \ {k}
<1>1. PICK k \in DOMAIN statuses : /\ statuses[k].by = w /\ LastOf(k)
                                   /\ statuses[k].progress = call[w].progress
  BY DEF UpdateInv
<1>2. k \in ReportsPending
  BY <1>1 DEF ReportsPending
<1>3. ASSUME NEW i \in DOMAIN statuses
      PROVE  i \in ReportsPending' <=> i \in ReportsPending /\ i # k
  <2>1. statuses \in Seq(StatusRow) /\ DOMAIN statuses = 1..Len(statuses)
    BY DEF JobInv, TypeOK
  <2>2. statuses[i].by \in Callers
    <3>1. statuses[i] \in StatusRow
      BY <1>3, <2>1
    <3> QED
      BY <3>1 DEF StatusRow
  <2>3. LastOf(i)' <=> LastOf(i)
    BY DEF LastOf
  <2>4. At(w, "update")' = FALSE
    BY DEF At, NoCall, Started, JobInv, TypeOK
  <2>5. CASE statuses[i].by = w
    <3>1. i \notin ReportsPending'
      BY <2>4, <2>5 DEF ReportsPending
    <3>2. LastOf(i) => i = k
      <4>1. ASSUME LastOf(i)
            PROVE  i = k
        <5>1. i <= k /\ k <= i
          BY <1>1, <2>5, <4>1 DEF LastOf
        <5> QED
          BY <2>1, <5>1
      <4> QED
        BY <4>1
    <3> QED
      BY <3>1, <3>2 DEF ReportsPending
  <2>6. CASE statuses[i].by # w
    <3>1. At(statuses[i].by, "update")' <=> At(statuses[i].by, "update")
      BY <2>2, <2>6 DEF At, JobInv, TypeOK
    <3> QED
      BY <1>1, <2>3, <2>6, <3>1 DEF ReportsPending
  <2> QED
    BY <2>5, <2>6
<1>4. ReportsPending \subseteq DOMAIN statuses /\ ReportsPending' \subseteq DOMAIN statuses
  BY DEF ReportsPending
<1>5. ReportsPending' = ReportsPending \ {k}
  BY <1>3, <1>4
<1> QED
  BY <1>1, <1>2, <1>5

\* What is shown of a job that is there.
LEMMA JobIsShown ==
  ASSUME JobInv, job # None
  PROVE  JobShown # None
<1>1. JobShown \in [progress : Nat, finished : BOOLEAN]
  BY DEF JobInv, TypeOK, JobRow, JobShown
<1> QED
  BY <1>1, NoneAssumption

\* The status that is saved is its caller's last one, and may be shown.
LEMMA PendingGrows ==
  ASSUME JobInv, UpdateInv, NEW w \in Callers, SaveStatus(w)
  PROVE  /\ UpdateInv'
         /\ ReportsPending' = ReportsPending \cup {Len(statuses) + 1}
<1> DEFINE n == Len(statuses)
<1>1. /\ statuses \in Seq(StatusRow) /\ n \in Nat /\ DOMAIN statuses = 1..n
      /\ call \in [Callers -> Call] /\ call[w].pc = "save"
  BY DEF JobInv, TypeOK, SaveStatus, At
<1>2. statuses' = Append(statuses, NewStatus(w)) /\ statuses' \in Seq(StatusRow)
  <2>1. JobInv'
    BY SaveStatusInv
  <2> QED
    BY <2>1 DEF SaveStatus, JobInv, TypeOK
<1>3. /\ DOMAIN statuses' = 1..(n + 1)
      /\ statuses'[n + 1] = NewStatus(w)
      /\ \A k \in 1..n : statuses'[k] = statuses[k]
  BY <1>1, <1>2
<1>4. NewStatus(w).by = w /\ NewStatus(w).progress = call[w].progress
  BY DEF NewStatus
<1>5. /\ call'[w].pc = "update" /\ call'[w].progress = call[w].progress
      /\ \A v \in Callers : v # w => call'[v] = call[v]
  BY <1>1 DEF SaveStatus, Goto, Call
<1>6. 1..(n + 1) = 1..n \cup {n + 1} /\ n + 1 \notin 1..n /\ \A k \in 1..n : ~(n + 1 <= k)
  BY <1>1
<1>7. \A k \in 1..n : LastOf(k)' <=> LastOf(k) /\ statuses[k].by # w
  BY <1>1, <1>3, <1>4, <1>6 DEF LastOf
<1>8. PICK m \in Nat : m = n + 1
  BY <1>1
<1>9. LastOf(m)' /\ m \in DOMAIN statuses' /\ statuses'[m] = NewStatus(w)
  <2>1. \A k \in 1..(n + 1) : k <= m
    BY <1>1, <1>8
  <2> QED
    BY <1>3, <1>6, <1>8, <2>1 DEF LastOf
<1>10. UpdateInv'
  <2>1. ASSUME NEW v \in Callers, At(v, "update")'
        PROVE  \E k \in DOMAIN statuses' :
                 /\ statuses'[k].by = v /\ LastOf(k)'
                 /\ statuses'[k].progress = call'[v].progress
    <3>1. CASE v = w
      BY <1>4, <1>5, <1>9, <3>1
    <3>2. CASE v # w
      <4>1. PICK k \in 1..n : /\ statuses[k].by = v /\ LastOf(k)
                              /\ statuses[k].progress = call[v].progress
        BY <1>1, <1>5, <2>1, <3>2 DEF UpdateInv, At
      <4> QED
        BY <1>3, <1>5, <1>6, <1>7, <3>2, <4>1
    <3> QED
      BY <3>1, <3>2
  <2> QED
    BY <2>1 DEF UpdateInv
<1>11. ASSUME NEW k \in 1..(n + 1)
       PROVE  k \in ReportsPending' <=> k \in ReportsPending \/ k = n + 1
  <2>1. CASE k = n + 1
    <3>1. k = m /\ call'[statuses'[m].by].pc = "update"
      BY <1>4, <1>5, <1>8, <1>9, <2>1
    <3>2. m \in ReportsPending'
      BY <1>9, <3>1 DEF ReportsPending, At
    <3> QED
      BY <2>1, <3>1, <3>2
  <2>2. CASE k # n + 1
    <3>1. k \in 1..n /\ statuses'[k] = statuses[k] /\ statuses[k].by \in Callers
      <4>1. k \in 1..n /\ statuses'[k] = statuses[k] /\ statuses[k] \in StatusRow
        BY <1>1, <1>3, <1>6, <2>2
      <4> QED
        BY <4>1 DEF StatusRow
    <3>2. k \in ReportsPending' <=> LastOf(k)' /\ At(statuses[k].by, "update")'
      BY <1>3, <3>1 DEF ReportsPending
    <3>3. k \in ReportsPending <=> LastOf(k) /\ At(statuses[k].by, "update")
      BY <1>1, <3>1 DEF ReportsPending
    <3>4. At(statuses[k].by, "update") =>
            statuses[k].by # w /\ At(statuses[k].by, "update")'
      BY <1>1, <1>5, <3>1 DEF At
    <3>5. statuses[k].by # w /\ At(statuses[k].by, "update")' =>
            At(statuses[k].by, "update")
      BY <1>5, <3>1 DEF At
    <3> QED
      BY <1>7, <2>2, <3>1, <3>2, <3>3, <3>4, <3>5
  <2> QED
    BY <2>1, <2>2
<1>12. ReportsPending \subseteq 1..(n + 1) /\ ReportsPending' \subseteq 1..(n + 1)
  BY <1>1, <1>3, <1>6 DEF ReportsPending
<1>13. ReportsPending' = ReportsPending \cup {n + 1}
  BY <1>6, <1>11, <1>12
<1> QED
  BY <1>10, <1>13

LEMMA SaveStatusShows ==
  ASSUME JobInv, RowInv, UpdateInv, ThreadInv, NEW w \in Callers, SaveStatus(w)
  PROVE  Promise!Add(w)
<1> DEFINE n == call[w].progress
           e == NewStatus(w).errcode
<1>1. /\ call[w] \in Call /\ call[w].pc = "save" /\ job # None /\ UNCHANGED job
      /\ n \in Progress /\ call[w].next \in 1..NextIndex
  BY DEF JobInv, TypeOK, RowInv, HasRow, SaveStatus, At, CallInv, KnowsJob, KnowsIndex
<1>2. e \in ErrCode
  BY <1>1 DEF NewStatus, Call, ErrCode
<1>3. JobShown # None /\ UNCHANGED JobShown
  BY <1>1, JobIsShown DEF JobShown
<1>4. \A k \in ReportsPending : ReportsMade[k].by # w
  <2>1. \A k \in ReportsPending : k \in DOMAIN statuses /\ statuses[k].by # w
    BY <1>1 DEF ReportsPending, At
  <2> QED
    BY <2>1, ReportFields
<1>5. w = Thread => Promise!Grows(n)
  <2>1. ASSUME w = Thread, NEW k \in DOMAIN ReportsMade, ReportsMade[k].by = Thread
        PROVE  ReportsMade[k].progress < n
    BY <1>1, <2>1, ReportFields DEF ThreadInv
  <2> QED
    BY <2>1 DEF Promise!Grows
<1>6. call[w].next \in Promise!Indexes
  <2>1. Indexes = 1..(NextIndex - 1) /\ NextIndex \in Nat
    BY NextIndexNat DEF JobInv
  <2>2. CASE call[w].next = 1
    BY <2>2 DEF Promise!Indexes
  <2>3. CASE call[w].next # 1
    <3>1. call[w].next - 1 \in Indexes
      BY <1>1, <2>1, <2>3
    <3>2. PICK k \in DOMAIN statuses : statuses[k].index = call[w].next - 1
      BY <3>1, ReportFields DEF Indexes
    <3>3. k \in DOMAIN ReportsMade /\ ReportsMade[k].index = call[w].next - 1
      BY <3>2, ReportFields
    <3>4. ReportsMade[k].index + 1 = call[w].next
      BY <1>1, <2>1, <3>3
    <3> QED
      BY <3>3, <3>4 DEF Promise!Indexes
  <2> QED
    BY <2>2, <2>3
<1>7. ReportsMade' = Append(ReportsMade, [index |-> call[w].next, progress |-> n,
                                         errcode |-> e, by |-> w])
  BY ReportAppended
<1>8. ReportsPending' = ReportsPending \cup {Len(ReportsMade) + 1}
  BY PendingGrows, ReportFields
<1> QED
  BY <1>1, <1>2, <1>3, <1>4, <1>5, <1>6, <1>7, <1>8 DEF Promise!Add

LEMMA SaveJobShows ==
  ASSUME JobInv, UpdateInv, NEW w \in Callers, SaveJob(w)
  PROVE  \E k \in ReportsPending : Promise!Show(k)
<1>1. /\ At(w, "update") /\ UNCHANGED statuses /\ job' = UpdatedJob(w)
      /\ call' = [call EXCEPT ![w] = NoCall]
  BY DEF SaveJob
<1>2. PICK k \in ReportsPending : /\ statuses[k].progress = call[w].progress
                                  /\ ReportsPending' = ReportsPending \ {k}
  BY <1>1, PendingEnds
<1>3. job' # None /\ JobIsReported'
  <2>1. UpdatedJob(w) \in JobRow
    BY <1>1, JobAssumption
    DEF UpdatedJob, JobRow, FINISH, PROCESSING, JobInv, CallInv, KnowsJob, At
  <2>2. JobInv'
    BY SaveJobInv
  <2> QED
    BY <1>1, <2>1, <2>2, NoneAssumption DEF JobInv
<1>4. k \in DOMAIN statuses
  BY DEF ReportsPending
<1>5. ReportsMade[k].progress = call[w].progress
  BY <1>2, <1>4, ReportFields
<1>6. JobShown' = [progress |-> ReportsMade[k].progress, finished |-> job'.status = FINISH]
  BY <1>1, <1>3, <1>5 DEF JobShown, UpdatedJob
<1>7. ReportsMade[k].progress >= 100 => job'.status = FINISH
  BY <1>1, <1>5 DEF UpdatedJob
<1>8. job'.status = FINISH => \E i \in DOMAIN ReportsMade : ReportsMade[i].progress >= 100
  BY <1>1, <1>3, ReportFields DEF JobIsReported
<1>9. UNCHANGED ReportsMade
  BY <1>1 DEF ReportsMade
<1>10. (job'.status = FINISH) \in BOOLEAN
  OBVIOUS
<1> QED
  BY <1>2, <1>6, <1>7, <1>8, <1>9, <1>10 DEF Promise!Show

LEMMA CreateShows ==
  ASSUME CreateJob
  PROVE  Promise!Create
<1>1. /\ job = None /\ UNCHANGED <<statuses, call>>
      /\ job' = [status |-> PROCESSING, progress |-> 0]
  BY DEF CreateJob
<1>2. job' # None
  BY <1>1, NoneAssumption DEF JobRow
<1>3. JobShown' = [progress |-> 0, finished |-> FALSE]
  <2>1. job'.progress = 0 /\ (job'.status = FINISH) = FALSE
    BY <1>1 DEF PROCESSING, FINISH
  <2>2. JobShown' = [progress |-> job'.progress, finished |-> job'.status = FINISH]
    BY <1>2 DEF JobShown
  <2> QED
    BY <2>1, <2>2
<1>4. UNCHANGED <<ReportsMade, ReportsPending>>
  BY <1>1 DEF ReportsMade, ReportsPending, LastOf, At
<1> QED
  BY <1>1, <1>3, <1>4 DEF Promise!Create, JobShown

\* A call that ends without saving anything drops its report, if it has one.
LEMMA ReturnShows ==
  ASSUME JobInv, UpdateInv, UNCHANGED <<job, statuses>>, NEW w \in Callers,
         call' = [call EXCEPT ![w] = NoCall]
  PROVE  (\E k \in ReportsPending : Promise!Drop(k)) \/ UNCHANGED Promise!vars
<1>1. UNCHANGED <<ReportsMade, JobShown>>
  BY DEF ReportsMade, JobShown
<1>2. CASE At(w, "update")
  <2>1. PICK k \in ReportsPending : ReportsPending' = ReportsPending \ {k}
    BY <1>2, PendingEnds
  <2> QED
    BY <1>1, <2>1 DEF Promise!Drop
<1>3. CASE ~At(w, "update")
  <2>1. NoCall.pc # "update"
    BY DEF NoCall, Started
  <2> QED
    BY <1>1, <1>3, <2>1, PendingFrame DEF Promise!vars, At
<1> QED
  BY <1>2, <1>3

\* A call that goes on, without saving anything, shows nothing.
LEMMA GoesOnShows ==
  ASSUME JobInv, UNCHANGED <<job, statuses>>, NEW w \in Callers, NEW c,
         call' = [call EXCEPT ![w] = c], c.pc # "update", call[w].pc # "update"
  PROVE  UNCHANGED Promise!vars
BY PendingFrame DEF Promise!vars, ReportsMade, JobShown

\* The steps that neither save anything nor end a call.
Quiet ==
  /\ UNCHANGED <<job, statuses>>
  /\ \E w \in Callers : \E c :
       call[w].pc # "update" /\ c.pc # "update" /\ call' = [call EXCEPT ![w] = c]

Ends == UNCHANGED <<job, statuses>> /\ \E w \in Callers : call' = [call EXCEPT ![w] = NoCall]

LEMMA StepKinds ==
  ASSUME JobInv, [Next]_vars
  PROVE  \/ CreateJob
         \/ \E w \in Callers : SaveStatus(w) \/ SaveJob(w)
         \/ Quiet
         \/ Ends
         \/ UNCHANGED vars
<1>0. call \in [Callers -> Call] /\ Thread \in Callers /\ Clients \subseteq Callers
  BY DEF JobInv, TypeOK, Callers
<1>1. ASSUME NEW n \in Progress, NEW e \in {"", "1"}, Report(n, e)
      PROVE  Quiet
  <2> DEFINE c == Started(n, e, "find")
  <2>1. /\ UNCHANGED <<job, statuses>> /\ call[Thread].pc # "update"
        /\ call' = [call EXCEPT ![Thread] = c] /\ c.pc # "update"
    BY <1>1 DEF Report, At, Started
  <2> HIDE DEF c
  <2> QED
    BY <1>0, <2>1 DEF Quiet
<1>2. ASSUME NEW w \in Clients, NEW n \in Progress \cup {Unreadable}, NEW e \in {"0", "255"},
             Post(w, n, e)
      PROVE  Quiet
  <2> DEFINE c == Started(n, e, "find")
  <2>1. /\ UNCHANGED <<job, statuses>> /\ call[w].pc # "update"
        /\ call' = [call EXCEPT ![w] = c] /\ c.pc # "update"
    BY <1>2 DEF Post, At, Started
  <2> HIDE DEF c
  <2> QED
    BY <1>0, <2>1 DEF Quiet
<1>3. ASSUME NEW w \in Callers, FindJob(w)
      PROVE  Quiet \/ Ends
  <2>1. CASE Return(w)
    BY <1>3, <2>1 DEF FindJob, Return, Ends
  <2>2. CASE ~Return(w)
    <3> DEFINE c == [call[w] EXCEPT !.pc = "index", !.row = job]
    <3>1. /\ UNCHANGED <<job, statuses>> /\ call[w].pc # "update"
          /\ call' = [call EXCEPT ![w] = c]
      BY <1>3, <2>2 DEF FindJob, At
    <3>2. c.pc # "update"
      BY <1>0 DEF Call
    <3> HIDE DEF c
    <3> QED
      BY <3>1, <3>2 DEF Quiet
  <2> QED
    BY <2>1, <2>2
<1>4. ASSUME NEW w \in Callers, ReadIndex(w)
      PROVE  Quiet
  <2> DEFINE c == [call[w] EXCEPT !.pc = "save", !.next = NextIndex, !.seen = Len(statuses)]
  <2>1. /\ UNCHANGED <<job, statuses>> /\ call[w].pc # "update"
        /\ call' = [call EXCEPT ![w] = c]
    BY <1>4 DEF ReadIndex, At
  <2>2. c.pc # "update"
    BY <1>0 DEF Call
  <2> HIDE DEF c
  <2> QED
    BY <2>1, <2>2 DEF Quiet
<1>5. ASSUME NEW w \in Callers, FindFails(w) \/ QueryFails(w)
      PROVE  Ends
  BY <1>5 DEF FindFails, QueryFails, Return, Ends
<1>6. CASE Kill
  BY <1>0, <1>6 DEF Kill, Return, Ends
<1> QED
  BY <1>1, <1>2, <1>3, <1>4, <1>5, <1>6 DEF Next, Add

LEMMA NextUpdate ==
  ASSUME JobInv, UpdateInv, [Next]_vars
  PROVE  UpdateInv'
<1>1. NoCall.pc # "update"
  BY DEF NoCall, Started
<1>2. CASE CreateJob \/ UNCHANGED vars
  <2>1. UNCHANGED <<statuses, call>>
    BY <1>2 DEF CreateJob, vars
  <2> QED
    BY <2>1 DEF UpdateInv, At, LastOf
<1>3. ASSUME NEW w \in Callers, SaveStatus(w)
      PROVE  UpdateInv'
  BY <1>3, PendingGrows
<1>4. ASSUME NEW w \in Callers, SaveJob(w)
      PROVE  UpdateInv'
  BY <1>1, <1>4, UpdateFrame DEF SaveJob
<1>5. CASE Quiet
  BY <1>5, UpdateFrame DEF Quiet
<1>6. CASE Ends
  BY <1>1, <1>6, UpdateFrame DEF Ends
<1> QED
  BY <1>2, <1>3, <1>4, <1>5, <1>6, StepKinds

LEMMA NextShows ==
  ASSUME JobInv, RowInv, UpdateInv, ThreadInv, [Next]_vars
  PROVE  [Promise!Next]_Promise!vars
<1>1. CASE CreateJob
  BY <1>1, CreateShows DEF Promise!Next
<1>2. ASSUME NEW w \in Callers, SaveStatus(w)
      PROVE  Promise!Next
  BY <1>2, SaveStatusShows DEF Promise!Next, Callers
<1>3. ASSUME NEW w \in Callers, SaveJob(w)
      PROVE  Promise!Next
  BY <1>3, SaveJobShows DEF Promise!Next
<1>4. CASE Quiet
  BY <1>4, GoesOnShows DEF Quiet
<1>5. CASE Ends
  BY <1>5, ReturnShows DEF Ends, Promise!Next
<1>6. CASE UNCHANGED vars
  BY <1>6 DEF vars, Promise!vars, ReportsMade, ReportsPending, LastOf, JobShown, At
<1> QED
  BY <1>1, <1>2, <1>3, <1>4, <1>5, <1>6, StepKinds

\* However its calls overlap and fail, add_job_status puts each report down once, under
\* an index that leaves no gap and, of the thread, with more progress than before, and
\* shows it once at most, with the progress that it has.
THEOREM ReportsRefinement == Spec => ImplementsReports
<1>1. Init => UpdateInv /\ Promise!Init
  <2> SUFFICES ASSUME Init
               PROVE  UpdateInv /\ Promise!Init
    OBVIOUS
  <2>1. statuses = <<>> /\ job = None /\ \A w \in Callers : ~At(w, "update")
    BY DEF Init, At, NoCall, Started
  <2>2. Len(ReportsMade) = 0 /\ ReportsMade \in Seq(Reports)
    BY <2>1, ReportsAre DEF ReportsMade
  <2>3. ReportsMade = <<>> /\ JobShown = None
    BY <2>1, <2>2, EmptySeq DEF JobShown
  <2>4. ReportsPending = {}
    BY <2>1 DEF ReportsPending
  <2> QED
    BY <2>1, <2>3, <2>4 DEF UpdateInv, Promise!Init
<1>2. JobInv /\ UpdateInv /\ [Next]_vars => UpdateInv'
  BY NextUpdate
<1>3. JobInv /\ RowInv /\ UpdateInv /\ ThreadInv /\ [Next]_vars => [Promise!Next]_Promise!vars
  BY NextShows
<1> QED
  BY <1>1, <1>2, <1>3, RowInvariant, ThreadInvariant, PTL
  DEF Spec, ImplementsReports, Promise!Spec

================================================================================
