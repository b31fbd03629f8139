----------------------------- MODULE SdcDistribution -----------------------------
(***************************************************************************)
(* NS and service packages distributed from SDC (biz/sdc_ns_package.py,    *)
(* biz/sdc_service_package.py, biz/service_descriptor.py), and the         *)
(* controller that distributes NS packages by itself when DMaaP tells it   *)
(* to (pub/msapi/sdc_controller.py).                                       *)
(*                                                                         *)
(* A csar may be on-boarded as an NS package, as a service package or as   *)
(* both.  The two kinds have a table each but keep their files in one      *)
(* directory, named after the csar.  HTTP handlers and the controller's    *)
(* polling jobs are the workers.  The distribution of the VFs of a service *)
(* is one step here: VnfDistribution has its steps.  What a descriptor     *)
(* holds and refers to is in Descriptors: here a parse succeeds or fails.  *)
(***************************************************************************)
EXTENDS SequencesExt

CONSTANTS Csars,      \* identifiers of services in SDC
          Vfs,        \* identifiers of VF resources in SDC
          Resources,  \* the VFs each service is made of
          About,      \* the services of the notifications SDC publishes, in order
          Handlers,   \* HTTP handlers that can be at work at once
          Jobs,       \* polling jobs that can be at work at once (max_instances)
          None

Workers == Handlers \cup Jobs
Kinds == {"ns", "sv"}
Msgs == DOMAIN About

ASSUME SdcAssumption ==
  /\ Resources \in [Csars -> SUBSET Vfs] /\ About \in Seq(Csars)
  /\ None \notin Csars /\ Handlers \cap Jobs = {}

VARIABLES row,      \* onboardingState of the NS and service packages, or "absent"
          dir,      \* whether the directory of a csar holds its files
          vf,       \* the VFs that have a row, of a VNF package
          polling,  \* what became of the controller: "starting", "yes" or "failed"
          topic,    \* notifications waiting in DMaaP
          batch,    \* notifications a polling job has fetched and not finished
          todo,     \* VFs whose distribution thread a job waits for
          ended,    \* VFs whose threads did not end well, with what the job will read
          pc,       \* what each worker does next
          on,       \* the package a worker is about
          sent,     \* how many notifications SDC has published
          fresh,    \* rows made and VFs lost since a worker looked (history)
          crowded   \* csars two workers were about at once, or of both kinds (history)

pkgVars == <<row, dir, vf, crowded>>
msgVars == <<polling, topic, batch, todo, ended, sent>>
vars == <<pkgVars, msgVars, pc, on, fresh>>

-----------------------------------------------------------------------------

ServicePackageModel == {"absent", "CREATED", "PROCESSING", "ONBOARDED"}

Label == {"idle", "check", "fetch", "create", "process", "parse", "undo", "delete",
          "rmdir", "next", "asset", "threads"}

Nothing == [kind |-> "ns", csar |-> None]

\* What the latest status tells of a VF that was not distributed: an error; that it is
\* under way, as the error was not saved; or there is no status to read.
Ends == {"error", "under way", "unknown"}

Init ==
  /\ row = [k \in Kinds |-> [c \in Csars |-> "absent"]]
  /\ dir = [c \in Csars |-> FALSE]
  /\ vf = {}
  /\ polling = "starting"
  /\ topic = <<>>
  /\ batch = [j \in Jobs |-> <<>>]
  /\ todo = [j \in Jobs |-> {}]
  /\ ended = [j \in Jobs |-> {}]
  /\ pc = [w \in Workers |-> "idle"]
  /\ on = [w \in Workers |-> Nothing]
  /\ sent = 0
  /\ fresh = [w \in Workers |-> {}]
  /\ crowded = {}

At(w, l) == pc[w] = l

Goto(w, l) == pc' = [pc EXCEPT ![w] = l] /\ UNCHANGED <<on, fresh>>

RowOf(w) == row[on[w].kind][on[w].csar]

SetRow(w, s) == row' = [row EXCEPT ![on[w].kind][on[w].csar] = s]

\* filter(...).update(...) changes no row when there is none.
UpdateRow(w, s) == IF RowOf(w) = "absent" THEN UNCHANGED row ELSE SetRow(w, s)

\* Labels at which a worker relies on having found no package.
Unsure == {"fetch", "create", "process", "parse", "undo"}

\* History: something is made or lost that other workers have looked for.
News(x, ws) == fresh' = [u \in Workers |-> IF u \in ws THEN fresh[u] \cup {x} ELSE fresh[u]]

\* Worker w starts on a package: it shares the directory with whoever else uses it.
Begin(w, k, c, l) ==
  /\ pc' = [pc EXCEPT ![w] = l]
  /\ on' = [on EXCEPT ![w] = [kind |-> k, csar |-> c]]
  /\ fresh' = [fresh EXCEPT ![w] = @ \cap Vfs]
  /\ crowded' = IF \/ \E u \in Workers \ {w} : on[u].csar = c
                   \/ \E k2 \in Kinds \ {k} : row[k2][c] # "absent"
                THEN crowded \cup {c} ELSE crowded

Leave(w) ==
  /\ on' = [on EXCEPT ![w] = Nothing]
  /\ fresh' = [fresh EXCEPT ![w] = {}]

\* A handler answers; a job goes on with its next notification.
Finish(w) ==
  /\ Leave(w)
  /\ pc' = [pc EXCEPT ![w] = IF w \in Jobs THEN "next" ELSE "idle"]
  /\ IF w \in Jobs THEN /\ batch' = [batch EXCEPT ![w] = Tail(@)]
                        /\ ended' = [ended EXCEPT ![w] = {}]
                   ELSE UNCHANGED <<batch, ended>>
  /\ UNCHANGED <<polling, topic, todo, sent>>

Move(w, l) == Goto(w, l) /\ UNCHANGED msgVars

-----------------------------------------------------------------------------
(* POST nspackages and POST service_packages: on_distribute *)

NsPackagesPost(w, c) ==
  /\ w \in Handlers /\ At(w, "idle")
  /\ Begin(w, "ns", c, "check")
  /\ UNCHANGED <<row, dir, vf, msgVars>>

ServicePackagesPost(w, c) ==
  /\ w \in Handlers /\ At(w, "idle")
  /\ Begin(w, "sv", c, "check")
  /\ UNCHANGED <<row, dir, vf, msgVars>>

\* Faulty: the refusal is an exception like any other, and undoes the package.
NsCheckRaises(w) ==
  /\ At(w, "check") /\ on[w].kind = "ns"
  /\ Move(w, IF RowOf(w) = "absent" THEN "fetch" ELSE "undo")
  /\ UNCHANGED pkgVars

\* A package that exists is refused by an answer, past the except clauses.
NsCheck(w) ==
  /\ At(w, "check") /\ on[w].kind = "ns"
  /\ IF RowOf(w) = "absent" THEN Move(w, "fetch") ELSE Finish(w)
  /\ UNCHANGED pkgVars

\* PackageHasExistsException is raised outside the try.
ServiceCheck(w) ==
  /\ At(w, "check") /\ on[w].kind = "sv"
  /\ IF RowOf(w) = "absent" THEN Move(w, "fetch") ELSE Finish(w)
  /\ UNCHANGED pkgVars

\* Asset, archive and files come from SDC.  A service asks that its resources have
\* rows; the check for an NS compares the method upper with 'VF' and never fires.
DownloadArtifacts(w) ==
  LET c == on[w].csar IN
  /\ At(w, "fetch")
  /\ \/ /\ on[w].kind = "sv" => Resources[c] \subseteq vf
        /\ dir' = [dir EXCEPT ![c] = TRUE]
        /\ Move(w, "create") \/ Move(w, "undo")
     \/ dir' = dir /\ Move(w, "undo")
  /\ UNCHANGED <<row, vf, crowded>>

\* Faulty: the operational state is written where the onboarding state belongs.
CreateSwapped(w) ==
  /\ At(w, "create")
  /\ SetRow(w, "DISABLED")
  /\ Move(w, "process")
  /\ UNCHANGED <<dir, vf, crowded>>

\* The primary key is the csar's: a second insert is an IntegrityError.
Create(w) ==
  LET k == on[w].kind  c == on[w].csar IN
  /\ At(w, "create")
  /\ IF RowOf(w) = "absent"
     THEN /\ SetRow(w, "CREATED")
          /\ pc' = [pc EXCEPT ![w] = "process"]
          /\ News(k, {u \in Workers : on[u] = on[w] /\ pc[u] \in Unsure})
          /\ on' = on
     ELSE Goto(w, "undo") /\ row' = row
  /\ UNCHANGED <<dir, vf, crowded, msgVars>>

Process(w) ==
  /\ At(w, "process")
  /\ UpdateRow(w, "PROCESSING")
  /\ Move(w, "parse")
  /\ UNCHANGED <<dir, vf, crowded>>

\* Parsing opens the archive; it fails, and so do the checks on what it names.
ParseAndSave(w) ==
  /\ At(w, "parse")
  /\ \/ /\ dir[on[w].csar]
        /\ UpdateRow(w, "ONBOARDED")
        /\ Finish(w)
     \/ Move(w, "undo") /\ row' = row
  /\ UNCHANGED <<dir, vf, crowded>>

\* Any exception ends in delete_csar, which returns early when there is no row.
NsUndo(w) ==
  /\ At(w, "undo") /\ on[w].kind = "ns"
  /\ IF RowOf(w) = "absent" THEN row' = row /\ Finish(w)
                            ELSE SetRow(w, "absent") /\ Move(w, "rmdir")
  /\ UNCHANGED <<dir, vf, crowded>>

\* delete_csar is called only when there is a row.
ServiceUndo(w) ==
  /\ At(w, "undo") /\ on[w].kind = "sv"
  /\ IF RowOf(w) = "absent" THEN row' = row /\ Finish(w)
                            ELSE SetRow(w, "absent") /\ Move(w, "rmdir")
  /\ UNCHANGED <<dir, vf, crowded>>

-----------------------------------------------------------------------------
(* DELETE nspackages/{csarId} and DELETE service_packages/{csarId} *)

NsDelete(w, c) ==
  /\ w \in Handlers /\ At(w, "idle")
  /\ row["ns"][c] # "absent"
  /\ Begin(w, "ns", c, "delete")
  /\ UNCHANGED <<row, dir, vf, msgVars>>

ServiceDelete(w, c) ==
  /\ w \in Handlers /\ At(w, "idle")
  /\ row["sv"][c] # "absent"
  /\ Begin(w, "sv", c, "delete")
  /\ UNCHANGED <<row, dir, vf, msgVars>>

\* Faulty: the files go first.
DeleteFilesFirst(w) ==
  /\ At(w, "delete")
  /\ dir' = [dir EXCEPT ![on[w].csar] = FALSE]
  /\ Move(w, "rmdir")
  /\ UNCHANGED <<row, vf, crowded>>

DeleteSingle(w) ==
  /\ At(w, "delete")
  /\ SetRow(w, "absent")
  /\ Move(w, "rmdir")
  /\ UNCHANGED <<dir, vf, crowded>>

DeleteDirs(w) ==
  /\ At(w, "rmdir")
  /\ dir' = [dir EXCEPT ![on[w].csar] = FALSE]
  /\ Finish(w)
  /\ UNCHANGED <<row, vf, crowded>>

-----------------------------------------------------------------------------
(* The controller *)

\* run() registers with DMaaP and SDC once; when that fails nothing ever polls.
RunController ==
  /\ polling = "starting"
  /\ polling' \in {"yes", "failed"}
  /\ UNCHANGED <<pkgVars, topic, batch, todo, ended, sent, pc, on, fresh>>

Publish ==
  /\ sent < Len(About)
  /\ sent' = sent + 1
  /\ topic' = Append(topic, sent + 1)
  /\ UNCHANGED <<pkgVars, polling, batch, todo, ended, pc, on, fresh>>

\* DMaaP hands its messages out once.  One that is not JSON loses them all.
FetchNotification(j) ==
  /\ polling = "yes" /\ topic # <<>>
  /\ At(j, "idle")
  /\ topic' = <<>>
  /\ \/ /\ batch' = [batch EXCEPT ![j] = topic]
        /\ pc' = [pc EXCEPT ![j] = "next"]
     \/ UNCHANGED <<batch, pc>>
  /\ UNCHANGED <<pkgVars, polling, todo, ended, sent, on, fresh>>

\* The job is done with the notification at the head of its batch.
Settle(j) ==
  /\ batch' = [batch EXCEPT ![j] = Tail(@)]
  /\ todo' = [todo EXCEPT ![j] = {}]
  /\ ended' = [ended EXCEPT ![j] = {}]
  /\ Leave(j)
  /\ pc' = [pc EXCEPT ![j] = "next"]

\* An exception reaches fetch_notification: the rest of the batch goes with it.
DropBatch(j) ==
  /\ batch' = [batch EXCEPT ![j] = <<>>]
  /\ todo' = [todo EXCEPT ![j] = {}]
  /\ ended' = [ended EXCEPT ![j] = {}]
  /\ Leave(j)
  /\ pc' = [pc EXCEPT ![j] = "idle"]

\* Only a notification with resources or with a TOSCA artifact counts; one that
\* lacks a field is a KeyError.
BuildCallbackNotification(j) ==
  /\ At(j, "next")
  /\ IF batch[j] = <<>> THEN Goto(j, "idle") /\ UNCHANGED <<batch, todo, ended>>
     ELSE \/ Settle(j)
          \/ DropBatch(j)
          \/ Goto(j, "asset") /\ UNCHANGED <<batch, todo, ended>>
  /\ UNCHANGED <<pkgVars, polling, topic, sent>>

\* A thread is made for each VF that has no row; then all of them run.
ProcessNotification(j) ==
  LET missing == Resources[About[Head(batch[j])]] \ vf IN
  /\ At(j, "asset")
  /\ \/ Settle(j)
     \/ DropBatch(j)
     \/ /\ todo' = [todo EXCEPT ![j] = missing]
        /\ Goto(j, "threads")
        /\ UNCHANGED <<batch, ended>>
  /\ UNCHANGED <<pkgVars, polling, topic, sent>>

\* A VF row disappears: whoever counted on it is to know.
LoseVf(v) ==
  /\ vf' = vf \ {v}
  /\ News(v, {j \in Jobs : pc[j] \in {"threads", "check"}})

\* NfDistributeThread: it refuses a VF that has a row by now, and what it undoes
\* after a failure may be that row.  The status 255 may not get into the database, as
\* add_job_status swallows the exception of a save; and a thread that is ended by an
\* exception without arguments reports nothing.
NfDistribute(j, v) ==
  /\ At(j, "threads") /\ v \in todo[j]
  /\ todo' = [todo EXCEPT ![j] = @ \ {v}]
  /\ \/ v \notin vf /\ vf' = vf \cup {v} /\ ended' = ended /\ fresh' = fresh
     \/ /\ \E e \in Ends : ended' = [ended EXCEPT ![j] = @ \cup {<<v, e>>}]
        /\ LoseVf(v) \/ UNCHANGED <<vf, fresh>>
  /\ UNCHANGED <<row, dir, crowded, polling, topic, batch, sent, pc, on>>

Reads(j, e) == \E v \in Vfs : <<v, e>> \in ended[j]

\* Faulty: the status is compared in capitals.
JoinUnheeding(j) ==
  LET c == About[Head(batch[j])] IN
  /\ At(j, "threads") /\ todo[j] = {}
  /\ \/ DropBatch(j) /\ UNCHANGED crowded
     \/ ~Reads(j, "unknown") /\ Begin(j, "ns", c, "check") /\ UNCHANGED <<batch, todo, ended>>
  /\ UNCHANGED <<row, dir, vf, polling, topic, sent>>

\* After all threads ended the latest statuses of their jobs are looked at in turn, and
\* none but an error counts; to have no status is an IndexError.  The NS comes last.
Join(j) ==
  LET c == About[Head(batch[j])] IN
  /\ At(j, "threads") /\ todo[j] = {}
  /\ \/ DropBatch(j) /\ UNCHANGED crowded
     \/ Reads(j, "error") /\ Settle(j) /\ UNCHANGED crowded
     \/ /\ ~Reads(j, "error") /\ ~Reads(j, "unknown")
        /\ Begin(j, "ns", c, "check")
        /\ UNCHANGED <<batch, todo, ended>>
  /\ UNCHANGED <<row, dir, vf, polling, topic, sent>>

-----------------------------------------------------------------------------

\* VNF packages come and go at the request of others.
VfChanges(v) ==
  /\ \/ v \notin vf /\ vf' = vf \cup {v} /\ fresh' = fresh
     \/ v \in vf /\ LoseVf(v)
  /\ UNCHANGED <<row, dir, crowded, msgVars, pc, on>>

\* A worker is killed with its process.
Crash(w) ==
  /\ ~At(w, "idle")
  /\ IF w \in Jobs THEN DropBatch(w)
     ELSE /\ pc' = [pc EXCEPT ![w] = "idle"]
          /\ Leave(w)
          /\ UNCHANGED <<batch, todo, ended>>
  /\ UNCHANGED <<pkgVars, polling, topic, sent>>

Request(w, c) ==
  \/ NsPackagesPost(w, c) \/ NsDelete(w, c)
  \/ ServicePackagesPost(w, c) \/ ServiceDelete(w, c)

PackageStep(w) ==
  \/ NsCheck(w) \/ ServiceCheck(w) \/ DownloadArtifacts(w) \/ Create(w)
  \/ Process(w) \/ ParseAndSave(w)
  \/ NsUndo(w) \/ ServiceUndo(w) \/ DeleteSingle(w) \/ DeleteDirs(w)

JobStep(j) ==
  \/ PackageStep(j)
  \/ BuildCallbackNotification(j) \/ ProcessNotification(j)
  \/ (\E v \in Vfs : NfDistribute(j, v)) \/ Join(j)

Next ==
  \/ \E w \in Handlers : (\E c \in Csars : Request(w, c)) \/ PackageStep(w)
  \/ RunController
  \/ Publish
  \/ \E j \in Jobs : FetchNotification(j) \/ JobStep(j)
  \/ \E v \in Vfs : VfChanges(v)
  \/ \E w \in Workers : Crash(w)

Spec == Init /\ [][Next]_vars

-----------------------------------------------------------------------------

TypeOK ==
  /\ row \in [Kinds -> [Csars -> ServicePackageModel]]
  /\ dir \in [Csars -> BOOLEAN]
  /\ vf \subseteq Vfs
  /\ polling \in {"starting", "yes", "failed"}
  /\ todo \in [Jobs -> SUBSET Vfs]
  /\ ended \in [Jobs -> SUBSET (Vfs \X Ends)]
  /\ pc \in [Workers -> Label]
  /\ on \in [Workers -> [kind : Kinds, csar : Csars \cup {None}]]
  /\ sent \in 0 .. Len(About)
  /\ topic \in Seq(Msgs)
  /\ batch \in [Jobs -> Seq(Msgs)]
  /\ fresh \in [Workers -> SUBSET (Kinds \cup Vfs)]
  /\ crowded \subseteq Csars

\* What a failed distribution takes away again is never a package that was there
\* when the distribution began: at worst it is one that another worker made since.
RollbackSparesOthers ==
  \A w \in Workers :
    At(w, "undo") /\ RowOf(w) # "absent" => on[w].kind \in fresh[w]

\* An on-boarded NS or service package has its files, as long as the csar was used
\* by one worker at a time and as one of the two kinds: they share the directory.
OnboardedHasFiles ==
  \A k \in Kinds, c \in Csars \ crowded : row[k][c] = "ONBOARDED" => dir[c]

\* The controller turns to the NS of a notification only when each VF of it has a row,
\* or had one that was removed since the job looked, or failed in a thread whose error
\* is not its latest status: it waits for all threads, and heeds every error it can read.
VfsBeforeNs ==
  \A j \in Jobs : At(j, "check") =>
    \A v \in Resources[on[j].csar] :
      v \in vf \cup fresh[j] \/ <<v, "under way">> \in ended[j]

=============================================================================
