------------------------------- MODULE Descriptors -------------------------------
(***************************************************************************)
(* NSD and PNFD resources (biz/ns_descriptor.py, biz/pnf_descriptor.py and *)
(* their views) and the VNF packages that NSDs refer to.                   *)
(*                                                                         *)
(* An NSD names the VNFDs and PNFDs it is made of.  Its upload looks each  *)
(* of them up; the delete of a VNF package or PNFD scans the stored NSDs.  *)
(* Lookups, scans and writes are queries of their own, and the requests    *)
(* of four uwsgi processes interleave between them.                        *)
(*                                                                         *)
(* Left out: archives on disk (a parse yields any archive), notifications  *)
(* (see Subscriptions), columns no step reads (usageState, which a PUT     *)
(* sets and an upload resets, among them), the bodies of responses.        *)
(***************************************************************************)
EXTENDS Naturals, FiniteSets

CONSTANTS Nsds, Pnfds, Vnfs,   \* identifiers of the resources: nsdInfoId, pnfdInfoId, vnfPkgId
          NsdKeys, DescKeys,   \* descriptor identifiers, chosen by the designers
          Archives,            \* what the NSD archives hold
          Workers,             \* handlers that can be at work at once
          MaxLost,             \* bound: uploads that can be lost to killed handlers
          MaxSent,             \* bound: uploads and deletes that workers take on
          None

Infos == Nsds \cup Pnfds \cup Vnfs
Packages == Pnfds \cup Vnfs
Names == DescKeys \cup Packages \cup {None}

\* The properties of a VNF or PNF node of an NSD that matter here.
Ref == [kind : {"vnf", "pnf"}, descriptor_id : Names, id : Names]
Archive == [key : NsdKeys \cup {None}, refs : SUBSET Ref]

ASSUME ResourceAssumption ==
  /\ Nsds \cap Packages = {} /\ Pnfds \cap Vnfs = {}
  /\ None \notin Infos \cup NsdKeys \cup DescKeys

ASSUME ArchiveAssumption == Archives \subseteq Archive

ASSUME BoundAssumption == MaxSent \in Nat

VARIABLES state,   \* onboardingState of each resource; "UNBORN" and "GONE" have no row
          key,     \* nsdId, pnfdId or vnfdId
          refs,    \* the VNFs and PNFs of the nsdModel column; {} when it is empty
          pc,      \* what each worker does next
          req,     \* what a worker works on, and what it has read
          since,   \* what was written or deleted since the check of a worker (history)
          sent,    \* how many uploads and deletes workers took on
          lost     \* resources one of whose uploads was killed (history)

vars == <<state, key, refs, pc, req, since, sent, lost>>

-----------------------------------------------------------------------------

NsdInfo == {"CREATED", "UPLOADING", "PROCESSING", "ONBOARDED"}
PnfdInfo == {"CREATED", "UPLOADING", "PROCESSING", "ONBOARDED"}

NSPackageModel ==
  /\ \A n \in Nsds : state[n] \in NsdInfo \cup {"UNBORN", "GONE"}
  /\ \A n \in Nsds : key[n] \in NsdKeys \cup {None}
  /\ refs \in [Nsds -> SUBSET Ref]

PnfPackageModel ==
  /\ \A p \in Pnfds : state[p] \in PnfdInfo \cup {"UNBORN", "GONE"}
  /\ \A p \in Pnfds : key[p] \in DescKeys \cup {None}

Label == {"idle", "saving", "parsing", "lookup", "committing",
          "failing", "del_scan", "del_row"}

Request == [info : Infos \cup {None},
            key  : NsdKeys \cup DescKeys \cup {None},
            refs : SUBSET Ref,
            todo : SUBSET Ref]

NoReq == [info |-> None, key |-> None, refs |-> {}, todo |-> {}]

Stored(i) == state[i] \notin {"UNBORN", "GONE"}

\* The rows of S whose descriptor identifier is k.
Holders(S, k) == {i \in S : Stored(i) /\ key[i] = k /\ k # None}

\* vnf["properties"].get("descriptor_id"), or "id" when there is none.
LookupKey(r) == IF r.descriptor_id # None THEN r.descriptor_id ELSE r.id

\* The rows a reference leads to: by descriptor identifier, else by package id.
Found(S, r) ==
  LET k == LookupKey(r) IN
  IF Holders(S, k) # {} THEN Holders(S, k) ELSE {i \in S : Stored(i) /\ i = k}

VnfRefs(n) == {r \in refs[n] : r.kind = "vnf"}
PnfRefs(n) == {r \in refs[n] : r.kind = "pnf"}

\* What a query shows for a reference, among the vnfPkgIds or the pnfInfoIds.
FillRespData(r) == Found(IF r.kind = "vnf" THEN Vnfs ELSE Pnfds, r)

Init ==
  /\ state = [i \in Infos |-> "UNBORN"]
  /\ key = [i \in Infos |-> None]
  /\ refs = [n \in Nsds |-> {}]
  /\ pc = [w \in Workers |-> "idle"]
  /\ req = [w \in Workers |-> NoReq]
  /\ since = [w \in Workers |-> {}]
  /\ sent = 0
  /\ lost = {}

\* filter(...Id=i).update(...) changes no row when i has none.
SetState(i, s) == IF Stored(i) THEN [state EXCEPT ![i] = s] ELSE state

At(w, l) == pc[w] = l

Start(w, l, i, k) ==
  /\ pc[w] = "idle"
  /\ sent < MaxSent /\ sent' = sent + 1
  /\ pc' = [pc EXCEPT ![w] = l]
  /\ req' = [req EXCEPT ![w] = [@ EXCEPT !.info = i, !.key = k]]

Goto(w, l) ==
  /\ pc' = [pc EXCEPT ![w] = l]
  /\ req' = req

Finish(w) ==
  /\ pc' = [pc EXCEPT ![w] = "idle"]
  /\ req' = [req EXCEPT ![w] = NoReq]

\* Labels of a worker that acts on what it has read of other resources.
Deciding == {"lookup", "committing", "del_scan", "del_row"}

\* The resources of S were written or deleted: what a worker has read of them may
\* be out of date from now on.
Touch(S) ==
  since' = [u \in Workers |-> IF pc'[u] \in Deciding THEN since[u] \cup S ELSE {}]

-----------------------------------------------------------------------------
(* POST ns_descriptors, POST pnf_descriptors *)

CreateNsd(n) ==
  /\ state[n] = "UNBORN"
  /\ state' = [state EXCEPT ![n] = "CREATED"]
  /\ UNCHANGED <<key, refs, pc, req, since, sent, lost>>

CreatePnfd(p) ==
  /\ state[p] = "UNBORN"
  /\ state' = [state EXCEPT ![p] = "CREATED"]
  /\ UNCHANGED <<key, refs, pc, req, since, sent, lost>>

-----------------------------------------------------------------------------
(* PUT nsd_content: upload, then parse_nsd_and_save *)

\* No state is asked for: an NSD that is ONBOARDED is uploaded again.
UploadNsd(w, n) ==
  /\ Stored(n)
  /\ Start(w, "saving", n, None)
  /\ state' = SetState(n, "UPLOADING")
  /\ UNCHANGED <<key, refs, since, lost>>

\* The archive is saved, or not: a full disk, a broken request.
ProcessNsd(w) ==
  /\ At(w, "saving") /\ req[w].info \in Nsds
  /\ \/ Goto(w, "parsing") /\ state' = SetState(req[w].info, "PROCESSING")
     \/ Goto(w, "failing") /\ UNCHANGED state
  /\ Touch({})
  /\ UNCHANGED <<key, refs, sent, lost>>

\* Faulty: any NSD may take any nsdId.
ParseNsdUnchecked(w, a) ==
  /\ At(w, "parsing") /\ req[w].info \in Nsds
  /\ a.key # None
  /\ pc' = [pc EXCEPT ![w] = "lookup"]
  /\ req' = [req EXCEPT ![w] = [@ EXCEPT !.key = a.key, !.refs = a.refs, !.todo = a.refs]]
  /\ Touch({})
  /\ UNCHANGED <<state, key, refs, sent, lost>>

\* An nsdId is required, and the first row that holds it, in whatever order the
\* database returns them, must be the row of this NSD.
ParseNsd(w, a) ==
  LET n == req[w].info  others == Holders(Nsds, a.key) IN
  /\ At(w, "parsing") /\ n \in Nsds
  /\ \/ /\ a.key # None /\ (others = {} \/ n \in others)
        /\ pc' = [pc EXCEPT ![w] = "lookup"]
        /\ req' = [req EXCEPT ![w] = [@ EXCEPT !.key = a.key, !.refs = a.refs, !.todo = a.refs]]
     \/ /\ a.key = None \/ others \ {n} # {}
        /\ Goto(w, "failing")
  /\ Touch({})
  /\ UNCHANGED <<state, key, refs, sent, lost>>

\* An archive that the parser refuses.
ParseFails(w) ==
  /\ At(w, "parsing")
  /\ Goto(w, "failing")
  /\ Touch({})
  /\ UNCHANGED <<state, key, refs, sent, lost>>

\* One reference is looked up; ONBOARDED is not asked for.
LookUp(w, r, S) ==
  /\ \/ /\ Found(S, r) # {}
        /\ req' = [req EXCEPT ![w] = [@ EXCEPT !.todo = req[w].todo \ {r}]]
        /\ pc' = pc
     \/ Found(S, r) = {} /\ Goto(w, "failing")
  /\ Touch({})
  /\ UNCHANGED <<state, key, refs, sent, lost>>

TodoOf(w, kind) == {r \in req[w].todo : r.kind = kind}

LookUpVnf(w) ==
  /\ At(w, "lookup")
  /\ \E r \in TodoOf(w, "vnf") : LookUp(w, r, Vnfs)

\* Faulty: the PNFs are looked up among the VNF packages too, so any name will do.
LookUpPnfAnywhere(w) ==
  /\ At(w, "lookup") /\ TodoOf(w, "vnf") = {}
  /\ \E r \in TodoOf(w, "pnf") : LookUp(w, r, Packages)

LookUpPnf(w) ==
  /\ At(w, "lookup") /\ TodoOf(w, "vnf") = {}
  /\ \E r \in TodoOf(w, "pnf") : LookUp(w, r, Pnfds)

\* One update, and the onboarding notification; a deleted NSD has no row to update.
CommitNsd(w) ==
  LET n == req[w].info IN
  /\ At(w, "lookup") /\ n \in Nsds /\ req[w].todo = {}
  /\ IF Stored(n) THEN /\ state' = SetState(n, "ONBOARDED")
                       /\ key' = [key EXCEPT ![n] = req[w].key]
                       /\ refs' = [refs EXCEPT ![n] = req[w].refs]
                                       ELSE UNCHANGED <<state, key, refs>>
  /\ Finish(w)
  /\ Touch({n})
  /\ UNCHANGED <<sent, lost>>

\* The model and the nsdId of an earlier upload stay in the row.
NsdUploadFailed(w) ==
  /\ At(w, "failing") /\ req[w].info \in Nsds
  /\ state' = SetState(req[w].info, "CREATED")
  /\ Finish(w)
  /\ Touch({})
  /\ UNCHANGED <<key, refs, sent, lost>>

\* A PUT with no file part fails before any upload began.
RefuseNsd(n) ==
  /\ state' = SetState(n, "CREATED")
  /\ UNCHANGED <<key, refs, pc, req, since, sent, lost>>

-----------------------------------------------------------------------------
(* PUT pnfd_content: upload, then parse_pnfd_and_save *)

UploadPnfd(w, p) ==
  /\ Stored(p)
  /\ Start(w, "saving", p, None)
  /\ state' = SetState(p, "UPLOADING")
  /\ UNCHANGED <<key, refs, since, lost>>

ProcessPnfd(w) ==
  /\ At(w, "saving") /\ req[w].info \in Pnfds
  /\ \/ Goto(w, "parsing") /\ state' = SetState(req[w].info, "PROCESSING")
     \/ Goto(w, "failing") /\ UNCHANGED state
  /\ Touch({})
  /\ UNCHANGED <<key, refs, sent, lost>>

\* The pnfdId is the descriptor_id, or one of three entries of the metadata.
ParsePnfd(w, k) ==
  LET p == req[w].info  others == Holders(Pnfds, k) IN
  /\ At(w, "parsing") /\ p \in Pnfds
  /\ \/ /\ others = {} \/ p \in others
        /\ pc' = [pc EXCEPT ![w] = "committing"]
        /\ req' = [req EXCEPT ![w].key = k]
     \/ others \ {p} # {} /\ Goto(w, "failing")
  /\ Touch({})
  /\ UNCHANGED <<state, key, refs, sent, lost>>

CommitPnfd(w) ==
  LET p == req[w].info IN
  /\ At(w, "committing") /\ p \in Pnfds
  /\ state' = SetState(p, "ONBOARDED")
  /\ key' = IF Stored(p) THEN [key EXCEPT ![p] = req[w].key] ELSE key
  /\ Finish(w)
  /\ Touch({p})
  /\ UNCHANGED <<refs, sent, lost>>

\* Faulty: the constant of another column is written.
PnfdDisabled(w) ==
  /\ At(w, "failing") /\ req[w].info \in Pnfds
  /\ state' = SetState(req[w].info, "DISABLED")
  /\ Finish(w)
  /\ Touch({})
  /\ UNCHANGED <<key, refs, sent, lost>>

\* Faulty: the failure is answered and the PNFD left as it is.
PnfdLeftAsItIs(w) ==
  /\ At(w, "failing") /\ req[w].info \in Pnfds
  /\ Finish(w)
  /\ Touch({})
  /\ UNCHANGED <<state, key, refs, sent, lost>>

PnfdUploadFailed(w) ==
  /\ At(w, "failing") /\ req[w].info \in Pnfds
  /\ state' = SetState(req[w].info, "CREATED")
  /\ Finish(w)
  /\ Touch({})
  /\ UNCHANGED <<key, refs, sent, lost>>

RefusePnfd(p) ==
  /\ state' = SetState(p, "CREATED")
  /\ UNCHANGED <<key, refs, pc, req, since, sent, lost>>

-----------------------------------------------------------------------------
(* Deletes *)

Gone(i) ==
  /\ state' = [state EXCEPT ![i] = "GONE"]
  /\ key' = [key EXCEPT ![i] = None]

\* Asked for in any state, and whether or not it is in use.
DeleteNsd(n) ==
  /\ Stored(n)
  /\ Gone(n)
  /\ refs' = [refs EXCEPT ![n] = {}]
  /\ UNCHANGED <<pc, req, sent, lost>>
  /\ Touch({n})

DeletePnfd(w, p) ==
  /\ Stored(p)
  /\ Start(w, "del_scan", p, key[p])
  /\ UNCHANGED <<state, key, refs, since, lost>>

\* What was read of the NSDs before is read again.
ReadNsds(w) == since' = [since EXCEPT ![w] = @ \ Nsds]

\* Faulty: only the NSDs that are ONBOARDED are scanned.
ScanOnboardedOnly(w) ==
  /\ At(w, "del_scan") /\ req[w].info \in Pnfds
  /\ \A n \in Nsds : state[n] = "ONBOARDED" =>
       \A r \in PnfRefs(n) : r.id # None /\ r.id # req[w].key
  /\ Goto(w, "del_row")
  /\ ReadNsds(w)
  /\ UNCHANGED <<state, key, refs, sent, lost>>

\* Refused when the model of a stored NSD has a PNF with this id, and with a
\* KeyError when it has one with no id: properties["id"] is not a get().
ScanForPnfd(w) ==
  /\ At(w, "del_scan") /\ req[w].info \in Pnfds
  /\ IF \A n \in Nsds : \A r \in PnfRefs(n) : r.id # None /\ r.id # req[w].key
     THEN Goto(w, "del_row") /\ ReadNsds(w)
     ELSE Finish(w) /\ Touch({})
  /\ UNCHANGED <<state, key, refs, sent, lost>>

DelPnfdRow(w) ==
  LET p == req[w].info IN
  /\ At(w, "del_row") /\ p \in Pnfds
  /\ IF Stored(p) THEN Gone(p) ELSE UNCHANGED <<state, key>>
  /\ Finish(w)
  /\ Touch({p})
  /\ UNCHANGED <<refs, sent, lost>>

DeleteVnf(w, v) ==
  /\ Stored(v)
  /\ Start(w, "del_scan", v, key[v])
  /\ UNCHANGED <<state, key, refs, since, lost>>

\* The VNF scan compares, and insists on, properties["descriptor_id"].
ScanForVnf(w) ==
  /\ At(w, "del_scan") /\ req[w].info \in Vnfs
  /\ IF \A n \in Nsds : \A r \in VnfRefs(n) :
          r.descriptor_id # None /\ r.descriptor_id # req[w].key
     THEN Goto(w, "del_row") /\ ReadNsds(w)
     ELSE Finish(w) /\ Touch({})
  /\ UNCHANGED <<state, key, refs, sent, lost>>

DelVnfRow(w) ==
  LET v == req[w].info IN
  /\ At(w, "del_row") /\ v \in Vnfs
  /\ IF Stored(v) THEN Gone(v) ELSE UNCHANGED <<state, key>>
  /\ Finish(w)
  /\ Touch({v})
  /\ UNCHANGED <<refs, sent, lost>>

\* The delete of a VNF package by SDC scans nothing.
NfPkgDelete(v) ==
  /\ Stored(v)
  /\ Gone(v)
  /\ UNCHANGED <<refs, pc, req, sent, lost>>
  /\ Touch({v})

\* The on-boarding of a VNF package, of which VnfPackage has the steps; one that
\* is on-boarded already may be given another VNFD.
VnfOnboarded(v, k) ==
  /\ state[v] # "GONE"
  /\ \A u \in Vnfs : key[u] # k
  /\ state' = [state EXCEPT ![v] = "ONBOARDED"]
  /\ key' = [key EXCEPT ![v] = k]
  /\ UNCHANGED <<refs, pc, req, sent, lost>>
  /\ Touch({v})

-----------------------------------------------------------------------------

\* Labels of a handler that will yet take its resource out of UPLOADING and PROCESSING.
Uploading == {"saving", "parsing", "lookup", "committing", "failing"}

\* uwsgi kills a process, or it is restarted: its handlers stop where they are.
Crash(w) ==
  /\ ~At(w, "idle")
  /\ IF pc[w] \in Uploading THEN /\ Cardinality(lost) < MaxLost
                               /\ lost' = lost \cup {req[w].info}
                          ELSE lost' = lost
  /\ Finish(w)
  /\ Touch({})
  /\ UNCHANGED <<state, key, refs, sent>>

NsdRequest(n) ==
  \/ CreateNsd(n) \/ RefuseNsd(n) \/ DeleteNsd(n)
  \/ \E w \in Workers : UploadNsd(w, n)

PnfdRequest(p) ==
  \/ CreatePnfd(p) \/ RefusePnfd(p)
  \/ \E w \in Workers : UploadPnfd(w, p) \/ DeletePnfd(w, p)

VnfRequest(v) ==
  \/ NfPkgDelete(v)
  \/ \E k \in DescKeys : VnfOnboarded(v, k)
  \/ \E w \in Workers : DeleteVnf(w, v)

Step(w) ==
  \/ ProcessNsd(w) \/ (\E a \in Archives : ParseNsd(w, a)) \/ ParseFails(w)
  \/ LookUpVnf(w) \/ LookUpPnf(w)
  \/ CommitNsd(w) \/ NsdUploadFailed(w)
  \/ ProcessPnfd(w) \/ (\E k \in DescKeys : ParsePnfd(w, k))
  \/ CommitPnfd(w) \/ PnfdUploadFailed(w)
  \/ ScanForPnfd(w) \/ DelPnfdRow(w) \/ ScanForVnf(w) \/ DelVnfRow(w)

Next ==
  \/ \E n \in Nsds : NsdRequest(n)
  \/ \E p \in Pnfds : PnfdRequest(p)
  \/ \E v \in Vnfs : VnfRequest(v)
  \/ \E w \in Workers : Step(w) \/ Crash(w)

Spec == Init /\ [][Next]_vars

-----------------------------------------------------------------------------

TypeOK ==
  /\ state \in [Infos -> NsdInfo \cup {"UNBORN", "GONE"}]
  /\ key \in [Infos -> NsdKeys \cup DescKeys \cup {None}]
  /\ NSPackageModel
  /\ PnfPackageModel
  /\ pc \in [Workers -> Label]
  /\ req \in [Workers -> Request]
  /\ since \in [Workers -> SUBSET Infos]
  /\ sent \in 0..MaxSent
  /\ lost \in SUBSET Infos

\* Worker w is at label l on resource i and leaves it in this step.
Leaves(w, l, i) == At(w, l) /\ req[w].info = i /\ pc'[w] # l

Commits(w, i) == req[w].info = i /\ pc[w] \in {"lookup", "committing"} /\ pc'[w] = "idle"

\* The delete scan compares another property than the upload looked up.
Mismatched(r) == r.kind = "pnf" /\ r.descriptor_id # None /\ r.descriptor_id # r.id

\* A delete spares the VNF package or PNFD that a query shows for a stored NSD.
\* It cuts the reference only when the NSD was on-boarded or the package on-boarded
\* anew after the scan, when the reference has both an id and another descriptor_id,
\* or when it names the package by package id.  SDC's delete of a VNF package cuts
\* it always.
DeleteSparesReferences ==
  [][\A w \in Workers, p \in Packages, n \in Nsds :
       Leaves(w, "del_row", p) /\ state'[p] = "GONE" =>
         \A r \in refs[n] : p \in FillRespData(r) =>
           {n, p} \cap since[w] # {} \/ Mismatched(r) \/ key[p] # LookupKey(r)]_vars

\* An nsdId, like a pnfdId, comes to be held by two rows only when the other row,
\* or this one, was on-boarded between the check of an upload and its update.
KeyClashIsARace ==
  [][\A i \in Nsds \cup Pnfds : \A m \in Holders(IF i \in Nsds THEN Nsds ELSE Pnfds, key'[i]) :
       m # i /\ key'[i] # key[i] =>
         \E w \in Workers : Commits(w, i) /\ {i, m} \cap since[w] # {}]_vars

\* Each VNF and PNF of an NSD that is about to be on-boarded leads to a package,
\* unless a package was deleted or on-boarded anew since the handler's check.
LookedUpNsdResolves ==
  \A w \in Workers :
    At(w, "lookup") /\ req[w].todo = {} /\ Packages \cap since[w] = {} =>
      \A r \in req[w].refs : FillRespData(r) # {}

\* An NSD or PNFD in UPLOADING or PROCESSING has a handler that will take it out
\* of that state, unless a handler of it was killed.
UploadIsAttended ==
  \A i \in (Nsds \cup Pnfds) \ lost :
    state[i] \in {"UPLOADING", "PROCESSING"} =>
      \E w \in Workers : req[w].info = i /\ pc[w] \in Uploading

=============================================================================
