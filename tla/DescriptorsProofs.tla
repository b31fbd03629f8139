---------------------------- MODULE DescriptorsProofs ----------------------------
(***************************************************************************)
(* Proofs about Descriptors, for every set of resources, descriptor        *)
(* identifiers, archives and handlers.                                     *)
(***************************************************************************)
EXTENDS Descriptors, TLAPS

\* What a handler works on at each step.
WorkOK(w) ==
  /\ pc[w] \in Uploading => req[w].info \in Nsds \cup Pnfds
  /\ At(w, "lookup") => req[w].info \in Nsds /\ req[w].key \in NsdKeys
  /\ At(w, "committing") => req[w].info \in Pnfds /\ req[w].key \in DescKeys
  /\ pc[w] \in {"del_scan", "del_row"} => req[w].info \in Packages

\* A resource without a row has no identifier.
KeyOK == \A i \in Infos : ~Stored(i) => key[i] = None

TypeInv == TypeOK /\ KeyOK /\ \A w \in Workers : WorkOK(w)

Kind(r) == IF r.kind = "vnf" THEN Vnfs ELSE Pnfds

\* The references that a handler has looked up lead to a package.
FoundOK(w) ==
  At(w, "lookup") /\ Packages \cap since[w] = {} =>
    \A r \in req[w].refs \ req[w].todo : Found(Kind(r), r) # {}

\* No other row holds the identifier that a handler is about to write, unless this row
\* held it at the check.
UniqueOK(w) ==
  LET i == req[w].info  S == IF i \in Nsds THEN Nsds ELSE Pnfds IN
  pc[w] \in {"lookup", "committing"} =>
    \A m \in Holders(S, req[w].key) :
      m = i \/ {i, m} \cap since[w] # {} \/ key[i] = req[w].key

\* The scan for the package p, with identifier k, passes over the NSD n.
Spares(n, p, k) ==
  IF p \in Vnfs THEN \A r \in VnfRefs(n) : r.descriptor_id # None /\ r.descriptor_id # k
                ELSE \A r \in PnfRefs(n) : r.id # None /\ r.id # k

\* A handler that deletes knows the identifier of its package, and has found no NSD
\* with it.
ScanOK(w) ==
  LET p == req[w].info  k == req[w].key IN
  /\ pc[w] \in {"del_scan", "del_row"} => p \in since[w] \/ key[p] = k
  /\ At(w, "del_row") => \A n \in Nsds \ since[w] : Spares(n, p, k)

HandlerOK(w) == FoundOK(w) /\ UniqueOK(w) /\ ScanOK(w)

IInv ==
  /\ TypeInv
  /\ UploadIsAttended
  /\ \A w \in Workers : HandlerOK(w)

-----------------------------------------------------------------------------
(* A step tells the handlers that go on of what it wrote. *)

Told(u) ==
  /\ \A i \in Infos : key'[i] = key[i] \/ i \in since'[u]
  /\ \A i \in Infos : Stored(i) => Stored(i)' \/ i \in since'[u]
  /\ \A n \in Nsds : refs'[n] = refs[n] \/ n \in since'[u]

Kept(u) ==
  /\ pc'[u] = pc[u] /\ req'[u] = req[u]
  /\ pc[u] \in Deciding => since[u] \subseteq since'[u] /\ Told(u)

\* A lookup that found something does so again, until one of the packages is written.
LEMMA FoundAgain ==
  ASSUME TypeOK, NEW u \in Workers, Told(u), Packages \cap since'[u] = {},
         NEW r \in Ref, Found(Kind(r), r) # {}
  PROVE  (Found(Kind(r), r) # {})'
<1> DEFINE S == Kind(r)
           k == LookupKey(r)
<1>1. S \subseteq Packages /\ S \subseteq Infos
  BY DEF Kind, Packages, Infos
<1> HIDE DEF S, k
<1>2. \A i \in S : key'[i] = key[i] /\ (Stored(i) => Stored(i)')
  BY <1>1 DEF Told
<1>3. CASE Holders(S, k) # {}
  <2>1. Holders(S, k)' # {}
    BY <1>2, <1>3 DEF Holders
  <2>2. QED
    BY <2>1 DEF Found, S, k
<1>4. CASE \E i \in S : Stored(i) /\ i = k
  <2>1. \E i \in S : Stored(i)' /\ i = k
    BY <1>2, <1>4
  <2>2. QED
    BY <2>1 DEF Found, S, k
<1>5. QED
  BY <1>3, <1>4 DEF Found, S, k

LEMMA KeptHandlerOK ==
  ASSUME TypeInv, NEW u \in Workers, HandlerOK(u), Kept(u)
  PROVE  WorkOK(u)' /\ HandlerOK(u)'
<1>1. TypeOK /\ WorkOK(u) /\ KeyOK
  BY DEF TypeInv
<1>2. WorkOK(u)'
  BY <1>1 DEF WorkOK, Kept, At
<1>3. FoundOK(u)'
  <2>1. SUFFICES ASSUME At(u, "lookup")', (Packages \cap since[u] = {})',
                        NEW r \in req[u].refs \ req[u].todo
                 PROVE  (Found(Kind(r), r) # {})'
    BY DEF FoundOK, Kept, Kind
  <2>2. At(u, "lookup") /\ Packages \cap since[u] = {} /\ Told(u)
    BY <2>1 DEF Kept, At, Deciding
  <2>3. r \in Ref
    BY <1>1, <2>1 DEF TypeOK, Request
  <2>4. Found(Kind(r), r) # {}
    BY <2>1, <2>2 DEF HandlerOK, FoundOK
  <2>5. QED
    BY <1>1, <2>1, <2>2, <2>3, <2>4, FoundAgain
<1>4. UniqueOK(u)'
  <2> DEFINE i == req[u].info
             k == req[u].key
             S == IF i \in Nsds THEN Nsds ELSE Pnfds
  <2>1. SUFFICES ASSUME pc[u] \in {"lookup", "committing"}, NEW m \in Holders(S, k)'
                 PROVE  m = i \/ {i, m} \cap since'[u] # {} \/ key'[i] = k
    BY DEF UniqueOK, Kept
  <2>2. Told(u) /\ since[u] \subseteq since'[u]
    BY <2>1 DEF Kept, Deciding
  <2>3. S \subseteq Infos /\ i \in Infos /\ req'[u] = req[u]
    BY <1>1, <2>1 DEF WorkOK, At, Infos, Packages, Kept
  <2>4. m \in S /\ key'[m] = k /\ k # None
    BY <2>1, <2>3 DEF Holders
  <2>5. CASE key'[m] = key[m]
    <3>1. m \in Holders(S, k)
      BY <1>1, <2>3, <2>4, <2>5 DEF Holders, KeyOK
    <3>2. m = i \/ {i, m} \cap since[u] # {} \/ key[i] = k
      BY <2>1, <3>1 DEF HandlerOK, UniqueOK
    <3>3. QED
      BY <2>2, <2>3, <3>2 DEF Told
  <2>6. QED
    BY <2>2, <2>3, <2>4, <2>5 DEF Told
<1>5. ScanOK(u)'
  <2>1. ASSUME pc[u] \in {"del_scan", "del_row"}
        PROVE  req[u].info \in since'[u] \/ key'[req[u].info] = req[u].key
    <3>1. req[u].info \in Infos
      BY <1>1, <2>1 DEF WorkOK, Infos, Packages
    <3>2. QED
      BY <2>1, <3>1 DEF Kept, Told, Deciding, HandlerOK, ScanOK
  <2>2. ASSUME At(u, "del_row"), NEW n \in Nsds \ since'[u]
        PROVE  Spares(n, req[u].info, req[u].key)'
    <3>1. refs'[n] = refs[n] /\ Spares(n, req[u].info, req[u].key) /\ req'[u] = req[u]
      BY <2>2 DEF Kept, Told, Deciding, HandlerOK, ScanOK, At
    <3>2. QED
      BY <3>1 DEF Spares, VnfRefs, PnfRefs
  <2>3. QED
    BY <2>1, <2>2 DEF ScanOK, Kept, At
<1>6. QED
  BY <1>2, <1>3, <1>4, <1>5 DEF HandlerOK

-----------------------------------------------------------------------------
(* The parts of a step *)

\* What a step of handler w comes to.
StepOK(w) ==
  /\ TypeOK' /\ KeyOK' /\ UploadIsAttended'
  /\ \A u \in Workers \ {w} : Kept(u)
  /\ WorkOK(w)' /\ HandlerOK(w)'

\* Handler w, and it alone, goes to label l with the request r.
Moves(w, l, r) ==
  /\ pc' = [pc EXCEPT ![w] = l]
  /\ req' = [req EXCEPT ![w] = r]

LEMMA Moved ==
  ASSUME TypeOK, NEW w \in Workers, NEW l \in Label, NEW r \in Request, Moves(w, l, r)
  PROVE  /\ pc' \in [Workers -> Label] /\ req' \in [Workers -> Request]
         /\ pc'[w] = l /\ req'[w] = r
         /\ \A u \in Workers \ {w} : pc'[u] = pc[u] /\ req'[u] = req[u]
BY DEF Moves, TypeOK

LEMMA GotoMoves ==
  ASSUME TypeOK, NEW w \in Workers, NEW l, Goto(w, l)
  PROVE  Moves(w, l, req[w]) /\ req[w] \in Request
BY DEF Goto, Moves, TypeOK

LEMMA FinishMoves ==
  ASSUME NEW w \in Workers, Finish(w)
  PROVE  Moves(w, "idle", NoReq) /\ NoReq \in Request
BY DEF Finish, Moves, NoReq, Request

LEMMA StartMoves ==
  ASSUME TypeOK, NEW w \in Workers, NEW l, NEW i \in Infos,
         NEW k \in NsdKeys \cup DescKeys \cup {None}, Start(w, l, i, k)
  PROVE  \E r \in Request : Moves(w, l, r) /\ r.info = i /\ r.key = k
<1> DEFINE r == [req[w] EXCEPT !.info = i, !.key = k]
<1>1. r \in Request /\ r.info = i /\ r.key = k
  BY DEF TypeOK, Request
<1>2. req' = [req EXCEPT ![w] = r] /\ pc' = [pc EXCEPT ![w] = l]
  BY DEF Start
<1> HIDE DEF r
<1>3. QED
  BY <1>1, <1>2 DEF Moves

\* What the history variable says when only the resources of S are written.
LEMMA TouchKept ==
  ASSUME TypeOK, NEW w \in Workers, NEW l \in Label, NEW r \in Request, Moves(w, l, r),
         NEW S \in SUBSET Infos, Touch(S),
         \A i \in Infos \ S : key'[i] = key[i] /\ (Stored(i) => Stored(i)'),
         \A n \in Nsds \ S : refs'[n] = refs[n]
  PROVE  /\ since' \in [Workers -> SUBSET Infos]
         /\ l \in Deciding => since'[w] = since[w] \cup S
         /\ \A u \in Workers \ {w} : Kept(u)
<1>1. since' \in [Workers -> SUBSET Infos]
  BY DEF Touch, TypeOK
<1>2. /\ pc'[w] = l
      /\ \A u \in Workers \ {w} : pc'[u] = pc[u] /\ req'[u] = req[u]
  BY Moved
<1>3. \A u \in Workers : pc'[u] \in Deciding => since'[u] = since[u] \cup S
  BY DEF Touch
<1>4. \A u \in Workers \ {w} : Kept(u)
  BY <1>2, <1>3 DEF Kept, Told
<1>5. QED
  BY <1>1, <1>2, <1>3, <1>4

LEMMA Marked ==
  ASSUME TypeOK, KeyOK, NEW i \in Nsds \cup Pnfds,
         NEW s \in {"CREATED", "UPLOADING", "PROCESSING", "ONBOARDED"}, state' = SetState(i, s)
  PROVE  /\ state' \in [Infos -> NsdInfo \cup {"UNBORN", "GONE"}]
         /\ \A j \in Infos : Stored(j)' <=> Stored(j)
         /\ \A j \in Infos : j # i => state'[j] = state[j]
         /\ Stored(i) => state'[i] = s
         /\ ~Stored(i) => state'[i] = state[i]
<1>1. i \in Infos
  BY DEF Infos
<1>2. QED
  BY <1>1 DEF SetState, Stored, TypeOK, NsdInfo

\* The tables of types that do not follow from the columns one by one.
LEMMA TypeFromColumns ==
  ASSUME state' \in [Infos -> NsdInfo \cup {"UNBORN", "GONE"}],
         key' \in [Infos -> NsdKeys \cup DescKeys \cup {None}],
         \A n \in Nsds : key'[n] \in NsdKeys \cup {None},
         \A p \in Pnfds : key'[p] \in DescKeys \cup {None},
         refs' \in [Nsds -> SUBSET Ref],
         pc' \in [Workers -> Label], req' \in [Workers -> Request],
         since' \in [Workers -> SUBSET Infos], sent' \in 0..MaxSent, lost' \in SUBSET Infos
  PROVE  TypeOK'
BY DEF TypeOK, NSPackageModel, PnfPackageModel, NsdInfo, PnfdInfo, Infos, Packages

\* The upload that a handler leaves is another's, or no longer one.
LEMMA StillAttended ==
  ASSUME UploadIsAttended, NEW w \in Workers, lost \subseteq lost',
         \A u \in Workers \ {w} : pc'[u] = pc[u] /\ req'[u] = req[u],
         \A i \in (Nsds \cup Pnfds) \ lost' : state'[i] \in {"UPLOADING", "PROCESSING"} =>
           \/ req'[w].info = i /\ pc'[w] \in Uploading
           \/ /\ state[i] \in {"UPLOADING", "PROCESSING"}
              /\ ~(req[w].info = i /\ pc[w] \in Uploading)
  PROVE  UploadIsAttended'
BY DEF UploadIsAttended

LEMMA IdleOK ==
  ASSUME NEW w \in Workers, pc'[w] = "idle"
  PROVE  WorkOK(w)' /\ HandlerOK(w)'
BY DEF WorkOK, HandlerOK, FoundOK, UniqueOK, ScanOK, At, Uploading

LEMMA AheadOK ==
  ASSUME NEW w \in Workers, pc'[w] \in {"saving", "parsing", "failing"},
         req'[w].info \in Nsds \cup Pnfds
  PROVE  WorkOK(w)' /\ HandlerOK(w)'
BY DEF WorkOK, HandlerOK, FoundOK, UniqueOK, ScanOK, At, Uploading

\* A step that writes no row but the onboardingState of the handler's own resource, to s.
LEMMA MarkStep ==
  ASSUME IInv, NEW w \in Workers, NEW l \in Label, NEW r \in Request, Moves(w, l, r),
         since' \in [Workers -> SUBSET Infos], \A u \in Workers \ {w} : Kept(u),
         sent' \in 0..MaxSent, UNCHANGED <<key, refs, lost>>,
         NEW s \in {"CREATED", "UPLOADING", "PROCESSING", "ONBOARDED"},
         NEW i \in Nsds \cup Pnfds,
         state' = state \/ state' = SetState(i, s),
         pc[w] \in Uploading => i = req[w].info,
         \/ r.info = i /\ l \in Uploading
         \/ state' = SetState(i, s) /\ s \in {"CREATED", "ONBOARDED"}
  PROVE  TypeOK' /\ KeyOK' /\ UploadIsAttended'
<1>1. TypeOK /\ KeyOK /\ WorkOK(w) /\ UploadIsAttended
  BY DEF IInv, TypeInv
<1>2. /\ pc' \in [Workers -> Label] /\ req' \in [Workers -> Request]
      /\ pc'[w] = l /\ req'[w] = r
      /\ \A u \in Workers \ {w} : pc'[u] = pc[u] /\ req'[u] = req[u]
  BY <1>1, Moved
<1>3. CASE state' = state
  <2>1. TypeOK'
    BY <1>1, <1>2, <1>3, TypeFromColumns DEF TypeOK, NSPackageModel, PnfPackageModel
  <2>2. KeyOK'
    BY <1>1, <1>3 DEF KeyOK, Stored
  <2>3. (l \in Uploading /\ r.info = i) \/ state'[i] \notin {"UPLOADING", "PROCESSING"}
    BY <1>1, <1>3 DEF SetState, TypeOK, Infos, Stored
  <2>4. UploadIsAttended'
    BY <1>1, <1>2, <1>3, <2>3, StillAttended
  <2>5. QED
    BY <2>1, <2>2, <2>4
<1>4. CASE state' = SetState(i, s)
  <2>1. /\ state' \in [Infos -> NsdInfo \cup {"UNBORN", "GONE"}]
        /\ \A j \in Infos : Stored(j)' <=> Stored(j)
        /\ \A j \in Infos : j # i => state'[j] = state[j]
        /\ Stored(i) => state'[i] = s
        /\ ~Stored(i) => state'[i] = state[i]
    BY <1>1, <1>4, Marked
  <2>2. TypeOK'
    BY <1>1, <1>2, <2>1, TypeFromColumns DEF TypeOK, NSPackageModel, PnfPackageModel
  <2>3. KeyOK'
    BY <1>1, <2>1 DEF KeyOK
  <2>4. ASSUME NEW j \in Nsds \cup Pnfds, state'[j] \in {"UPLOADING", "PROCESSING"}
        PROVE  \/ req'[w].info = j /\ pc'[w] \in Uploading
               \/ /\ state[j] \in {"UPLOADING", "PROCESSING"}
                  /\ ~(req[w].info = j /\ pc[w] \in Uploading)
    BY <1>2, <2>1, <2>4 DEF Infos, Stored
  <2>5. UploadIsAttended'
    BY <1>1, <1>2, <2>4, StillAttended
  <2>6. QED
    BY <2>2, <2>3, <2>5
<1>5. QED
  BY <1>3, <1>4

-----------------------------------------------------------------------------
(* Uploads *)

LEMMA UploadStep ==
  ASSUME IInv, NEW w \in Workers, NEW i \in Nsds \cup Pnfds, Stored(i),
         Start(w, "saving", i, None), state' = SetState(i, "UPLOADING"),
         UNCHANGED <<key, refs, since, lost>>
  PROVE  StepOK(w)
<1>1. TypeOK /\ KeyOK /\ i \in Infos /\ "saving" \in Label
  BY DEF IInv, TypeInv, Infos, Packages, Label
<1>2. PICK r \in Request : Moves(w, "saving", r) /\ r.info = i
  BY <1>1, StartMoves
<1>3. /\ pc'[w] = "saving" /\ req'[w] = r
      /\ \A u \in Workers \ {w} : pc'[u] = pc[u] /\ req'[u] = req[u]
  BY <1>1, <1>2, Moved
<1>4. \A u \in Workers \ {w} : Kept(u)
  BY <1>1, <1>3, Marked DEF Kept, Told
<1>5. pc[w] \notin Uploading /\ sent' \in 0..MaxSent /\ since' \in [Workers -> SUBSET Infos]
  BY <1>1, BoundAssumption DEF Start, Uploading, TypeOK
<1>6. TypeOK' /\ KeyOK' /\ UploadIsAttended'
  BY <1>1, <1>2, <1>4, <1>5, MarkStep DEF Uploading
<1>7. QED
  BY <1>2, <1>3, <1>4, <1>6, AheadOK DEF StepOK

\* Between two steps of an upload, and on to its failure.
LEMMA AheadStep ==
  ASSUME IInv, NEW w \in Workers, pc[w] \in Uploading, NEW l \in {"parsing", "failing"},
         Goto(w, l), Touch({}), UNCHANGED <<key, refs, sent, lost>>,
         state' = state \/ state' = SetState(req[w].info, "PROCESSING")
  PROVE  StepOK(w)
<1> DEFINE i == req[w].info
<1>1. TypeOK /\ KeyOK /\ i \in Nsds \cup Pnfds /\ l \in Label
  BY DEF IInv, TypeInv, WorkOK, Label
<1>2. Moves(w, l, req[w]) /\ req[w] \in Request
  BY <1>1, GotoMoves
<1>3. pc'[w] = l /\ req'[w] = req[w]
  BY <1>1, <1>2, Moved
<1>4. \A j \in Infos : Stored(j) => Stored(j)'
  BY <1>1, Marked DEF Stored
<1>5. since' \in [Workers -> SUBSET Infos] /\ \A u \in Workers \ {w} : Kept(u)
  BY <1>1, <1>2, <1>4, TouchKept
<1>6. TypeOK' /\ KeyOK' /\ UploadIsAttended'
  BY <1>1, <1>2, <1>5, MarkStep DEF Uploading, TypeOK
<1>7. QED
  BY <1>1, <1>3, <1>5, <1>6, AheadOK DEF StepOK

\* The end of an upload: a failure, or the commit of a resource that was deleted.
LEMMA FailStep ==
  ASSUME IInv, NEW w \in Workers, pc[w] \in Uploading, Finish(w), NEW S \in SUBSET Infos,
         Touch(S), UNCHANGED <<key, refs, sent, lost>>,
         NEW s \in {"CREATED", "ONBOARDED"}, state' = SetState(req[w].info, s)
  PROVE  StepOK(w)
<1> DEFINE i == req[w].info
<1>1. TypeOK /\ KeyOK /\ i \in Nsds \cup Pnfds /\ "idle" \in Label
  BY DEF IInv, TypeInv, WorkOK, Label
<1>2. Moves(w, "idle", NoReq) /\ NoReq \in Request
  BY FinishMoves
<1>3. pc'[w] = "idle"
  BY <1>1, <1>2, Moved
<1>4. \A j \in Infos : Stored(j) => Stored(j)'
  BY <1>1, Marked DEF Stored
<1>5. since' \in [Workers -> SUBSET Infos] /\ \A u \in Workers \ {w} : Kept(u)
  BY <1>1, <1>2, <1>4, TouchKept
<1>6. TypeOK' /\ KeyOK' /\ UploadIsAttended'
  BY <1>1, <1>2, <1>5, MarkStep DEF TypeOK
<1>7. QED
  BY <1>3, <1>5, <1>6, IdleOK DEF StepOK

\* The check of a descriptor found no other row with its identifier, or this one first.
LEMMA CheckStep ==
  ASSUME IInv, NEW w \in Workers, At(w, "parsing"),
         NEW l \in {"lookup", "committing"}, NEW r \in Request, Moves(w, l, r),
         r.info = req[w].info,
         l = "lookup" => r.info \in Nsds /\ r.key \in NsdKeys /\ r.todo = r.refs,
         l = "committing" => r.info \in Pnfds /\ r.key \in DescKeys,
         LET S == IF r.info \in Nsds THEN Nsds ELSE Pnfds IN
           Holders(S, r.key) = {} \/ r.info \in Holders(S, r.key),
         Touch({}), UNCHANGED <<state, key, refs, sent, lost>>
  PROVE  StepOK(w)
<1>1. TypeOK /\ KeyOK /\ WorkOK(w) /\ l \in Label /\ req[w].info \in Nsds \cup Pnfds
  BY DEF IInv, TypeInv, Label, WorkOK, At, Uploading
<1>2. pc'[w] = l /\ req'[w] = r
  BY <1>1, Moved
<1>3. since' \in [Workers -> SUBSET Infos] /\ \A u \in Workers \ {w} : Kept(u)
  BY <1>1, TouchKept DEF Stored
<1>4. TypeOK' /\ KeyOK' /\ UploadIsAttended'
  BY <1>1, <1>3, MarkStep DEF Uploading, TypeOK
<1>5. WorkOK(w)'
  BY <1>1, <1>2 DEF WorkOK, At, Uploading
<1>6. FoundOK(w)' /\ ScanOK(w)'
  BY <1>2 DEF FoundOK, ScanOK, At
<1>7. UniqueOK(w)'
  BY <1>2 DEF UniqueOK, Holders, Stored
<1>8. QED
  BY <1>3, <1>4, <1>5, <1>6, <1>7 DEF StepOK, HandlerOK

LEMMA ParseNsdStep ==
  ASSUME IInv, NEW w \in Workers, NEW a \in Archives, ParseNsd(w, a)
  PROVE  StepOK(w)
<1> DEFINE n == req[w].info
           r == [req[w] EXCEPT !.key = a.key, !.refs = a.refs, !.todo = a.refs]
<1>1. TypeOK /\ n \in Nsds /\ At(w, "parsing") /\ Touch({})
      /\ UNCHANGED <<state, key, refs, sent, lost>>
  BY DEF IInv, TypeInv, ParseNsd
<1>2. CASE Goto(w, "failing")
  BY <1>1, <1>2, AheadStep DEF At, Uploading
<1>3. CASE /\ a.key # None /\ (Holders(Nsds, a.key) = {} \/ n \in Holders(Nsds, a.key))
           /\ pc' = [pc EXCEPT ![w] = "lookup"] /\ req' = [req EXCEPT ![w] = r]
  <2>1. a.key \in NsdKeys \cup {None} /\ a.refs \in SUBSET Ref
    BY ArchiveAssumption DEF Archive
  <2>2. r \in Request /\ r.info = n /\ r.key = a.key /\ r.refs = a.refs /\ r.todo = a.refs
    BY <1>1, <2>1 DEF TypeOK, Request
  <2> HIDE DEF r
  <2>3. Moves(w, "lookup", r)
    BY <1>3 DEF Moves
  <2>4. QED
    BY <1>1, <1>3, <2>1, <2>2, <2>3, CheckStep
<1>4. QED
  BY <1>2, <1>3 DEF ParseNsd

LEMMA ParsePnfdStep ==
  ASSUME IInv, NEW w \in Workers, NEW k \in DescKeys, ParsePnfd(w, k)
  PROVE  StepOK(w)
<1> DEFINE p == req[w].info
           r == [req[w] EXCEPT !.key = k]
<1>1. TypeOK /\ p \in Pnfds /\ At(w, "parsing") /\ Touch({})
      /\ UNCHANGED <<state, key, refs, sent, lost>>
  BY DEF IInv, TypeInv, ParsePnfd
<1>2. CASE Goto(w, "failing")
  BY <1>1, <1>2, AheadStep DEF At, Uploading
<1>3. CASE /\ Holders(Pnfds, k) = {} \/ p \in Holders(Pnfds, k)
           /\ pc' = [pc EXCEPT ![w] = "committing"] /\ req' = [req EXCEPT ![w].key = k]
  <2>1. r \in Request /\ r.info = p /\ r.key = k
    BY <1>1 DEF TypeOK, Request
  <2>2. req' = [req EXCEPT ![w] = r]
    BY <1>3
  <2> HIDE DEF r
  <2>3. Moves(w, "committing", r) /\ p \notin Nsds
    BY <1>1, <1>3, <2>2, ResourceAssumption DEF Moves, Packages
  <2>4. QED
    BY <1>1, <1>3, <2>1, <2>3, CheckStep
<1>4. QED
  BY <1>2, <1>3 DEF ParsePnfd

LEMMA LookUpStep ==
  ASSUME IInv, NEW w \in Workers, At(w, "lookup"),
         NEW x \in req[w].todo, LookUp(w, x, Kind(x))
  PROVE  StepOK(w)
<1> DEFINE r == [req[w] EXCEPT !.todo = req[w].todo \ {x}]
<1>1. /\ TypeOK /\ WorkOK(w) /\ HandlerOK(w)
      /\ UNCHANGED <<state, key, refs, sent, lost>> /\ Touch({})
  BY DEF IInv, TypeInv, LookUp
<1>2. CASE Goto(w, "failing")
  BY <1>1, <1>2, AheadStep DEF At, Uploading
<1>3. CASE Found(Kind(x), x) # {} /\ req' = [req EXCEPT ![w] = r] /\ pc' = pc
  <2>1. /\ r \in Request /\ r.info = req[w].info /\ r.key = req[w].key
        /\ r.refs = req[w].refs /\ r.todo = req[w].todo \ {x}
    BY <1>1 DEF TypeOK, Request
  <2> HIDE DEF r
  <2>2. Moves(w, "lookup", r) /\ "lookup" \in Label
    BY <1>1, <1>3 DEF Moves, At, TypeOK, Label
  <2>3. pc'[w] = "lookup" /\ req'[w] = r /\ pc[w] = "lookup"
    BY <1>1, <2>1, <2>2, Moved DEF At
  <2>4. /\ since' \in [Workers -> SUBSET Infos] /\ \A u \in Workers \ {w} : Kept(u)
        /\ since'[w] = since[w]
    <3>1. {} \in SUBSET Infos /\ "lookup" \in Deciding
      BY DEF Deciding
    <3>2. \A i \in Infos : Stored(i) => Stored(i)'
      BY <1>1 DEF Stored
    <3>3. /\ since' \in [Workers -> SUBSET Infos] /\ \A u \in Workers \ {w} : Kept(u)
          /\ since'[w] = since[w] \cup {}
      BY <1>1, <2>1, <2>2, <3>1, <3>2, TouchKept
    <3>4. QED
      BY <3>3
  <2>5. TypeOK' /\ KeyOK' /\ UploadIsAttended'
    BY <1>1, <2>1, <2>2, <2>3, <2>4, MarkStep DEF Uploading, TypeOK, IInv, TypeInv, WorkOK
  <2>6. WorkOK(w)'
    BY <1>1, <2>1, <2>3 DEF WorkOK, At, Uploading
  <2>7. \A S, y : Found(S, y)' = Found(S, y)
    BY <1>1 DEF Found, Holders, Stored
  <2>8. FoundOK(w)'
    BY <1>1, <1>3, <2>1, <2>3, <2>4, <2>7 DEF HandlerOK, FoundOK, At, Kind
  <2>9. UniqueOK(w)' /\ ScanOK(w)'
    BY <1>1, <2>1, <2>3, <2>4 DEF HandlerOK, UniqueOK, ScanOK, Holders, Stored, At
  <2>10. QED
    BY <2>4, <2>5, <2>6, <2>8, <2>9 DEF StepOK, HandlerOK
<1>4. QED
  BY <1>2, <1>3 DEF LookUp

\* The end of an upload that succeeds: the row of the handler's resource is written.
LEMMA CommitStep ==
  ASSUME IInv, NEW w \in Workers, CommitNsd(w) \/ CommitPnfd(w), Stored(req[w].info)
  PROVE  StepOK(w)
<1> DEFINE i == req[w].info
<1>1. TypeOK /\ KeyOK /\ WorkOK(w) /\ UploadIsAttended
  BY DEF IInv, TypeInv
<1>2. /\ pc[w] \in Uploading /\ i \in Nsds \cup Pnfds
      /\ Finish(w) /\ Touch({i}) /\ UNCHANGED <<sent, lost>>
      /\ state' = SetState(i, "ONBOARDED") /\ key' = [key EXCEPT ![i] = req[w].key]
  BY DEF CommitNsd, CommitPnfd, At, Uploading
<1>3. /\ i \in Nsds => refs' = [refs EXCEPT ![i] = req[w].refs] /\ req[w].key \in NsdKeys
      /\ i \in Pnfds => refs' = refs /\ req[w].key \in DescKeys
  BY <1>1, ResourceAssumption DEF CommitNsd, CommitPnfd, WorkOK, At, Packages
<1>4. Moves(w, "idle", NoReq) /\ NoReq \in Request /\ "idle" \in Label
  BY <1>2, FinishMoves DEF Label
<1>5. /\ pc' \in [Workers -> Label] /\ req' \in [Workers -> Request] /\ pc'[w] = "idle"
      /\ \A u \in Workers \ {w} : pc'[u] = pc[u] /\ req'[u] = req[u]
  BY <1>1, <1>4, Moved
<1>6. /\ state' \in [Infos -> NsdInfo \cup {"UNBORN", "GONE"}]
      /\ \A j \in Infos : Stored(j)' <=> Stored(j)
      /\ \A j \in Infos : j # i => state'[j] = state[j]
      /\ state'[i] = "ONBOARDED"
  BY <1>1, <1>2, Marked
<1>7. i \in Infos /\ (i \in Nsds => i \notin Pnfds)
  BY <1>2, ResourceAssumption DEF Infos, Packages
<1>8. req[w].refs \in SUBSET Ref
  BY <1>1 DEF TypeOK, Request
<1>9. /\ key' \in [Infos -> NsdKeys \cup DescKeys \cup {None}]
      /\ \A j \in Infos \ {i} : key'[j] = key[j]
      /\ key'[i] = req[w].key
      /\ refs' \in [Nsds -> SUBSET Ref] /\ \A n \in Nsds \ {i} : refs'[n] = refs[n]
  BY <1>1, <1>2, <1>3, <1>7, <1>8 DEF TypeOK, NSPackageModel
<1>10. since' \in [Workers -> SUBSET Infos] /\ \A u \in Workers \ {w} : Kept(u)
  BY <1>1, <1>2, <1>4, <1>6, <1>7, <1>9, TouchKept
<1>11. TypeOK'
  <2>1. /\ \A n \in Nsds : key'[n] \in NsdKeys \cup {None}
        /\ \A p \in Pnfds : key'[p] \in DescKeys \cup {None}
    BY <1>1, <1>2, <1>3, <1>7, <1>9 DEF TypeOK, NSPackageModel, PnfPackageModel, Infos, Packages
  <2>2. sent' \in 0..MaxSent /\ lost' \in SUBSET Infos
    BY <1>1, <1>2 DEF TypeOK
  <2>3. QED
    BY <1>5, <1>6, <1>9, <1>10, <2>1, <2>2, TypeFromColumns
<1>12. KeyOK'
  BY <1>1, <1>6, <1>9 DEF KeyOK, Stored
<1>13. UploadIsAttended'
  BY <1>1, <1>2, <1>5, <1>6, StillAttended DEF Infos, Packages
<1>14. QED
  BY <1>5, <1>10, <1>11, <1>12, <1>13, IdleOK DEF StepOK

LEMMA CommitsStep ==
  ASSUME IInv, NEW w \in Workers, CommitNsd(w) \/ CommitPnfd(w)
  PROVE  StepOK(w)
<1> DEFINE i == req[w].info
<1>1. CASE Stored(i)
  BY <1>1, CommitStep
<1>2. CASE ~Stored(i)
  <2>1. TypeOK /\ i \in Nsds \cup Pnfds /\ {i} \in SUBSET Infos
    BY DEF IInv, TypeInv, CommitNsd, CommitPnfd, Infos, Packages
  <2>2. /\ pc[w] \in Uploading /\ Finish(w) /\ Touch({i}) /\ UNCHANGED <<key, refs, sent, lost>>
        /\ state' = SetState(i, "ONBOARDED")
    BY <1>2 DEF CommitNsd, CommitPnfd, At, Uploading, SetState
  <2>3. QED
    BY <2>1, <2>2, FailStep
<1>3. QED
  BY <1>1, <1>2

-----------------------------------------------------------------------------
(* Deletes *)

LEMMA DeleteStep ==
  ASSUME IInv, NEW w \in Workers, NEW p \in Packages, Start(w, "del_scan", p, key[p]),
         UNCHANGED <<state, key, refs, since, lost>>
  PROVE  StepOK(w)
<1>1. TypeOK /\ KeyOK /\ UploadIsAttended /\ p \in Infos /\ "del_scan" \in Label
  BY DEF IInv, TypeInv, Infos, Packages, Label
<1>2. key[p] \in NsdKeys \cup DescKeys \cup {None}
  BY <1>1 DEF TypeOK
<1>3. PICK r \in Request : Moves(w, "del_scan", r) /\ r.info = p /\ r.key = key[p]
  BY <1>1, <1>2, StartMoves
<1>4. /\ pc' \in [Workers -> Label] /\ req' \in [Workers -> Request]
      /\ pc'[w] = "del_scan" /\ req'[w] = r
      /\ \A u \in Workers \ {w} : pc'[u] = pc[u] /\ req'[u] = req[u]
  BY <1>1, <1>3, Moved
<1>5. \A u \in Workers \ {w} : Kept(u)
  BY <1>1, <1>4 DEF Kept, Told, Stored
<1>6. TypeOK'
  <2>1. sent' \in 0..MaxSent
    BY <1>1, BoundAssumption DEF Start, TypeOK
  <2>2. QED
    BY <1>1, <1>4, <2>1, TypeFromColumns DEF TypeOK, NSPackageModel, PnfPackageModel
<1>7. KeyOK' /\ UploadIsAttended'
  <2>1. pc[w] \notin Uploading
    BY DEF Start, Uploading
  <2>2. UploadIsAttended'
    BY <1>1, <1>4, <2>1, StillAttended
  <2>3. QED
    BY <1>1, <2>2 DEF KeyOK, Stored
<1>8. WorkOK(w)' /\ HandlerOK(w)'
  BY <1>3, <1>4 DEF WorkOK, HandlerOK, FoundOK, UniqueOK, ScanOK, At, Uploading
<1>9. QED
  BY <1>5, <1>6, <1>7, <1>8 DEF StepOK

\* A handler that is done, without a write, or is killed.
LEMMA StopStep ==
  ASSUME IInv, NEW w \in Workers, Finish(w), NEW S \in SUBSET Infos, Touch(S),
         UNCHANGED <<state, key, refs, sent>>, lost' \in SUBSET Infos, lost \subseteq lost',
         pc[w] \in Uploading => req[w].info \in lost'
  PROVE  StepOK(w)
<1>1. TypeOK /\ KeyOK /\ UploadIsAttended /\ "idle" \in Label
  BY DEF IInv, TypeInv, Label
<1>2. Moves(w, "idle", NoReq) /\ NoReq \in Request
  BY FinishMoves
<1>3. /\ pc' \in [Workers -> Label] /\ req' \in [Workers -> Request] /\ pc'[w] = "idle"
      /\ \A u \in Workers \ {w} : pc'[u] = pc[u] /\ req'[u] = req[u]
  BY <1>1, <1>2, Moved
<1>4. since' \in [Workers -> SUBSET Infos] /\ \A u \in Workers \ {w} : Kept(u)
  BY <1>1, <1>2, TouchKept DEF Stored
<1>5. TypeOK'
  BY <1>1, <1>3, <1>4, TypeFromColumns DEF TypeOK, NSPackageModel, PnfPackageModel
<1>6. KeyOK'
  BY <1>1 DEF KeyOK, Stored
<1>7. UploadIsAttended'
  BY <1>1, <1>3, StillAttended
<1>8. QED
  BY <1>3, <1>4, <1>5, <1>6, <1>7, IdleOK DEF StepOK

LEMMA CrashStep ==
  ASSUME IInv, NEW w \in Workers, Crash(w)
  PROVE  StepOK(w)
<1>1. TypeOK /\ WorkOK(w)
  BY DEF IInv, TypeInv
<1>2. lost' \in SUBSET Infos /\ lost \subseteq lost'
      /\ (pc[w] \in Uploading => req[w].info \in lost')
  BY <1>1 DEF Crash, WorkOK, TypeOK, Infos, Packages
<1>3. {} \in SUBSET Infos
  OBVIOUS
<1>4. QED
  BY <1>2, <1>3, StopStep DEF Crash

LEMMA ScanStep ==
  ASSUME IInv, NEW w \in Workers, ScanForPnfd(w) \/ ScanForVnf(w)
  PROVE  StepOK(w)
<1> DEFINE p == req[w].info
           k == req[w].key
<1>1. /\ TypeOK /\ KeyOK /\ UploadIsAttended /\ WorkOK(w) /\ HandlerOK(w)
      /\ At(w, "del_scan") /\ p \in Packages /\ UNCHANGED <<state, key, refs, sent, lost>>
  BY DEF IInv, TypeInv, ScanForPnfd, ScanForVnf, Packages
<1>2. CASE Finish(w) /\ Touch({})
  <2>1. {} \in SUBSET Infos /\ lost' \in SUBSET Infos /\ pc[w] \notin Uploading
    BY <1>1 DEF TypeOK, At, Uploading
  <2>2. QED
    BY <1>1, <1>2, <2>1, StopStep
<1>3. CASE (\A n \in Nsds : Spares(n, p, k)) /\ Goto(w, "del_row") /\ ReadNsds(w)
  <2>1. Moves(w, "del_row", req[w]) /\ req[w] \in Request /\ "del_row" \in Label
    BY <1>1, <1>3, GotoMoves DEF Label
  <2>2. /\ pc' \in [Workers -> Label] /\ req' \in [Workers -> Request]
        /\ pc'[w] = "del_row" /\ req'[w] = req[w]
        /\ \A u \in Workers \ {w} : pc'[u] = pc[u] /\ req'[u] = req[u]
    BY <1>1, <2>1, Moved
  <2>3. /\ since' \in [Workers -> SUBSET Infos] /\ since'[w] = since[w] \ Nsds
        /\ \A u \in Workers \ {w} : since'[u] = since[u]
    BY <1>1, <1>3 DEF ReadNsds, TypeOK
  <2>4. \A u \in Workers \ {w} : Kept(u)
    BY <1>1, <2>2, <2>3 DEF Kept, Told, Stored
  <2>5. TypeOK'
    BY <1>1, <2>2, <2>3, TypeFromColumns DEF TypeOK, NSPackageModel, PnfPackageModel
  <2>6. KeyOK' /\ UploadIsAttended'
    <3>1. pc[w] \notin Uploading
      BY <1>1 DEF At, Uploading
    <3>2. UploadIsAttended'
      BY <1>1, <2>2, <3>1, StillAttended
    <3>3. QED
      BY <1>1, <3>2 DEF KeyOK, Stored
  <2>7. WorkOK(w)'
    BY <1>1, <2>2 DEF WorkOK, At, Uploading
  <2>8. ScanOK(w)'
    <3>1. p \in since'[w] \/ key'[p] = k
      BY <1>1, <2>3, ResourceAssumption DEF HandlerOK, ScanOK, At
    <3>2. \A n \in Nsds : Spares(n, p, k)'
      BY <1>1, <1>3, <2>2 DEF Spares, VnfRefs, PnfRefs
    <3>3. QED
      BY <2>2, <3>1, <3>2 DEF ScanOK
  <2>9. FoundOK(w)' /\ UniqueOK(w)'
    BY <2>2 DEF FoundOK, UniqueOK, At
  <2>10. QED
    BY <2>4, <2>5, <2>6, <2>7, <2>8, <2>9 DEF StepOK, HandlerOK
<1>4. CASE ScanForPnfd(w)
  <2>1. p \notin Vnfs
    BY <1>4, ResourceAssumption DEF ScanForPnfd
  <2>2. QED
    BY <1>2, <1>3, <1>4, <2>1 DEF ScanForPnfd, Spares
<1>5. CASE ScanForVnf(w)
  BY <1>2, <1>3, <1>5 DEF ScanForVnf, Spares
<1>6. QED
  BY <1>4, <1>5

\* A row that is deleted takes its columns along.
LEMMA GoneFacts ==
  ASSUME TypeOK, KeyOK, NEW i \in Infos, Gone(i)
  PROVE  /\ state' \in [Infos -> NsdInfo \cup {"UNBORN", "GONE"}]
         /\ key' \in [Infos -> NsdKeys \cup DescKeys \cup {None}]
         /\ \A n \in Nsds : key'[n] \in NsdKeys \cup {None}
         /\ \A p \in Pnfds : key'[p] \in DescKeys \cup {None}
         /\ KeyOK' /\ state'[i] = "GONE" /\ ~Stored(i)'
         /\ \A j \in Infos \ {i} :
              state'[j] = state[j] /\ key'[j] = key[j] /\ Stored(j)' = Stored(j)
BY DEF Gone, TypeOK, NSPackageModel, PnfPackageModel, KeyOK, Stored, NsdInfo, Infos, Packages

LEMMA DelRowStep ==
  ASSUME IInv, NEW w \in Workers, DelPnfdRow(w) \/ DelVnfRow(w)
  PROVE  StepOK(w)
<1> DEFINE p == req[w].info
<1>1. /\ TypeOK /\ KeyOK /\ UploadIsAttended
      /\ pc[w] \notin Uploading /\ p \in Infos /\ "idle" \in Label
      /\ Finish(w) /\ Touch({p}) /\ UNCHANGED <<refs, sent, lost>>
  BY DEF IInv, TypeInv, DelPnfdRow, DelVnfRow, At, Uploading, Infos, Packages, Label
<1>2. CASE UNCHANGED <<state, key>>
  <2>1. {p} \in SUBSET Infos /\ lost' \in SUBSET Infos
    BY <1>1 DEF TypeOK
  <2>2. QED
    BY <1>1, <1>2, <2>1, StopStep
<1>3. CASE Gone(p)
  <2>1. Moves(w, "idle", NoReq) /\ NoReq \in Request
    BY <1>1, FinishMoves
  <2>2. /\ pc' \in [Workers -> Label] /\ req' \in [Workers -> Request] /\ pc'[w] = "idle"
        /\ \A u \in Workers \ {w} : pc'[u] = pc[u] /\ req'[u] = req[u]
    BY <1>1, <2>1, Moved
  <2>3. since' \in [Workers -> SUBSET Infos] /\ \A u \in Workers \ {w} : Kept(u)
    BY <1>1, <1>3, <2>1, GoneFacts, TouchKept
  <2>4. refs' \in [Nsds -> SUBSET Ref] /\ sent' \in 0..MaxSent /\ lost' \in SUBSET Infos
    BY <1>1 DEF TypeOK, NSPackageModel
  <2>5. TypeOK' /\ KeyOK'
    BY <1>1, <1>3, <2>2, <2>3, <2>4, GoneFacts, TypeFromColumns
  <2>6. \A i \in Nsds \cup Pnfds : i \in Infos
    BY DEF Infos, Packages
  <2>7. UploadIsAttended'
    BY <1>1, <1>3, <2>2, <2>6, GoneFacts, StillAttended
  <2>8. QED
    BY <2>2, <2>3, <2>5, <2>7, IdleOK DEF StepOK
<1>4. QED
  BY <1>2, <1>3 DEF DelPnfdRow, DelVnfRow

-----------------------------------------------------------------------------
(* Steps of no handler: one row at a time *)

\* What a step that moves no handler comes to.
TableOK ==
  /\ TypeOK' /\ KeyOK' /\ UploadIsAttended'
  /\ \A u \in Workers : Kept(u)

\* A row that is written while the handlers stand still.
LEMMA RowStep ==
  ASSUME IInv, NEW i \in Infos, NEW S \in SUBSET {i}, UNCHANGED <<pc, req, sent, lost>>,
         S = {} \/ Touch(S), S = {} => since' = since \/ Touch({}),
         state' \in [Infos -> NsdInfo \cup {"UNBORN", "GONE"}],
         key' \in [Infos -> NsdKeys \cup DescKeys \cup {None}],
         \A n \in Nsds : key'[n] \in NsdKeys \cup {None},
         \A p \in Pnfds : key'[p] \in DescKeys \cup {None},
         refs' \in [Nsds -> SUBSET Ref], KeyOK',
         \A j \in Infos : j # i => state'[j] = state[j],
         \A j \in Infos \ S : key'[j] = key[j] /\ (Stored(j) => Stored(j)'),
         \A n \in Nsds \ S : refs'[n] = refs[n],
         i \in Nsds \cup Pnfds => state'[i] \notin {"UPLOADING", "PROCESSING"} \/ state' = state
  PROVE  TableOK
<1>1. TypeOK /\ UploadIsAttended
  BY DEF IInv, TypeInv
<1>2. /\ since' \in [Workers -> SUBSET Infos]
      /\ \A u \in Workers : pc[u] \in Deciding => since'[u] = since[u] \cup S
  BY <1>1 DEF Touch, TypeOK
<1>3. \A u \in Workers : Kept(u)
  BY <1>2 DEF Kept, Told
<1>4. TypeOK'
  BY <1>1, <1>2, TypeFromColumns DEF TypeOK
<1>5. UploadIsAttended'
  BY <1>1 DEF UploadIsAttended, Infos, Packages
<1>6. QED
  BY <1>3, <1>4, <1>5 DEF TableOK

LEMMA CreateStep ==
  ASSUME IInv, NEW i \in Nsds \cup Pnfds, CreateNsd(i) \/ CreatePnfd(i)
  PROVE  TableOK
<1>1. TypeOK /\ KeyOK /\ i \in Infos
  BY DEF IInv, TypeInv, Infos, Packages
<1>2. /\ state' = [state EXCEPT ![i] = "CREATED"] /\ state[i] = "UNBORN"
      /\ UNCHANGED <<key, refs, pc, req, since, sent, lost>>
  BY DEF CreateNsd, CreatePnfd
<1>3. /\ state' \in [Infos -> NsdInfo \cup {"UNBORN", "GONE"}]
      /\ \A j \in Infos : j # i => state'[j] = state[j]
      /\ state'[i] = "CREATED" /\ \A j \in Infos : Stored(j) => Stored(j)'
  BY <1>1, <1>2 DEF TypeOK, NsdInfo, Stored
<1>4. KeyOK'
  BY <1>1, <1>2, <1>3 DEF KeyOK
<1>5. {} \in SUBSET {i}
  OBVIOUS
<1>6. QED
  BY <1>1, <1>2, <1>3, <1>4, <1>5, RowStep DEF TypeOK, NSPackageModel, PnfPackageModel

LEMMA RefuseStep ==
  ASSUME IInv, NEW i \in Nsds \cup Pnfds, RefuseNsd(i) \/ RefusePnfd(i)
  PROVE  TableOK
<1>1. TypeOK /\ KeyOK /\ i \in Infos
  BY DEF IInv, TypeInv, Infos, Packages
<1>2. /\ state' = SetState(i, "CREATED")
      /\ UNCHANGED <<key, refs, pc, req, since, sent, lost>>
  BY DEF RefuseNsd, RefusePnfd
<1>3. /\ state' \in [Infos -> NsdInfo \cup {"UNBORN", "GONE"}]
      /\ \A j \in Infos : Stored(j)' <=> Stored(j)
      /\ \A j \in Infos : j # i => state'[j] = state[j]
      /\ state'[i] \notin {"UPLOADING", "PROCESSING"}
  BY <1>1, <1>2, Marked DEF Stored
<1>4. KeyOK'
  BY <1>1, <1>2, <1>3 DEF KeyOK
<1>5. {} \in SUBSET {i}
  OBVIOUS
<1>6. QED
  BY <1>1, <1>2, <1>3, <1>4, <1>5, RowStep DEF TypeOK, NSPackageModel, PnfPackageModel

LEMMA GoneStep ==
  ASSUME IInv, NEW i \in Infos, DeleteNsd(i) \/ NfPkgDelete(i),
         i \in Nsds \/ refs' = refs
  PROVE  TableOK
<1>1. TypeOK /\ KeyOK
  BY DEF IInv, TypeInv
<1>2. Gone(i) /\ Touch({i}) /\ UNCHANGED <<pc, req, sent, lost>>
  BY DEF DeleteNsd, NfPkgDelete
<1>3. refs' \in [Nsds -> SUBSET Ref] /\ \A n \in Nsds \ {i} : refs'[n] = refs[n]
  BY <1>1 DEF DeleteNsd, NfPkgDelete, TypeOK, NSPackageModel
<1>4. {i} \in SUBSET {i} /\ {i} # {}
  OBVIOUS
<1>5. QED
  BY <1>1, <1>2, <1>3, <1>4, GoneFacts, RowStep

LEMMA VnfOnboardedStep ==
  ASSUME IInv, NEW v \in Vnfs, NEW k \in DescKeys, VnfOnboarded(v, k)
  PROVE  TableOK
<1>1. TypeOK /\ KeyOK /\ v \in Infos /\ v \notin Nsds \cup Pnfds
  BY ResourceAssumption DEF IInv, TypeInv, Infos, Packages
<1>2. /\ state' = [state EXCEPT ![v] = "ONBOARDED"] /\ key' = [key EXCEPT ![v] = k]
      /\ UNCHANGED <<refs, pc, req, sent, lost>> /\ Touch({v})
  BY DEF VnfOnboarded
<1>3. /\ state' \in [Infos -> NsdInfo \cup {"UNBORN", "GONE"}]
      /\ key' \in [Infos -> NsdKeys \cup DescKeys \cup {None}]
      /\ \A j \in Infos : j # v => state'[j] = state[j] /\ key'[j] = key[j]
      /\ Stored(v)'
  BY <1>1, <1>2 DEF TypeOK, NsdInfo, Stored
<1>4. \A j \in Infos \ {v} : Stored(j)' = Stored(j)
  BY <1>3 DEF Stored
<1>5. KeyOK'
  BY <1>1, <1>3, <1>4 DEF KeyOK
<1>6. /\ \A n \in Nsds : key'[n] \in NsdKeys \cup {None}
      /\ \A p \in Pnfds : key'[p] \in DescKeys \cup {None}
      /\ refs' \in [Nsds -> SUBSET Ref]
  BY <1>1, <1>2, <1>3 DEF TypeOK, NSPackageModel, PnfPackageModel, Infos, Packages
<1>7. {v} \in SUBSET {v} /\ {v} # {}
  OBVIOUS
<1>8. QED
  BY <1>1, <1>2, <1>3, <1>4, <1>5, <1>6, <1>7, RowStep

-----------------------------------------------------------------------------
(* The invariant *)

LEMMA RequestSteps ==
  ASSUME IInv,
         \/ \E n \in Nsds : NsdRequest(n)
         \/ \E p \in Pnfds : PnfdRequest(p)
         \/ \E v \in Vnfs : VnfRequest(v)
  PROVE  TableOK \/ \E w \in Workers : StepOK(w)
<1>1. ASSUME NEW n \in Nsds, NsdRequest(n)
      PROVE  TableOK \/ \E w \in Workers : StepOK(w)
  <2>1. n \in Infos
    BY DEF Infos
  <2>2. QED
    BY <1>1, <2>1, CreateStep, RefuseStep, GoneStep, UploadStep DEF NsdRequest, UploadNsd
<1>2. ASSUME NEW p \in Pnfds, PnfdRequest(p)
      PROVE  TableOK \/ \E w \in Workers : StepOK(w)
  <2>1. p \in Packages
    BY DEF Packages
  <2>2. QED
    BY <1>2, <2>1, CreateStep, RefuseStep, UploadStep, DeleteStep
       DEF PnfdRequest, UploadPnfd, DeletePnfd
<1>3. ASSUME NEW v \in Vnfs, VnfRequest(v)
      PROVE  TableOK \/ \E w \in Workers : StepOK(w)
  <2>1. v \in Packages /\ v \in Infos
    BY DEF Packages, Infos
  <2>2. CASE NfPkgDelete(v)
    BY <2>1, <2>2, GoneStep DEF NfPkgDelete
  <2>3. QED
    BY <1>3, <2>1, <2>2, VnfOnboardedStep, DeleteStep DEF VnfRequest, DeleteVnf
<1>4. QED
  BY <1>1, <1>2, <1>3

LEMMA WorkerSteps ==
  ASSUME IInv, NEW w \in Workers, Step(w) \/ Crash(w)
  PROVE  StepOK(w)
<1> DEFINE i == req[w].info
<1>1. CASE ProcessNsd(w) \/ ProcessPnfd(w) \/ ParseFails(w)
  <2>1. pc[w] \in Uploading /\ Touch({}) /\ UNCHANGED <<key, refs, sent, lost>>
    BY <1>1 DEF ProcessNsd, ProcessPnfd, ParseFails, At, Uploading
  <2>2. \/ Goto(w, "parsing") /\ state' = SetState(i, "PROCESSING")
        \/ Goto(w, "failing") /\ UNCHANGED state
    BY <1>1 DEF ProcessNsd, ProcessPnfd, ParseFails
  <2>3. QED
    BY <2>1, <2>2, AheadStep
<1>2. CASE NsdUploadFailed(w) \/ PnfdUploadFailed(w)
  <2>1. /\ pc[w] \in Uploading /\ Finish(w) /\ Touch({}) /\ UNCHANGED <<key, refs, sent, lost>>
        /\ state' = SetState(i, "CREATED")
    BY <1>2 DEF NsdUploadFailed, PnfdUploadFailed, At, Uploading
  <2>2. {} \in SUBSET Infos
    OBVIOUS
  <2>3. QED
    BY <2>1, <2>2, FailStep
<1>3. CASE LookUpVnf(w) \/ LookUpPnf(w)
  <2>1. PICK x \in req[w].todo : At(w, "lookup") /\ LookUp(w, x, Kind(x))
    BY <1>3 DEF LookUpVnf, LookUpPnf, TodoOf, Kind
  <2>2. QED
    BY <2>1, LookUpStep
<1>4. QED
  BY <1>1, <1>2, <1>3, ParseNsdStep, ParsePnfdStep, CommitsStep, ScanStep, DelRowStep, CrashStep
     DEF Step

LEMMA InitIInv == Init => IInv
<1> SUFFICES ASSUME Init PROVE IInv
  OBVIOUS
<1>1. TypeOK
  BY BoundAssumption DEF Init, TypeOK, NSPackageModel, PnfPackageModel, NsdInfo, PnfdInfo, Label,
                         NoReq, Request, Infos, Packages
<1>2. KeyOK /\ UploadIsAttended
  BY DEF Init, KeyOK, UploadIsAttended, Infos, Packages
<1>3. \A w \in Workers : WorkOK(w) /\ HandlerOK(w)
  BY DEF Init, WorkOK, HandlerOK, FoundOK, UniqueOK, ScanOK, At, Uploading
<1>4. QED
  BY <1>1, <1>2, <1>3 DEF IInv, TypeInv

LEMMA NextIInv ==
  ASSUME IInv, [Next]_vars
  PROVE  IInv'
<1>1. TypeInv /\ \A u \in Workers : HandlerOK(u)
  BY DEF IInv
<1>2. ASSUME NEW w \in Workers, StepOK(w)
      PROVE  IInv'
  <2>1. \A u \in Workers \ {w} : WorkOK(u)' /\ HandlerOK(u)'
    BY <1>1, <1>2, KeptHandlerOK DEF StepOK
  <2>2. QED
    BY <1>2, <2>1 DEF StepOK, IInv, TypeInv
<1>3. CASE TableOK
  <2>1. \A u \in Workers : WorkOK(u)' /\ HandlerOK(u)'
    BY <1>1, <1>3, KeptHandlerOK DEF TableOK
  <2>2. QED
    BY <1>3, <2>1 DEF TableOK, IInv, TypeInv
<1>4. CASE UNCHANGED vars
  <2>1. \A u \in Workers : Kept(u)
    BY <1>4 DEF vars, Kept, Told, Stored
  <2>2. \A u \in Workers : WorkOK(u)' /\ HandlerOK(u)'
    BY <1>1, <2>1, KeptHandlerOK
  <2>3. TypeOK' /\ KeyOK' /\ UploadIsAttended'
    BY <1>1, <1>4 DEF vars, IInv, TypeInv, TypeOK, NSPackageModel, PnfPackageModel, KeyOK, Stored,
                      UploadIsAttended
  <2>4. QED
    BY <2>2, <2>3 DEF IInv, TypeInv
<1>5. QED
  BY <1>2, <1>3, <1>4, RequestSteps, WorkerSteps DEF Next

THEOREM Inductive == Spec => []IInv
  BY InitIInv, NextIInv, PTL DEF Spec

\* The columns of NSDs and PNFDs, and what the handlers hold, keep their types.
THEOREM TypeCorrect == Spec => []TypeOK
<1>1. IInv => TypeOK
  BY DEF IInv, TypeInv
<1>2. QED
  BY <1>1, Inductive, PTL

\* No failure path of nsd_content and pnfd_content leaves a resource in UPLOADING or
\* PROCESSING without a handler: only the loss of a process does.
THEOREM UploadsAreAttended == Spec => []UploadIsAttended
<1>1. IInv => UploadIsAttended
  BY DEF IInv
<1>2. QED
  BY <1>1, Inductive, PTL

\* The lookups of parse_nsd_and_save, one query each, do what one would do, unless a
\* package is deleted or on-boarded between them.
THEOREM LookUpsResolve == Spec => []LookedUpNsdResolves
<1>1. IInv => LookedUpNsdResolves
  <2>1. SUFFICES ASSUME IInv, NEW w \in Workers, At(w, "lookup"), req[w].todo = {},
                        Packages \cap since[w] = {}, NEW r \in req[w].refs
                 PROVE  FillRespData(r) # {}
    BY DEF LookedUpNsdResolves
  <2>2. QED
    BY <2>1 DEF IInv, HandlerOK, FoundOK, Kind, FillRespData
<1>2. QED
  BY <1>1, Inductive, PTL

-----------------------------------------------------------------------------
(* What a step may not do *)

\* DeleteSparesReferences, of one step.
DeleteSpares ==
  \A w \in Workers, p \in Packages, n \in Nsds :
    Leaves(w, "del_row", p) /\ state'[p] = "GONE" =>
      \A r \in refs[n] : p \in FillRespData(r) =>
        {n, p} \cap since[w] # {} \/ Mismatched(r) \/ key[p] # LookupKey(r)

LEMMA StepDeleteSpares == IInv => DeleteSpares
<1> SUFFICES ASSUME IInv, NEW w \in Workers, NEW p \in Packages, NEW n \in Nsds,
                    At(w, "del_row"), req[w].info = p, NEW r \in refs[n],
                    p \in FillRespData(r), LookupKey(r) = key[p],
                    {n, p} \cap since[w] = {}
             PROVE  Mismatched(r)
  BY DEF DeleteSpares, Leaves
<1>0. LookupKey(r) # None /\ r.kind = (IF p \in Vnfs THEN "vnf" ELSE "pnf")
  BY ResourceAssumption DEF FillRespData, Found, Holders, Infos, Packages, IInv, TypeInv, TypeOK,
                            NSPackageModel, Ref
<1>1. Spares(n, p, req[w].key) /\ key[p] = req[w].key
  BY DEF IInv, HandlerOK, ScanOK, At
<1>2. CASE p \in Vnfs
  BY <1>0, <1>1, <1>2 DEF Spares, VnfRefs, LookupKey
<1>3. CASE p \notin Vnfs
  BY <1>0, <1>1, <1>3 DEF Spares, PnfRefs, LookupKey, Mismatched
<1>4. QED
  BY <1>2, <1>3

\* A delete of a VNF package or PNFD never cuts a reference of an NSD that its scan
\* could have seen, whatever is on-boarded, deleted and uploaded around it.
THEOREM DeletesSpareReferences == Spec => DeleteSparesReferences
<1>1. IInv /\ [Next]_vars => [DeleteSpares]_vars
  BY StepDeleteSpares
<1>2. QED
  BY <1>1, Inductive, PTL DEF Spec, DeleteSparesReferences, DeleteSpares

\* KeyClashIsARace, of one step.
ClashIsARace ==
  \A i \in Nsds \cup Pnfds : \A m \in Holders(IF i \in Nsds THEN Nsds ELSE Pnfds, key'[i]) :
    m # i /\ key'[i] # key[i] =>
      \E w \in Workers : Commits(w, i) /\ {i, m} \cap since[w] # {}

\* The identifiers of NSDs and PNFDs are written by the two commits, and no others.
LEMMA OnlyCommitsWrite ==
  ASSUME IInv, Next, NEW i \in Nsds \cup Pnfds, key'[i] # key[i], key'[i] # None
  PROVE  \E w \in Workers : /\ CommitNsd(w) \/ CommitPnfd(w)
                            /\ req[w].info = i /\ key'[i] = req[w].key
<1>1. TypeOK /\ i \in Infos /\ i \notin Vnfs
  BY ResourceAssumption DEF IInv, TypeInv, Infos, Packages
<1>2. ASSUME NEW j \in Infos, Gone(j)
      PROVE  FALSE
  BY <1>1, <1>2 DEF Gone, TypeOK
<1>3. ASSUME NEW n \in Nsds, NsdRequest(n)
      PROVE  FALSE
  BY <1>2, <1>3 DEF NsdRequest, CreateNsd, RefuseNsd, DeleteNsd, UploadNsd, Infos
<1>4. ASSUME NEW p \in Pnfds, PnfdRequest(p)
      PROVE  FALSE
  BY <1>4 DEF PnfdRequest, CreatePnfd, RefusePnfd, UploadPnfd, DeletePnfd
<1>5. ASSUME NEW v \in Vnfs, VnfRequest(v)
      PROVE  FALSE
  <2>1. ASSUME NEW k \in DescKeys, VnfOnboarded(v, k)
        PROVE  FALSE
    BY <1>1, <2>1 DEF VnfOnboarded, TypeOK
  <2>2. QED
    BY <1>2, <1>5, <2>1 DEF VnfRequest, NfPkgDelete, DeleteVnf, Infos
<1>6. ASSUME NEW w \in Workers,
             \/ ProcessNsd(w) \/ (\E a \in Archives : ParseNsd(w, a)) \/ ParseFails(w)
             \/ LookUpVnf(w) \/ LookUpPnf(w) \/ NsdUploadFailed(w)
             \/ ProcessPnfd(w) \/ (\E k \in DescKeys : ParsePnfd(w, k)) \/ PnfdUploadFailed(w)
             \/ ScanForPnfd(w) \/ ScanForVnf(w) \/ Crash(w)
      PROVE  FALSE
  <2>1. key' = key
    BY <1>6 DEF ProcessNsd, ParseNsd, ParseFails, LookUpVnf, LookUpPnf, LookUp, NsdUploadFailed,
                ProcessPnfd, ParsePnfd, PnfdUploadFailed, ScanForPnfd, ScanForVnf, Crash
  <2>2. QED
    BY <2>1
<1>7. ASSUME NEW w \in Workers, DelPnfdRow(w) \/ DelVnfRow(w)
      PROVE  FALSE
  BY <1>2, <1>7 DEF DelPnfdRow, DelVnfRow, Infos
<1>8. PICK w \in Workers : CommitNsd(w) \/ CommitPnfd(w)
  BY <1>3, <1>4, <1>5, <1>6, <1>7 DEF Next, Step
<1>9. req[w].info = i /\ key'[i] = req[w].key
  BY <1>1, <1>8 DEF CommitNsd, CommitPnfd, TypeOK
<1>10. QED
  BY <1>8, <1>9

LEMMA StepClashIsARace ==
  ASSUME IInv, [Next]_vars
  PROVE  ClashIsARace
<1> SUFFICES ASSUME NEW i \in Nsds \cup Pnfds,
                    NEW m \in Holders(IF i \in Nsds THEN Nsds ELSE Pnfds, key'[i]),
                    m # i, key'[i] # key[i]
             PROVE  \E w \in Workers : Commits(w, i) /\ {i, m} \cap since[w] # {}
  BY DEF ClashIsARace
<1>1. Next /\ key'[i] # None
  BY DEF vars, Holders
<1>2. PICK w \in Workers : /\ CommitNsd(w) \/ CommitPnfd(w)
                           /\ req[w].info = i /\ key'[i] = req[w].key
  BY <1>1, OnlyCommitsWrite
<1>3. pc[w] \in {"lookup", "committing"}
  BY <1>2 DEF CommitNsd, CommitPnfd, At
<1>4. pc'[w] = "idle"
  BY <1>2 DEF CommitNsd, CommitPnfd, Finish, IInv, TypeInv, TypeOK
<1>5. m = i \/ {i, m} \cap since[w] # {} \/ key[i] = req[w].key
  BY <1>2, <1>3 DEF IInv, HandlerOK, UniqueOK
<1>6. QED
  BY <1>2, <1>3, <1>4, <1>5 DEF Commits

\* The checks for another NSD with the same nsdId, or PNFD with the same pnfdId, keep
\* identifiers apart but for uploads that overlap.
THEOREM KeyClashesAreRaces == Spec => KeyClashIsARace
<1>1. IInv /\ [Next]_vars => [ClashIsARace]_vars
  BY StepClashIsARace
<1>2. QED
  BY <1>1, Inductive, PTL DEF Spec, KeyClashIsARace, ClashIsARace

=============================================================================
