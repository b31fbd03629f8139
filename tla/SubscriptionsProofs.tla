--------------------------- MODULE SubscriptionsProofs ---------------------------
(***************************************************************************)
(* Proofs about Subscriptions, for every set of resources, subscriptions,  *)
(* callbacks and handlers.                                                 *)
(***************************************************************************)
EXTENDS Subscriptions, TLAPS

Writing == {"checking", "saving"}
Sending == {"preparing", "matching", "posting"}

\* What a handler holds at each step.
WorkOK(w) ==
  /\ pc[w] \in Writing => RowOK(work[w])
  /\ pc[w] \in Sending => work[w] \in Notice
  /\ pc[w] = "preparing" => work[w].info \in Vnfs
  /\ todo[w] \cup due[w] \cup served[w] \subseteq {s \in SubIds : subs[s] # None}

TypeInv == TypeOK /\ \A w \in Workers : WorkOK(w)

\* A subscription like the one a handler is about to save was saved after its search.
SavingOK(w) ==
  At(w, "saving") =>
    \A t \in live : SameSubscription(work[w], subs[t]) => t \in since[w]

\* The vnfdId that a handler notifies of is that of the row, or has changed.
DescOK(w) ==
  LET i == work[w].info  d == work[w].desc IN
  At(w, "preparing") => d = VnfdOf(i) \/ i \in since[w]

Names(w, s) == IdsOf(subs[s]) \cap {work[w].info, work[w].desc} # {}

\* A subscription that the code passes over: it names nothing, or only the descriptor,
\* which the notification does not tell or which changed since the event.
Missed(w, s) ==
  LET i == work[w].info IN
  \/ IdsOf(subs[s]) = {}
  \/ i \notin IdsOf(subs[s]) /\ (work[w].desc = None \/ i \in since[w])

\* The subscriptions that a handler owes the notification to are, at each step, those
\* it will find, those it has found, those it has posted to, and the two exceptions.
DueOK(w) ==
  /\ pc[w] # "posting" => served[w] = {}
  /\ pc[w] \in {"preparing", "matching"} =>
       \A s \in due[w] \cap live : Names(w, s) \/ Missed(w, s)
  /\ At(w, "posting") =>
       /\ \A s \in todo[w] \cup served[w] : Names(w, s)
       /\ \A s \in due[w] \cap live :
            s \in todo[w] \cup served[w] \/ subs[s].auth = "token" \/ Missed(w, s)

HandlerOK(w) == SavingOK(w) /\ DescOK(w) /\ DueOK(w)

IInv == TypeInv /\ \A w \in Workers : HandlerOK(w)

-----------------------------------------------------------------------------
(* Rows and notices *)

LEMMA NewRowOK ==
  ASSUME NEW cb \in Callbacks, NEW auth \in {"plain", "token"}, NEW f \in Filters \cup {None},
         NEW r, r = VnfRow(cb, auth, f) \/ r = NsdRow(cb, auth, f), CheckFilterTypes(r)
  PROVE  RowOK(r)
<1>1. NoFilter \in Filter
  BY DEF NoFilter, Filter
<1>2. r \in Row /\ (r.api = "vnf" => r.filter # None)
  BY <1>1, FiltersAssumption, IdsAssumption DEF VnfRow, NsdRow, Row
<1>3. r \in NsdmSubscriptionModel \cup VnfPkgSubscriptionModel
  BY <1>2 DEF Row, NsdmSubscriptionModel, VnfPkgSubscriptionModel
<1>4. ASSUME r.api = "nsd", NEW pairs \in Exclusive, NEW p \in pairs,
             {p[1], p[2]} \subseteq IdsOf(r)
      PROVE  FALSE
  <2>1. CASE pairs = NsdIds \X Nsds
    <3>1. p[1] \in NsdIds /\ p[2] \in Nsds
      BY <1>4, <2>1
    <3>2. QED
      BY <1>4, <3>1 DEF CheckFilterTypes
  <2>2. CASE pairs = PnfdIds \X Pnfds
    <3>1. p[1] \in PnfdIds /\ p[2] \in Pnfds
      BY <1>4, <2>2
    <3>2. QED
      BY <1>4, <3>1 DEF CheckFilterTypes
  <2>3. QED
    BY <1>4, <2>1, <2>2 DEF Exclusive
<1>5. QED
  BY <1>3, <1>4 DEF RowOK

\* A well-formed row is a row.
LEMMA RowOKIsRow ==
  ASSUME NEW r, RowOK(r)
  PROVE  r \in Row /\ IdsOf(r) \subseteq Infos \cup DescIds
BY DEF RowOK, NsdmSubscriptionModel, VnfPkgSubscriptionModel, Row, IdsOf, Filter

-----------------------------------------------------------------------------
(* A step leaves the other handlers as they are, and tells them of what it changed. *)

\* Handler u goes on as it is, over tables that have lost or gained a row it was told of.
Kept(u) ==
  /\ pc'[u] = pc[u] /\ work'[u] = work[u]
  /\ todo'[u] = todo[u] /\ due'[u] = due[u] /\ served'[u] = served[u]
  /\ pc[u] # "idle" => /\ since[u] \subseteq since'[u]
                       /\ live' \ live \subseteq since'[u]
                       /\ \A v \in Vnfs : vnfd'[v] = vnfd[v] \/ v \in since'[u]

\* No subscription changes, and a new one has an id that no other had.
Tables ==
  /\ \A s \in SubIds : subs[s] # None => subs'[s] = subs[s]
  /\ live' \ live \subseteq {s \in SubIds : subs[s] = None}

LEMMA KeptWorkOK ==
  ASSUME TypeInv, TypeOK', Tables, NEW u \in Workers, Kept(u)
  PROVE  WorkOK(u)'
<1>1. WorkOK(u)
  BY DEF TypeInv
<1>2. \A s \in SubIds : subs[s] # None => subs'[s] # None
  BY DEF Tables
<1>3. QED
  BY <1>1, <1>2 DEF WorkOK, Kept

LEMMA KeptHandlerOK ==
  ASSUME IInv, TypeOK', Tables, NEW u \in Workers, Kept(u)
  PROVE  HandlerOK(u)'
<1>1. TypeOK /\ WorkOK(u) /\ HandlerOK(u)
  BY DEF IInv, TypeInv
<1>2. ASSUME NEW s \in live \cup todo[u] \cup due[u] \cup served[u]
      PROVE  s \in SubIds /\ subs[s] # None /\ subs'[s] = subs[s]
  BY <1>1, <1>2 DEF TypeOK, WorkOK, Tables
<1>3. due'[u] \cap live' \subseteq due[u] \cap live
  BY <1>1 DEF WorkOK, Tables, Kept
<1>4. SavingOK(u)'
  BY <1>1, <1>2 DEF HandlerOK, SavingOK, At, Kept
<1>5. DescOK(u)'
  BY <1>1 DEF HandlerOK, DescOK, WorkOK, At, Kept, VnfdOf
<1>6. ASSUME NEW s \in due[u] \cup todo[u] \cup served[u], pc[u] # "idle"
      PROVE  /\ Names(u, s) => Names(u, s)'
             /\ Missed(u, s) => Missed(u, s)'
             /\ subs'[s].auth = subs[s].auth
  BY <1>2, <1>6 DEF Names, Missed, Kept
<1>7. DueOK(u)'
  <2>1. (pc[u] # "posting" => served[u] = {})'
    BY <1>1 DEF HandlerOK, DueOK, Kept
  <2>2. ASSUME pc'[u] \in {"preparing", "matching"}
        PROVE  (\A s \in due[u] \cap live : Names(u, s) \/ Missed(u, s))'
    BY <1>1, <1>3, <1>6, <2>2 DEF HandlerOK, DueOK, Kept
  <2>3. ASSUME At(u, "posting")'
        PROVE  (\A s \in todo[u] \cup served[u] : Names(u, s))'
    BY <1>1, <1>6, <2>3 DEF HandlerOK, DueOK, Kept, At
  <2>4. ASSUME At(u, "posting")'
        PROVE  (\A s \in due[u] \cap live :
                  s \in todo[u] \cup served[u] \/ subs[s].auth = "token" \/ Missed(u, s))'
    BY <1>1, <1>3, <1>6, <2>4 DEF HandlerOK, DueOK, Kept, At
  <2>5. QED
    BY <2>1, <2>2, <2>3, <2>4 DEF DueOK
<1>8. QED
  BY <1>4, <1>5, <1>7 DEF HandlerOK

-----------------------------------------------------------------------------
(* Steps that create and delete subscriptions *)

\* What a step of handler w comes to.
Step(w) ==
  /\ TypeOK' /\ Tables
  /\ \A u \in Workers \ {w} : Kept(u)
  /\ WorkOK(w)' /\ HandlerOK(w)'

LEMMA SubscribeStep ==
  ASSUME IInv, NEW w \in Workers, Subscribe(w)
  PROVE  Step(w)
<1> PICK cb \in Callbacks, auth \in {"plain", "token"}, f \in Filters \cup {None} :
       \/ CreateSubscription(w, VnfRow(cb, auth, f))
       \/ CreateSubscription(w, NsdRow(cb, auth, f))
  BY DEF Subscribe, SubscribeToVnfs, SubscribeToNsds, VnfFilters, NsdFilters
<1> PICK r : /\ r = VnfRow(cb, auth, f) \/ r = NsdRow(cb, auth, f)
             /\ CreateSubscription(w, r)
  OBVIOUS
<1>1. RowOK(r) /\ r \in Row
  BY NewRowOK, RowOKIsRow DEF CreateSubscription
<1>2. /\ pc[w] = "idle" /\ pc' = [pc EXCEPT ![w] = "checking"]
      /\ work' = [work EXCEPT ![w] = r]
      /\ sent < MaxSent /\ sent' = sent + 1
      /\ UNCHANGED <<subs, live, vnfd, since, todo, due, served>>
  BY DEF CreateSubscription, Start, At, Goto, sending
<1>3. TypeOK /\ WorkOK(w) /\ HandlerOK(w)
  BY DEF IInv, TypeInv
<1>4. TypeOK'
  BY <1>1, <1>2, <1>3, BoundAssumption DEF TypeOK, Label
<1>5. Tables /\ \A u \in Workers \ {w} : Kept(u)
  BY <1>2, <1>3 DEF TypeOK, Tables, Kept
<1>6. WorkOK(w)' /\ HandlerOK(w)'
  BY <1>1, <1>2, <1>3 DEF TypeOK, WorkOK, HandlerOK, SavingOK, DescOK, DueOK, At, Writing, Sending
<1>7. QED
  BY <1>4, <1>5, <1>6 DEF Step

\* A search that ends without an exception has seen every subscription like this one.
LEMMA SearchFindsSame ==
  ASSUME TypeOK, NEW w \in Workers, ~Exists(work[w]), NEW t \in live,
         SameSubscription(work[w], subs[t])
  PROVE  FALSE
BY DEF Exists, SameSubscription, VnfFilterExists, NsdFilterExists

LEMMA CheckValidStep ==
  ASSUME IInv, NEW w \in Workers, CheckValid(w)
  PROVE  Step(w)
<1>1. TypeOK /\ WorkOK(w) /\ HandlerOK(w)
  BY DEF IInv, TypeInv
<1>2. TypeOK'
  BY <1>1 DEF CheckValid, TypeOK, Label, Goto, Reset, sending
<1>3. Tables /\ \A u \in Workers \ {w} : Kept(u)
  BY <1>1 DEF CheckValid, TypeOK, Tables, Kept, Goto, Reset, sending
<1>4. CASE Exists(work[w])
  BY <1>1, <1>2, <1>3, <1>4
     DEF Step, CheckValid, TypeOK, WorkOK, HandlerOK, SavingOK, DescOK, DueOK, At, Goto, Reset,
         Writing, Sending, sending
<1>5. CASE ~Exists(work[w])
  <2>1. /\ pc[w] = "checking" /\ pc'[w] = "saving"
        /\ UNCHANGED <<subs, live, vnfd, work, todo, due, served>>
    BY <1>1, <1>5 DEF CheckValid, At, Goto, TypeOK, sending
  <2>2. WorkOK(w)'
    BY <1>1, <2>1 DEF WorkOK, Writing, Sending
  <2>3. SavingOK(w)'
    BY <1>1, <1>5, <2>1, SearchFindsSame DEF SavingOK
  <2>4. QED
    BY <1>1, <1>2, <1>3, <2>1, <2>2, <2>3 DEF Step, HandlerOK, DescOK, DueOK, At
<1>6. QED
  BY <1>4, <1>5

LEMMA SaveDbStep ==
  ASSUME IInv, NEW w \in Workers, NEW s \in Fresh, SaveDb(w, s)
  PROVE  Step(w)
<1>1. TypeOK /\ WorkOK(w) /\ HandlerOK(w) /\ s \in SubIds /\ subs[s] = None
  BY DEF IInv, TypeInv, Fresh
<1>2. /\ pc[w] = "saving" /\ pc' = [pc EXCEPT ![w] = "idle"]
      /\ work' = [work EXCEPT ![w] = None]
      /\ subs' = [subs EXCEPT ![s] = work[w]] /\ live' = live \cup {s}
      /\ since' = [u \in Workers |-> IF pc'[u] = "idle" THEN {} ELSE since[u] \cup {s}]
      /\ UNCHANGED <<vnfd, sent, todo, due, served>>
  BY DEF SaveDb, At, Goto, Note, sending
<1>3. RowOK(work[w]) /\ work[w] \in Row /\ work[w] # None
  BY <1>1, <1>2, RowOKIsRow, IdsAssumption DEF WorkOK, Writing
<1>4. TypeOK'
  <2>1. subs' \in [SubIds -> Row \cup {None}]
    BY <1>1, <1>2, <1>3 DEF TypeOK
  <2>2. \A t \in SubIds : subs'[t] # None => RowOK(subs'[t])
    BY <1>1, <1>2, <1>3 DEF TypeOK
  <2>3. live' \in SUBSET {t \in SubIds : subs'[t] # None}
    BY <1>1, <1>2, <1>3 DEF TypeOK
  <2>4. pc' \in [Workers -> Label]
    BY <1>1, <1>2 DEF TypeOK, Label
  <2>5. work' \in [Workers -> Row \cup Notice \cup {None}]
    BY <1>1, <1>2 DEF TypeOK
  <2>6. since' \in [Workers -> SUBSET (SubIds \cup Vnfs)]
    BY <1>1, <1>2 DEF TypeOK
  <2>7. QED
    BY <1>1, <1>2, <2>1, <2>2, <2>3, <2>4, <2>5, <2>6 DEF TypeOK
<1>5. Tables
  BY <1>1, <1>2 DEF TypeOK, Tables
<1>6. \A u \in Workers \ {w} : Kept(u)
  BY <1>1, <1>2 DEF TypeOK, Kept
<1>7. WorkOK(w)' /\ HandlerOK(w)'
  BY <1>1, <1>2, <1>3 DEF TypeOK, WorkOK, HandlerOK, SavingOK, DescOK, DueOK, At, Writing, Sending
<1>8. QED
  BY <1>4, <1>5, <1>6, <1>7 DEF Step

\* A step of none of the handlers.
LEMMA TableStep ==
  ASSUME IInv,
         \/ UNCHANGED vars
         \/ \E s \in SubIds : Terminate(s)
         \/ \E v \in Vnfs : VnfCreated(v) \/ VnfRemoved(v)
  PROVE  TypeOK' /\ Tables /\ \A u \in Workers : Kept(u)
<1>1. TypeOK
  BY DEF IInv, TypeInv
<1>2. CASE UNCHANGED vars
  BY <1>1, <1>2 DEF TypeOK, Tables, Kept, vars
<1>3. CASE \E s \in SubIds : Terminate(s)
  BY <1>1, <1>3 DEF TypeOK, Tables, Kept, Terminate, sending
<1>4. ASSUME NEW v \in Vnfs, VnfCreated(v) \/ VnfRemoved(v)
      PROVE  TypeOK' /\ Tables /\ \A u \in Workers : Kept(u)
  BY <1>1, <1>4 DEF TypeOK, Tables, Kept, VnfCreated, VnfRemoved, Note, sending
<1>5. QED
  BY <1>2, <1>3, <1>4

-----------------------------------------------------------------------------
(* Steps that send notifications *)

\* A filter that an event meets names the resource or the descriptor, if it names any.
LEMMA MeetsNames ==
  ASSUME NEW f, NEW i \in Infos, NEW k, NEW t, Meets(f, i, k, t), IdsOf(f) # {}
  PROVE  i \in IdsOf(f) \/ k \in IdsOf(f)
BY DEF Meets, IdsOf

\* An event whose notification the handler prepares or matches next.
LEMMA EventStep ==
  ASSUME IInv, NEW w \in Workers, NEW l \in {"preparing", "matching"},
         NEW i \in Infos, NEW k, NEW d \in DescIds \cup {None}, NEW t,
         Event(w, l, i, d, k, t), d \in {k, None},
         l = "preparing" => i \in Vnfs /\ d = VnfdOf(i)',
         vnfd' \in [Vnfs -> VnfdIds \cup {None, NoRow}],
         since' \in [Workers -> SUBSET (SubIds \cup Vnfs)],
         \A u \in Workers \ {w} : pc[u] # "idle" =>
           /\ since[u] \subseteq since'[u]
           /\ \A v \in Vnfs : vnfd'[v] = vnfd[v] \/ v \in since'[u]
  PROVE  Step(w)
<1> DEFINE n == [info |-> i, desc |-> d]
           met == {s \in live : Meets(subs[s], i, k, t)}
<1>1. n \in Notice /\ n.info = i /\ n.desc = d
  BY DEF Notice
<1> HIDE DEF n
<1>2. /\ pc[w] = "idle" /\ pc' = [pc EXCEPT ![w] = l]
      /\ work' = [work EXCEPT ![w] = n]
      /\ sent < MaxSent /\ sent' = sent + 1
      /\ due' = [due EXCEPT ![w] = met]
      /\ UNCHANGED <<subs, live, todo, served>>
  BY DEF Event, Start, At, Goto, n
<1>3. TypeOK /\ WorkOK(w) /\ HandlerOK(w)
  BY DEF IInv, TypeInv
<1>4. met \subseteq live /\ live \subseteq SubIds
  BY <1>3 DEF TypeOK
<1>5. TypeOK'
  BY <1>1, <1>2, <1>3, <1>4, BoundAssumption DEF TypeOK, Label
<1>6. Tables /\ \A u \in Workers \ {w} : Kept(u)
  BY <1>2, <1>3 DEF TypeOK, Tables, Kept
<1>7. pc'[w] = l /\ work'[w] = n /\ due'[w] = met
  BY <1>2, <1>3 DEF TypeOK
<1>8. WorkOK(w)'
  BY <1>1, <1>2, <1>3, <1>4, <1>7 DEF TypeOK, WorkOK, Writing, Sending
<1>9. ASSUME NEW s \in met
      PROVE  Names(w, s)' \/ Missed(w, s)'
  <2>1. IdsOf(subs[s]) # {} => i \in IdsOf(subs[s]) \/ k \in IdsOf(subs[s])
    BY MeetsNames
  <2>2. QED
    BY <1>1, <1>2, <1>7, <2>1 DEF Names, Missed
<1> HIDE DEF met
<1>10. HandlerOK(w)'
  <2>1. SavingOK(w)' /\ DescOK(w)'
    BY <1>1, <1>7 DEF SavingOK, DescOK, At, VnfdOf
  <2>2. DueOK(w)'
    BY <1>2, <1>3, <1>7, <1>9 DEF DueOK, HandlerOK, At
  <2>3. QED
    BY <2>1, <2>2 DEF HandlerOK
<1>11. QED
  BY <1>5, <1>6, <1>8, <1>10 DEF Step

LEMMA VnfEventStep ==
  ASSUME IInv, NEW w \in Workers, NEW v \in Vnfs, VnfEvent(w, v)
  PROVE  Step(w)
<1>1. TypeOK /\ v \in Infos
  BY DEF IInv, TypeInv, Infos
<1>2. NoRow \notin VnfdIds /\ VnfdIds \subseteq DescIds
  BY IdsAssumption DEF DescIds
<1>3. ASSUME NEW k \in VnfdIds, VnfOnboarded(w, v, k)
      PROVE  Step(w)
  <2>1. k \in DescIds \cup {None} /\ Event(w, "preparing", v, k, k, "onboarding")
    BY <1>2, <1>3 DEF VnfOnboarded
  <2>2. /\ k = VnfdOf(v)'
        /\ vnfd' \in [Vnfs -> VnfdIds \cup {None, NoRow}]
        /\ since' \in [Workers -> SUBSET (SubIds \cup Vnfs)]
        /\ \A u \in Workers \ {w} : pc[u] # "idle" =>
             /\ since[u] \subseteq since'[u]
             /\ \A x \in Vnfs : vnfd'[x] = vnfd[x] \/ x \in since'[u]
    BY <1>1, <1>2, <1>3 DEF VnfOnboarded, Changed, TypeOK, VnfdOf
  <2>3. QED
    BY <1>1, <2>1, <2>2, EventStep
<1>4. ASSUME VnfFromUri(w, v) \/ VnfDeletedBySdc(w, v)
      PROVE  Step(w)
  <2> DEFINE d == VnfdOf(v)
  <2>1. PICK t : Event(w, "preparing", v, d, d, t)
    BY <1>4 DEF VnfFromUri, VnfDeletedBySdc, VnfdOf
  <2>2. d \in DescIds \cup {None} /\ vnfd' = vnfd /\ d = VnfdOf(v)'
    BY <1>1, <1>2, <1>4 DEF VnfFromUri, VnfDeletedBySdc, VnfdOf, TypeOK
  <2> HIDE DEF d
  <2>3. /\ since' \in [Workers -> SUBSET (SubIds \cup Vnfs)]
        /\ \A u \in Workers \ {w} : since[u] \subseteq since'[u]
    BY <1>1, <1>4 DEF VnfFromUri, VnfDeletedBySdc, Reset, TypeOK
  <2>4. QED
    BY <1>1, <2>1, <2>2, <2>3, EventStep DEF TypeOK
<1>5. CASE VnfDeleted(w, v)
  <2>1. Event(w, "preparing", v, None, vnfd[v], "change")
    BY <1>5 DEF VnfDeleted
  <2>2. /\ VnfdOf(v)' = None
        /\ vnfd' \in [Vnfs -> VnfdIds \cup {None, NoRow}]
        /\ since' \in [Workers -> SUBSET (SubIds \cup Vnfs)]
        /\ \A u \in Workers \ {w} : pc[u] # "idle" =>
             /\ since[u] \subseteq since'[u]
             /\ \A x \in Vnfs : vnfd'[x] = vnfd[x] \/ x \in since'[u]
    BY <1>1, <1>5 DEF VnfDeleted, Changed, TypeOK, VnfdOf
  <2>3. QED
    BY <1>1, <2>1, <2>2, EventStep
<1>6. QED
  BY <1>3, <1>4, <1>5 DEF VnfEvent

LEMMA GivenStep ==
  ASSUME IInv, NEW w \in Workers, NEW i \in Infos, NEW d \in DescIds \cup {None},
         NEW k, d \in {k, None}, NEW t, Given(w, i, d, k, t)
  PROVE  Step(w)
<1>1. TypeOK
  BY DEF IInv, TypeInv
<1>2. Event(w, "matching", i, d, k, t) /\ vnfd' = vnfd
  BY DEF Given
<1>3. /\ since' \in [Workers -> SUBSET (SubIds \cup Vnfs)]
      /\ \A u \in Workers \ {w} : since[u] \subseteq since'[u]
  BY <1>1 DEF Given, Reset, TypeOK
<1>4. QED
  BY <1>1, <1>2, <1>3, EventStep DEF TypeOK

LEMMA NsdmEventStep ==
  ASSUME IInv, NEW w \in Workers,
         \/ \E n \in Nsds : NsdEvent(w, n)
         \/ \E p \in Pnfds : PnfdEvent(w, p)
  PROVE  Step(w)
<1>1. ASSUME NEW n \in Nsds, NsdEvent(w, n)
      PROVE  Step(w)
  <2>1. PICK k \in NsdIds \cup {None}, t \in NoticeTypes :
            Given(w, n, k, k, t) \/ Given(w, n, None, k, t)
    BY <1>1 DEF NsdEvent, NsdOnboarding, NsdDeletion, NsdNotifications, NoticeTypes
  <2>2. QED
    BY <2>1, GivenStep DEF Infos, DescIds
<1>2. ASSUME NEW p \in Pnfds, PnfdEvent(w, p)
      PROVE  Step(w)
  <2>1. PICK k \in PnfdIds \cup {None}, t \in NoticeTypes : Given(w, p, k, k, t)
    BY <1>2 DEF PnfdEvent, PnfdOnboarding, PnfdFailure, PnfdDeletion, PnfNotifications,
                NoticeTypes
  <2>2. QED
    BY <2>1, GivenStep DEF Infos, DescIds
<1>3. QED
  BY <1>1, <1>2

LEMMA PkgNotificationsStep ==
  ASSUME IInv, NEW w \in Workers, PkgNotifications(w)
  PROVE  Step(w)
<1> DEFINE i == work[w].info
           n == [info |-> i, desc |-> VnfdOf(i)]
<1>1. TypeOK /\ WorkOK(w) /\ HandlerOK(w)
  BY DEF IInv, TypeInv
<1>2. pc[w] = "preparing" /\ i \in Vnfs /\ work[w] \in Notice
  BY <1>1 DEF PkgNotifications, At, WorkOK, Sending
<1>3. n \in Notice
  BY <1>1, <1>2 DEF TypeOK, Notice, Infos, DescIds, VnfdOf
<1>4. n.info = i /\ n.desc = VnfdOf(i)
  OBVIOUS
<1>5. work' = [work EXCEPT ![w] = n] /\ pc' = [pc EXCEPT ![w] = "matching"]
  BY DEF PkgNotifications, Goto
<1>6. UNCHANGED <<subs, live, vnfd, since, sent, todo, due, served>>
  BY DEF PkgNotifications, sending
<1> HIDE DEF n
<1>7. pc'[w] = "matching" /\ work'[w] = n
  BY <1>1, <1>5 DEF TypeOK
<1>8. TypeOK'
  BY <1>1, <1>3, <1>5, <1>6 DEF TypeOK, Label
<1>9. Tables /\ \A u \in Workers \ {w} : Kept(u)
  BY <1>1, <1>5, <1>6 DEF TypeOK, Tables, Kept
<1>10. WorkOK(w)'
  BY <1>1, <1>3, <1>6, <1>7 DEF WorkOK, Writing, Sending
<1>11. ASSUME NEW s \in due[w] \cap live
       PROVE  (Names(w, s) \/ Missed(w, s))'
  <2>1. Names(w, s) \/ Missed(w, s)
    BY <1>1, <1>2 DEF HandlerOK, DueOK, At
  <2>2. CASE work[w].desc = n.desc
    BY <1>4, <1>6, <1>7, <2>1, <2>2 DEF Names, Missed
  <2>3. CASE i \in since[w]
    BY <1>4, <1>6, <1>7, <2>1, <2>3 DEF Names, Missed
  <2>4. QED
    BY <1>1, <1>2, <1>4, <2>2, <2>3 DEF HandlerOK, DescOK, At
<1>12. DueOK(w)'
  BY <1>1, <1>2, <1>6, <1>7, <1>11 DEF HandlerOK, DueOK, At
<1>13. HandlerOK(w)'
  BY <1>7, <1>12 DEF HandlerOK, SavingOK, DescOK, At
<1>14. QED
  BY <1>8, <1>9, <1>10, <1>13 DEF Step

LEMMA SendNotificationStep ==
  ASSUME IInv, NEW w \in Workers, SendNotification(w)
  PROVE  Step(w)
<1> DEFINE found == Naming(work[w].info, work[w].desc)
<1>1. TypeOK /\ WorkOK(w) /\ HandlerOK(w)
  BY DEF IInv, TypeInv
<1>2. /\ pc[w] = "matching" /\ pc' = [pc EXCEPT ![w] = "posting"]
      /\ todo' = [todo EXCEPT ![w] = found]
      /\ UNCHANGED <<subs, live, vnfd, work, since, due, served, sent>>
  BY DEF SendNotification, At, Goto
<1>3. pc'[w] = "posting" /\ todo'[w] = found
  BY <1>1, <1>2 DEF TypeOK
<1>4. found \subseteq live /\ \A s \in live : s \in found <=> Names(w, s)
  BY DEF Naming, Names
<1> HIDE DEF found
<1>5. TypeOK'
  BY <1>1, <1>2, <1>4 DEF TypeOK, Label
<1>6. Tables /\ \A u \in Workers \ {w} : Kept(u)
  BY <1>1, <1>2 DEF TypeOK, Tables, Kept
<1>7. WorkOK(w)'
  BY <1>1, <1>2, <1>3, <1>4 DEF TypeOK, WorkOK, Writing, Sending
<1>8. \A s \in SubIds : (Names(w, s)' <=> Names(w, s)) /\ (Missed(w, s)' <=> Missed(w, s))
  BY <1>2 DEF Names, Missed
<1>9. DueOK(w)'
  <2>1. served[w] = {} /\ \A s \in due[w] \cap live : Names(w, s) \/ Missed(w, s)
    BY <1>1, <1>2 DEF HandlerOK, DueOK, At
  <2>2. (\A s \in todo[w] \cup served[w] : Names(w, s))'
    BY <1>1, <1>2, <1>3, <1>4, <1>8, <2>1 DEF TypeOK
  <2>3. (\A s \in due[w] \cap live :
           s \in todo[w] \cup served[w] \/ subs[s].auth = "token" \/ Missed(w, s))'
    BY <1>1, <1>2, <1>3, <1>4, <1>8, <2>1 DEF TypeOK
  <2>4. QED
    BY <1>3, <2>2, <2>3 DEF DueOK, At
<1>10. HandlerOK(w)'
  BY <1>3, <1>9 DEF HandlerOK, SavingOK, DescOK, At
<1>11. QED
  BY <1>5, <1>6, <1>7, <1>10 DEF Step

LEMMA PostNotificationStep ==
  ASSUME IInv, NEW w \in Workers, NEW s \in SubIds, PostNotification(w, s)
  PROVE  Step(w)
<1>1. TypeOK /\ WorkOK(w) /\ HandlerOK(w)
  BY DEF IInv, TypeInv
<1>2. /\ pc[w] = "posting" /\ s \in todo[w]
      /\ todo' = [todo EXCEPT ![w] = @ \ {s}]
      /\ UNCHANGED <<subs, live, vnfd, work, since, due, sent>>
  BY DEF PostNotification, At
<1>3. pc' = pc
  BY DEF PostNotification
<1>4. PICK more \in SUBSET {s} : /\ served' = [served EXCEPT ![w] = @ \cup more]
                                 /\ s \in more \/ subs[s].auth # "plain"
  <2>1. CASE served' = [served EXCEPT ![w] = @ \cup {s}]
    BY <2>1
  <2>2. CASE UNCHANGED served /\ subs[s].auth # "plain"
    <3> DEFINE none == {}
    <3>1. none \in SUBSET {s} /\ served' = [served EXCEPT ![w] = @ \cup none]
      BY <1>1, <2>2 DEF TypeOK
    <3> HIDE DEF none
    <3>2. QED
      BY <2>2, <3>1
  <2>3. QED
    BY <2>1, <2>2 DEF PostNotification
<1>5. /\ pc'[w] = "posting" /\ todo'[w] = todo[w] \ {s} /\ served'[w] = served[w] \cup more
      /\ work'[w] = work[w] /\ due'[w] = due[w] /\ since'[w] = since[w]
  BY <1>1, <1>2, <1>3, <1>4 DEF TypeOK
<1>6. TypeOK'
  BY <1>1, <1>2, <1>3, <1>4 DEF TypeOK, Label
<1>7. Tables /\ \A u \in Workers \ {w} : Kept(u)
  BY <1>1, <1>2, <1>3, <1>4 DEF TypeOK, Tables, Kept
<1>8. WorkOK(w)'
  BY <1>1, <1>2, <1>5 DEF WorkOK, Writing, Sending
<1>9. \A t \in SubIds : (Names(w, t)' <=> Names(w, t)) /\ (Missed(w, t)' <=> Missed(w, t))
  BY <1>2 DEF Names, Missed
<1>10. DueOK(w)'
  <2>0. s \in more \/ subs[s].auth = "token"
    <3>1. RowOK(subs[s])
      BY <1>1, <1>2 DEF TypeOK, WorkOK
    <3>2. QED
      BY <1>4, <3>1, RowOKIsRow DEF Row
  <2>1. /\ \A t \in todo[w] \cup served[w] : Names(w, t)
        /\ \A t \in due[w] \cap live :
             t \in todo[w] \cup served[w] \/ subs[t].auth = "token" \/ Missed(w, t)
    BY <1>1, <1>2 DEF HandlerOK, DueOK, At
  <2>2. (\A t \in todo[w] \cup served[w] : Names(w, t))'
    BY <1>1, <1>2, <1>5, <1>9, <2>1 DEF TypeOK
  <2>3. (\A t \in due[w] \cap live :
           t \in todo[w] \cup served[w] \/ subs[t].auth = "token" \/ Missed(w, t))'
    BY <1>1, <1>2, <1>5, <1>9, <2>0, <2>1 DEF TypeOK
  <2>4. QED
    BY <1>5, <2>2, <2>3 DEF DueOK, At
<1>11. HandlerOK(w)'
  BY <1>5, <1>10 DEF HandlerOK, SavingOK, DescOK, At
<1>12. QED
  BY <1>6, <1>7, <1>8, <1>11 DEF Step

\* The end of a request, of a process, and the start of the next.
LEMMA IdleStep ==
  ASSUME IInv, NEW w \in Workers, Sent(w) \/ Crash(w) \/ Restart(w)
  PROVE  Step(w)
<1>1. TypeOK /\ WorkOK(w) /\ HandlerOK(w)
  BY DEF IInv, TypeInv
<1>2. PICK l \in {"idle", "down"} : pc' = [pc EXCEPT ![w] = l]
  BY DEF Sent, Crash, Restart, Goto
<1>3. CASE Sent(w) \/ Crash(w)
  <2>1. /\ UNCHANGED <<subs, live, vnfd, sent>>
        /\ work' = [work EXCEPT ![w] = None] /\ todo' = [todo EXCEPT ![w] = {}]
        /\ due' = [due EXCEPT ![w] = {}] /\ served' = [served EXCEPT ![w] = {}]
        /\ since' = [since EXCEPT ![w] = {}]
    BY <1>3 DEF Sent, Crash, Forget, Reset
  <2>2. TypeOK'
    BY <1>1, <1>2, <2>1 DEF TypeOK, Label
  <2>3. Tables /\ \A u \in Workers \ {w} : Kept(u)
    BY <1>1, <1>2, <2>1 DEF TypeOK, Tables, Kept
  <2>4. WorkOK(w)' /\ HandlerOK(w)'
    BY <1>1, <1>2, <2>1
       DEF TypeOK, WorkOK, Writing, Sending, HandlerOK, SavingOK, DescOK, DueOK, At
  <2>5. QED
    BY <2>2, <2>3, <2>4 DEF Step
<1>4. CASE Restart(w)
  <2>1. pc[w] = "down" /\ UNCHANGED <<subs, live, vnfd, work, since, sent, todo, due, served>>
    BY <1>4 DEF Restart, At, sending
  <2>2. QED
    BY <1>1, <1>2, <2>1
       DEF Step, TypeOK, Label, Tables, Kept, WorkOK, Writing, Sending, HandlerOK, SavingOK,
           DescOK, DueOK, At
<1>5. QED
  BY <1>3, <1>4

-----------------------------------------------------------------------------
(* The invariant *)

LEMMA InitIInv == Init => IInv
<1> SUFFICES ASSUME Init PROVE IInv
  OBVIOUS
<1>1. TypeOK
  BY BoundAssumption DEF Init, TypeOK, Label
<1>2. \A w \in Workers : WorkOK(w) /\ HandlerOK(w)
  BY DEF Init, WorkOK, Writing, Sending, HandlerOK, SavingOK, DescOK, DueOK, At
<1>3. QED
  BY <1>1, <1>2 DEF IInv, TypeInv

\* Every step is one of a handler, or of none.
LEMMA NextSteps ==
  ASSUME IInv, [Next]_vars
  PROVE  \/ TypeOK' /\ Tables /\ \A u \in Workers : Kept(u)
         \/ \E w \in Workers : Step(w)
<1>1. ASSUME NEW w \in Workers, Send(w)
      PROVE  Step(w)
  BY <1>1, PkgNotificationsStep, SendNotificationStep, PostNotificationStep, IdleStep DEF Send
<1>2. ASSUME NEW w \in Workers,
             \/ Subscribe(w) \/ CheckValid(w) \/ \E s \in Fresh : SaveDb(w, s)
             \/ \E v \in Vnfs : VnfEvent(w, v)
             \/ \E n \in Nsds : NsdEvent(w, n)
             \/ \E p \in Pnfds : PnfdEvent(w, p)
             \/ Send(w) \/ Crash(w) \/ Restart(w)
      PROVE  Step(w)
  <2>1. CASE Subscribe(w) \/ CheckValid(w) \/ \E s \in Fresh : SaveDb(w, s)
    BY <2>1, SubscribeStep, CheckValidStep, SaveDbStep
  <2>2. CASE \E v \in Vnfs : VnfEvent(w, v)
    BY <2>2, VnfEventStep
  <2>3. CASE (\E n \in Nsds : NsdEvent(w, n)) \/ (\E p \in Pnfds : PnfdEvent(w, p))
    BY <2>3, NsdmEventStep
  <2>4. CASE Send(w) \/ Crash(w) \/ Restart(w)
    BY <1>1, <2>4, IdleStep
  <2>5. QED
    BY <1>2, <2>1, <2>2, <2>3, <2>4
<1>3. CASE \/ UNCHANGED vars
           \/ \E s \in SubIds : Terminate(s)
           \/ \E v \in Vnfs : VnfCreated(v) \/ VnfRemoved(v)
  BY <1>3, TableStep
<1>4. QED
  BY <1>2, <1>3 DEF Next

LEMMA NextIInv ==
  ASSUME IInv, [Next]_vars
  PROVE  IInv'
<1>1. CASE TypeOK' /\ Tables /\ \A u \in Workers : Kept(u)
  <2>1. TypeInv
    BY DEF IInv
  <2>2. \A u \in Workers : WorkOK(u)' /\ HandlerOK(u)'
    BY <1>1, <2>1, KeptWorkOK, KeptHandlerOK
  <2>3. QED
    BY <1>1, <2>2 DEF IInv, TypeInv
<1>2. ASSUME NEW w \in Workers, Step(w)
      PROVE  IInv'
  <2>1. TypeInv /\ TypeOK' /\ Tables
    BY <1>2 DEF IInv, Step
  <2>2. \A u \in Workers \ {w} : WorkOK(u)' /\ HandlerOK(u)'
    BY <1>2, <2>1, KeptWorkOK, KeptHandlerOK DEF Step
  <2>3. QED
    BY <1>2, <2>1, <2>2 DEF IInv, TypeInv, Step
<1>3. QED
  BY <1>1, <1>2, NextSteps

THEOREM Inductive == Spec => []IInv
  BY InitIInv, NextIInv, PTL DEF Spec

\* The rows of the two tables stay well formed: no NSD subscription holds both an nsdId
\* and an nsdInfoId, or both a pnfdId and a pnfdInfoId, whoever asked for what.
THEOREM TypeCorrect == Spec => []TypeOK
<1>1. IInv => TypeOK
  BY DEF IInv, TypeInv
<1>2. QED
  BY <1>1, Inductive, PTL

-----------------------------------------------------------------------------
(* What a step may not do *)

\* A step that stores a subscription like another: DuplicateIsARace, of one step.
StoresKnown ==
  \A s \in live' \ live, t \in live :
    SameSubscription(subs'[s], subs[t]) =>
      \E w \in Workers : At(w, "saving") /\ pc'[w] = "idle" /\ t \in since[w]

LEMMA OnlySaveDbStores ==
  ASSUME IInv, Next, NEW s \in live' \ live
  PROVE  \E w \in Workers : s \in Fresh /\ SaveDb(w, s)
<1>1. ASSUME NEW w \in Workers, Subscribe(w) \/ CheckValid(w)
      PROVE  live' = live
  BY <1>1 DEF Subscribe, SubscribeToVnfs, SubscribeToNsds, CreateSubscription, CheckValid
<1>2. ASSUME NEW w \in Workers, NEW v \in Vnfs, VnfEvent(w, v)
      PROVE  live' = live
  BY <1>2 DEF VnfEvent, VnfOnboarded, VnfFromUri, VnfDeleted, VnfDeletedBySdc, Event
<1>3. ASSUME NEW w \in Workers,
             (\E n \in Nsds : NsdEvent(w, n)) \/ (\E p \in Pnfds : PnfdEvent(w, p))
      PROVE  live' = live
  BY <1>3 DEF NsdEvent, PnfdEvent, NsdOnboarding, NsdDeletion, PnfdOnboarding, PnfdFailure,
              PnfdDeletion, NsdNotifications, PnfNotifications, Given, Event
<1>4. ASSUME NEW w \in Workers, Send(w) \/ Crash(w) \/ Restart(w)
      PROVE  live' = live
  BY <1>4 DEF Send, PkgNotifications, SendNotification, PostNotification, Sent, Crash,
              Restart
<1>5. ASSUME NEW v \in Vnfs, VnfCreated(v) \/ VnfRemoved(v)
      PROVE  live' = live
  BY <1>5 DEF VnfCreated, VnfRemoved
<1>6. ASSUME NEW t \in SubIds, Terminate(t)
      PROVE  live' \subseteq live
  BY <1>6 DEF Terminate
<1>7. PICK w \in Workers : \E t \in Fresh : SaveDb(w, t)
  BY <1>1, <1>2, <1>3, <1>4, <1>5, <1>6 DEF Next
<1>8. PICK t \in Fresh : SaveDb(w, t)
  BY <1>7
<1>9. s = t
  BY <1>8 DEF SaveDb
<1>10. QED
  BY <1>8, <1>9

LEMMA StepStoresKnown ==
  ASSUME IInv, [Next]_vars
  PROVE  StoresKnown
<1> SUFFICES ASSUME NEW s \in live' \ live, NEW t \in live, SameSubscription(subs'[s], subs[t])
             PROVE  \E w \in Workers : At(w, "saving") /\ pc'[w] = "idle" /\ t \in since[w]
  BY DEF StoresKnown
<1>1. Next
  BY DEF vars
<1>2. PICK w \in Workers : s \in Fresh /\ SaveDb(w, s)
  BY <1>1, OnlySaveDbStores
<1>3. TypeOK /\ SavingOK(w)
  BY DEF IInv, TypeInv, HandlerOK
<1>4. At(w, "saving") /\ pc'[w] = "idle" /\ subs'[s] = work[w]
  BY <1>2, <1>3 DEF SaveDb, Goto, Fresh, TypeOK
<1>5. QED
  BY <1>3, <1>4 DEF SavingOK

\* A subscription like a stored one is only ever stored by a handler that had made its
\* search before that one was saved: check_valid and save_db are not one transaction.
THEOREM DuplicatesAreRaces == Spec => DuplicateIsARace
<1>1. IInv /\ [Next]_vars => [StoresKnown]_vars
  BY StepStoresKnown
<1>2. QED
  BY <1>1, Inductive, PTL DEF Spec, DuplicateIsARace, StoresKnown

\* SubscribersAreServed, of one step.
ServesAll ==
  \A w \in Workers : At(w, "posting") /\ pc'[w] = "idle" =>
    LET i == work[w].info  d == work[w].desc IN
    /\ \A s \in served[w] : IdsOf(subs[s]) \cap {i, d} # {}
    /\ \A s \in due[w] \cap live :
         \/ s \in served[w]
         \/ subs[s].auth = "token"
         \/ IdsOf(subs[s]) = {}
         \/ i \notin IdsOf(subs[s]) /\ (d = None \/ i \in since[w])

\* A handler that posts goes idle by one step only.
LEMMA OnlySentEnds ==
  ASSUME IInv, Next, NEW w \in Workers, At(w, "posting"), pc'[w] = "idle"
  PROVE  Sent(w)
<1>1. pc \in [Workers -> Label] /\ pc[w] = "posting" /\ pc' # pc
  BY DEF IInv, TypeInv, TypeOK, At
<1>2. \A u \in Workers : ~At(u, "posting") => u # w
  BY DEF At
<1>3. ASSUME NEW u \in Workers, NEW l, Goto(u, l)
      PROVE  u = w /\ l = "idle"
  BY <1>1, <1>3 DEF Goto
<1>4. ASSUME NEW u \in Workers,
             Subscribe(u) \/ CheckValid(u) \/ (\E s \in Fresh : SaveDb(u, s))
      PROVE  FALSE
  BY <1>2, <1>3, <1>4 DEF Subscribe, SubscribeToVnfs, SubscribeToNsds, CreateSubscription, Start,
                          CheckValid, SaveDb, At
<1>5. ASSUME NEW u \in Workers, NEW l, NEW i, NEW d, NEW k, NEW t, Event(u, l, i, d, k, t)
      PROVE  FALSE
  BY <1>2, <1>3, <1>5 DEF Event, Start, At
<1>6. ASSUME NEW u \in Workers,
             \/ \E v \in Vnfs : VnfEvent(u, v)
             \/ \E n \in Nsds : NsdEvent(u, n)
             \/ \E p \in Pnfds : PnfdEvent(u, p)
      PROVE  FALSE
  BY <1>5, <1>6 DEF VnfEvent, VnfOnboarded, VnfFromUri, VnfDeleted, VnfDeletedBySdc, NsdEvent,
                    PnfdEvent, Given, NsdOnboarding, NsdDeletion,
                    PnfdOnboarding, PnfdFailure, PnfdDeletion,
                    NsdNotifications, PnfNotifications
<1>7. ASSUME NEW u \in Workers,
             PkgNotifications(u) \/ SendNotification(u) \/ Crash(u) \/ Restart(u)
      PROVE  FALSE
  BY <1>2, <1>3, <1>7 DEF PkgNotifications, SendNotification, Crash, Restart, At
<1>8. ASSUME NEW u \in Workers, NEW s \in SubIds, PostNotification(u, s)
      PROVE  FALSE
  BY <1>1, <1>8 DEF PostNotification
<1>9. ASSUME \/ \E s \in SubIds : Terminate(s)
             \/ \E v \in Vnfs : VnfCreated(v) \/ VnfRemoved(v)
      PROVE  FALSE
  BY <1>1, <1>9 DEF Terminate, VnfCreated, VnfRemoved
<1>10. ASSUME NEW u \in Workers, Sent(u)
       PROVE  Sent(w)
  BY <1>3, <1>10 DEF Sent
<1>11. QED
  BY <1>4, <1>6, <1>7, <1>8, <1>9, <1>10 DEF Next, Send

LEMMA StepServesAll ==
  ASSUME IInv, [Next]_vars
  PROVE  ServesAll
<1> SUFFICES ASSUME NEW w \in Workers, At(w, "posting"), pc'[w] = "idle"
             PROVE  LET i == work[w].info  d == work[w].desc IN
                    /\ \A s \in served[w] : IdsOf(subs[s]) \cap {i, d} # {}
                    /\ \A s \in due[w] \cap live :
                         \/ s \in served[w]
                         \/ subs[s].auth = "token"
                         \/ IdsOf(subs[s]) = {}
                         \/ i \notin IdsOf(subs[s]) /\ (d = None \/ i \in since[w])
  BY DEF ServesAll
<1>1. Next
  BY DEF vars, At
<1>2. todo[w] = {}
  BY <1>1, OnlySentEnds DEF Sent
<1>3. DueOK(w)
  BY DEF IInv, HandlerOK
<1>4. QED
  BY <1>2, <1>3 DEF DueOK, At, Names, Missed

\* When a handler is done with its notification, it has posted only to subscriptions
\* that name the resource or its descriptor, and it has passed over none whose filter the
\* event meets, but for the four kinds that the code does not serve: an authentication
\* left to do, no resource named, and a descriptor only that the notification does not
\* tell, or that changed under the handler (send_notification).
THEOREM EventsAreServed == Spec => SubscribersAreServed
<1>1. IInv /\ [Next]_vars => [ServesAll]_vars
  BY StepServesAll
<1>2. QED
  BY <1>1, Inductive, PTL DEF Spec, SubscribersAreServed, ServesAll

=============================================================================
