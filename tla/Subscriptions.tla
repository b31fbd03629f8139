------------------------------ MODULE Subscriptions ------------------------------
(***************************************************************************)
(* Subscriptions to VNF packages (biz/vnf_pkg_subscription.py) and to NSDs *)
(* and PNFDs (biz/nsdm_subscription.py), and the notifications that the    *)
(* handlers of those resources send (biz/notificationsutil.py).            *)
(*                                                                         *)
(* A subscription is created in three steps: the callback is tried, the    *)
(* table is searched for the same subscription, the row is inserted.  A    *)
(* notification is sent by the handler that changed the resource, after    *)
(* the change: the subscriptions that name the resource are read, and each *)
(* is posted to in turn.  Handlers interleave between these steps.         *)
(*                                                                         *)
(* Left out: the bodies and links of rows and notifications, queries of    *)
(* subscriptions, and criteria other than identifiers, states and types.   *)
(* Subscribers are chosen by __contains, a search for a substring: no      *)
(* identifier here is part of another.                                     *)
(***************************************************************************)
EXTENDS Naturals, FiniteSets

CONSTANTS Vnfs, Nsds, Pnfds,            \* vnfPkgId, nsdInfoId, pnfdInfoId
          VnfdIds, NsdIds, PnfdIds,     \* descriptor identifiers
          Callbacks,                    \* where subscribers listen
          Filters,                      \* the filters that subscribers ask for
          States,                       \* operational and usage states
          SubIds,                       \* bound: ids that subscriptions are given
          Workers,                      \* handlers that can be at work at once
          MaxSent,                      \* bound: creates and events that they take on
          NoRow, None

Infos == Vnfs \cup Nsds \cup Pnfds
DescIds == VnfdIds \cup NsdIds \cup PnfdIds

NoticeTypes == {"onboarding", "failure", "change", "deletion"}

\* A filter: the identifiers it names, whatever list they are in, and the states and
\* the types of notifications it asks for.
Filter ==
  [ids : SUBSET (Infos \cup DescIds), states : SUBSET States, types : SUBSET NoticeTypes]

\* "plain" is no authentication, or BASIC; "token" is what the code leaves to do.
Row == [api : {"vnf", "nsd"}, callback : Callbacks, auth : {"plain", "token"},
        filter : Filter \cup {None}]

Notice == [info : Infos, desc : DescIds \cup {None}]

ASSUME IdsAssumption ==
  /\ Infos \cap DescIds = {}
  /\ None \notin Infos \cup DescIds \cup Filter \cup Row \cup Notice
  /\ NoRow \notin DescIds \cup {None}
  /\ SubIds \cap Vnfs = {}

ASSUME FiltersAssumption == Filters \subseteq Filter

ASSUME BoundAssumption == MaxSent \in Nat

VARIABLES subs,    \* what was saved under each id, in one of the two tables
          live,    \* ids whose row is still there
          vnfd,    \* vnfdId of each VNF package; NoRow when it has no row
          pc,      \* what each handler does next
          work,    \* the row a handler creates, or the notification it sends
          todo,    \* subscriptions it has read and not yet posted to
          sent,    \* how many creates and events handlers took on
          since,   \* subscriptions saved, and VNFs changed, since its check or event (history)
          due,     \* subscriptions whose filter the event meets (history)
          served   \* subscriptions it has posted to (history)

vars == <<subs, live, vnfd, pc, work, todo, sent, since, due, served>>

sending == <<todo, due, served>>

-----------------------------------------------------------------------------

NsdmSubscriptionModel == {r \in Row : r.api = "nsd"}

\* A VNF subscription without a filter has empty lists in its columns.
VnfPkgSubscriptionModel == {r \in Row : r.api = "vnf" /\ r.filter # None}

NoFilter == [ids |-> {}, states |-> {}, types |-> {}]

IdsOf(r) == IF r.filter = None THEN {} ELSE r.filter.ids

At(w, l) == pc[w] = l

Goto(w, l) == pc' = [pc EXCEPT ![w] = l]

Start(w, l, r) ==
  /\ At(w, "idle")
  /\ sent < MaxSent /\ sent' = sent + 1
  /\ Goto(w, l)
  /\ work' = [work EXCEPT ![w] = r]

\* A subscription was saved, or the vnfdId of a VNF changed: what the handlers that
\* go on have read may be out of date.
Note(x) == since' = [u \in Workers |-> IF pc'[u] = "idle" THEN {} ELSE since[u] \cup {x}]

Reset(w) == since' = [since EXCEPT ![w] = {}]

Init ==
  /\ subs = [s \in SubIds |-> None]
  /\ live = {}
  /\ vnfd = [v \in Vnfs |-> NoRow]
  /\ pc = [w \in Workers |-> "idle"]
  /\ work = [w \in Workers |-> None]
  /\ todo = [w \in Workers |-> {}]
  /\ sent = 0
  /\ since = [w \in Workers |-> {}]
  /\ due = [w \in Workers |-> {}]
  /\ served = [w \in Workers |-> {}]

-----------------------------------------------------------------------------
(* POST subscriptions *)

\* Once the callback has answered a GET with 204 within two seconds.  With an
\* authentication other than BASIC the check of a VNF subscription has no response to
\* look at, and refuses; an NSD subscription is checked without authentication.
Connected(r) == r.api = "vnf" => r.auth = "plain"

\* Faulty: every combination of criteria is taken.
AnyFilterTypes(r) == r \in Row

\* An NSD filter has nsdId or nsdInfoId, and pnfdId or pnfdInfoIds.
CheckFilterTypes(r) ==
  r.api = "nsd" =>
    /\ IdsOf(r) \cap NsdIds = {} \/ IdsOf(r) \cap Nsds = {}
    /\ IdsOf(r) \cap PnfdIds = {} \/ IdsOf(r) \cap Pnfds = {}

\* The filters that the two APIs can be asked for.
VnfFilters == {f \in Filters : f.ids \subseteq Vnfs \cup VnfdIds}

NsdFilters == {f \in Filters : f.ids \subseteq Nsds \cup NsdIds \cup Pnfds \cup PnfdIds}

VnfRow(cb, auth, f) ==
  [api |-> "vnf", callback |-> cb, auth |-> auth, filter |-> IF f = None THEN NoFilter ELSE f]

\* Without a filter no column of a criterion is set.
NsdRow(cb, auth, f) == [api |-> "nsd", callback |-> cb, auth |-> auth, filter |-> f]

CreateSubscription(w, r) ==
  /\ Connected(r) /\ CheckFilterTypes(r)
  /\ Start(w, "checking", r)
  /\ UNCHANGED <<subs, live, vnfd, since, sending>>

\* VNF: the search compares the states and the identifiers, not the types.
VnfFilterExists(r, q) ==
  q.filter.ids = r.filter.ids /\ q.filter.states = r.filter.states

\* NSD: all criteria are compared; a row without a filter makes the search raise.
NsdFilterExists(r, q) ==
  q.filter = None \/ (r.filter = None /\ q.filter = NoFilter) \/ q.filter = r.filter

\* Faulty: the criteria are searched for among the subscriptions of one
\* authentication only.
ExistsWithAuth(r) ==
  \E s \in live :
    /\ subs[s].api = r.api /\ subs[s].callback = r.callback /\ subs[s].auth = r.auth
    /\ IF r.api = "vnf" THEN VnfFilterExists(r, subs[s]) ELSE NsdFilterExists(r, subs[s])

\* The search ends with an exception: 303, or 500 for the row without a filter.
Exists(r) ==
  \E s \in live :
    /\ subs[s].api = r.api /\ subs[s].callback = r.callback
    /\ IF r.api = "vnf" THEN VnfFilterExists(r, subs[s]) ELSE NsdFilterExists(r, subs[s])

CheckValid(w) ==
  /\ At(w, "checking")
  /\ IF Exists(work[w]) THEN Goto(w, "idle") /\ work' = [work EXCEPT ![w] = None]
                        ELSE Goto(w, "saving") /\ UNCHANGED work
  /\ Reset(w)
  /\ UNCHANGED <<subs, live, vnfd, sent, sending>>

Fresh == {s \in SubIds : subs[s] = None}

\* A uuid that no subscription was given.
NewId == CHOOSE s \in Fresh : TRUE

SaveDb(w, s) ==
  /\ At(w, "saving")
  /\ s = NewId
  /\ subs' = [subs EXCEPT ![s] = work[w]]
  /\ live' = live \cup {s}
  /\ Goto(w, "idle")
  /\ work' = [work EXCEPT ![w] = None]
  /\ Note(s)
  /\ UNCHANGED <<vnfd, sent, sending>>

\* DELETE subscriptions: no handler that has read the row is told.
Terminate(s) ==
  /\ s \in live
  /\ live' = live \ {s}
  /\ UNCHANGED <<subs, vnfd, pc, work, since, sent, sending>>

-----------------------------------------------------------------------------
(* What is notified *)

\* The lists of a filter that are about a resource, of the kind i is of.
Lists(i) ==
  IF i \in Vnfs THEN {Vnfs, VnfdIds} ELSE IF i \in Nsds THEN {Nsds, NsdIds} ELSE {Pnfds, PnfdIds}

\* What the serializers say of a filter (vnf_pkg_notifications.py, nsdm_filter_data.py):
\* a notification of type t, about resource i with descriptor k, matches every list that
\* is given.  A filter that names resources of the other kind only is not for this one.
Meets(r, i, k, t) ==
  LET f == IF r.filter = None THEN NoFilter ELSE r.filter IN
  /\ r.api = (IF i \in Vnfs THEN "vnf" ELSE "nsd")
  /\ f.types = {} \/ t \in f.types
  /\ f.ids = {} \/ \E l \in Lists(i) : f.ids \cap l # {}
  /\ \A l \in Lists(i) : f.ids \cap l = {} \/ f.ids \cap l \cap {i, k} # {}

\* The handler w is about to notify of what it did to resource i, whose descriptor is k,
\* or was before a deletion; it says that it is d.
Event(w, l, i, d, k, t) ==
  /\ Start(w, l, [info |-> i, desc |-> d])
  /\ due' = [due EXCEPT ![w] = {s \in live : Meets(subs[s], i, k, t)}]
  /\ UNCHANGED <<subs, live, todo, served>>

VnfCreated(v) ==
  /\ vnfd[v] = NoRow
  /\ vnfd' = [vnfd EXCEPT ![v] = None]
  /\ UNCHANGED <<subs, live, pc, work, sent, sending>>
  /\ Note(v)

\* SDC takes a package away after it has notified of it, or when a distribution fails;
\* nobody is told of that.
VnfRemoved(v) ==
  /\ vnfd[v] # NoRow
  /\ vnfd' = [vnfd EXCEPT ![v] = NoRow]
  /\ UNCHANGED <<subs, live, pc, work, sent, sending>>
  /\ Note(v)

\* The vnfdId that the row holds.
VnfdOf(v) == IF vnfd[v] = NoRow THEN None ELSE vnfd[v]

Changed(w, v) ==
  since' = [u \in Workers |-> IF u = w \/ pc[u] = "idle" THEN {} ELSE since[u] \cup {v}]

\* The onboarding of an archive, from the operator or from SDC.
VnfOnboarded(w, v, k) ==
  /\ vnfd[v] # NoRow
  /\ vnfd' = [vnfd EXCEPT ![v] = k]
  /\ Event(w, "preparing", v, k, k, "onboarding")
  /\ Changed(w, v)

\* An upload from a URI notifies of the onboarding before it fetches anything.
VnfFromUri(w, v) ==
  /\ vnfd[v] # NoRow
  /\ Event(w, "preparing", v, vnfd[v], vnfd[v], "onboarding")
  /\ Reset(w)
  /\ UNCHANGED vnfd

\* The operator's delete: the row goes first, and its vnfdId with it.
VnfDeleted(w, v) ==
  /\ vnfd[v] # NoRow
  /\ vnfd' = [vnfd EXCEPT ![v] = NoRow]
  /\ Event(w, "preparing", v, None, vnfd[v], "change")
  /\ Changed(w, v)

\* SDC's delete notifies first, whether or not there is a row.
VnfDeletedBySdc(w, v) ==
  /\ Event(w, "preparing", v, VnfdOf(v), VnfdOf(v), "change")
  /\ Reset(w)
  /\ UNCHANGED vnfd

\* NSD and PNFD notifications are given the identifiers.
Given(w, i, d, k, t) ==
  /\ Event(w, "matching", i, d, k, t)
  /\ Reset(w)
  /\ UNCHANGED vnfd

NsdNotifications(w, n, d, k, t) == Given(w, n, d, k, t)

PnfNotifications(w, p, d, k, t) == Given(w, p, d, k, t)

\* The onboarding of an NSD, and its failure over a taken nsdId.
NsdOnboarding(w, n, k) ==
  \E t \in {"onboarding", "failure"} : NsdNotifications(w, n, k, k, t)

\* The delete does not say which nsdId the NSD had.
NsdDeletion(w, n, k) == NsdNotifications(w, n, None, k, "deletion")

PnfdOnboarding(w, p, k) == PnfNotifications(w, p, k, k, "onboarding")

\* An upload for a PNFD that does not exist.
PnfdFailure(w, p) == PnfNotifications(w, p, None, None, "failure")

PnfdDeletion(w, p, k) == PnfNotifications(w, p, k, k, "deletion")

-----------------------------------------------------------------------------
(* send_notification *)

\* The vnfdId is read again, from the row, if there still is one.
PkgNotifications(w) ==
  /\ At(w, "preparing")
  /\ LET v == work[w].info IN
       work' = [work EXCEPT ![w] = [info |-> v, desc |-> VnfdOf(v)]]
  /\ Goto(w, "matching")
  /\ UNCHANGED <<subs, live, vnfd, since, sent, sending>>

\* The subscriptions that name the resource or its descriptor.
Naming(i, d) == {s \in live : IdsOf(subs[s]) \cap {i, d} # {}}

\* Faulty: both identifiers must match.
MatchBoth(w) ==
  /\ At(w, "matching")
  /\ todo' = [todo EXCEPT ![w] =
       {s \in live : {work[w].info, work[w].desc} \ {None} \subseteq IdsOf(subs[s])}]
  /\ Goto(w, "posting")
  /\ UNCHANGED <<subs, live, vnfd, work, since, due, served, sent>>

\* One query: a column contains the identifier of the resource or, when it is known,
\* the one of its descriptor.  Types and states are not looked at, and a subscription
\* that names no resource is never found.
SendNotification(w) ==
  /\ At(w, "matching")
  /\ todo' = [todo EXCEPT ![w] = Naming(work[w].info, work[w].desc)]
  /\ Goto(w, "posting")
  /\ UNCHANGED <<subs, live, vnfd, work, since, due, served, sent>>

\* The row is the one that was read, whether or not it was deleted meanwhile.  With an
\* authentication other than BASIC nothing is posted; the exception is swallowed.
\* Any answer to a POST will do, and so will an error, but there is no timeout: this
\* step may never end.
PostNotification(w, s) ==
  /\ At(w, "posting")
  /\ s \in todo[w]
  /\ todo' = [todo EXCEPT ![w] = @ \ {s}]
  /\ served' = IF subs[s].auth = "plain" THEN [served EXCEPT ![w] = @ \cup {s}] ELSE served
  /\ UNCHANGED <<subs, live, vnfd, pc, work, since, due, sent>>

Forget(w) ==
  /\ work' = [work EXCEPT ![w] = None]
  /\ todo' = [todo EXCEPT ![w] = {}]
  /\ due' = [due EXCEPT ![w] = {}]
  /\ served' = [served EXCEPT ![w] = {}]
  /\ Reset(w)

Sent(w) ==
  /\ At(w, "posting") /\ todo[w] = {}
  /\ Goto(w, "idle")
  /\ Forget(w)
  /\ UNCHANGED <<subs, live, vnfd, sent>>

-----------------------------------------------------------------------------

\* uwsgi kills a process, or it is restarted.
Crash(w) ==
  /\ ~At(w, "down")
  /\ Goto(w, "down")
  /\ Forget(w)
  /\ UNCHANGED <<subs, live, vnfd, sent>>

Restart(w) ==
  /\ At(w, "down")
  /\ Goto(w, "idle")
  /\ UNCHANGED <<subs, live, vnfd, work, since, sent, sending>>

SubscribeToVnfs(w) ==
  \E cb \in Callbacks, auth \in {"plain", "token"}, f \in VnfFilters \cup {None} :
    CreateSubscription(w, VnfRow(cb, auth, f))

SubscribeToNsds(w) ==
  \E cb \in Callbacks, auth \in {"plain", "token"}, f \in NsdFilters \cup {None} :
    CreateSubscription(w, NsdRow(cb, auth, f))

Subscribe(w) == SubscribeToVnfs(w) \/ SubscribeToNsds(w)

VnfEvent(w, v) ==
  \/ \E k \in VnfdIds : VnfOnboarded(w, v, k)
  \/ VnfFromUri(w, v)
  \/ VnfDeleted(w, v)
  \/ VnfDeletedBySdc(w, v)

NsdEvent(w, n) ==
  \/ \E k \in NsdIds : NsdOnboarding(w, n, k)
  \/ \E k \in NsdIds \cup {None} : NsdDeletion(w, n, k)

PnfdEvent(w, p) ==
  \/ \E k \in PnfdIds : PnfdOnboarding(w, p, k)
  \/ \E k \in PnfdIds \cup {None} : PnfdDeletion(w, p, k)
  \/ PnfdFailure(w, p)

Send(w) ==
  \/ PkgNotifications(w)
  \/ SendNotification(w)
  \/ \E s \in SubIds : PostNotification(w, s)
  \/ Sent(w)

Next ==
  \/ \E w \in Workers :
       \/ Subscribe(w) \/ CheckValid(w) \/ \E s \in Fresh : SaveDb(w, s)
       \/ \E v \in Vnfs : VnfEvent(w, v)
       \/ \E n \in Nsds : NsdEvent(w, n)
       \/ \E p \in Pnfds : PnfdEvent(w, p)
       \/ Send(w) \/ Crash(w) \/ Restart(w)
  \/ \E s \in SubIds : Terminate(s)
  \/ \E v \in Vnfs : VnfCreated(v) \/ VnfRemoved(v)

Spec == Init /\ [][Next]_vars

-----------------------------------------------------------------------------

Label == {"idle", "checking", "saving", "preparing", "matching", "posting", "down"}

\* Values that exclude each other in the columns of an NSD subscription.
Exclusive == {NsdIds \X Nsds, PnfdIds \X Pnfds}

\* No row holds both of two criteria that exclude each other.
RowOK(r) ==
  /\ r \in NsdmSubscriptionModel \cup VnfPkgSubscriptionModel
  /\ r.api = "nsd" =>
       \A pairs \in Exclusive : \A p \in pairs : ~({p[1], p[2]} \subseteq IdsOf(r))

\* The rows of the two tables are well formed and so is what the handlers hold.
TypeOK ==
  /\ subs \in [SubIds -> Row \cup {None}]
  /\ \A s \in SubIds : subs[s] # None => RowOK(subs[s])
  /\ live \in SUBSET {s \in SubIds : subs[s] # None}
  /\ vnfd \in [Vnfs -> VnfdIds \cup {None, NoRow}]
  /\ pc \in [Workers -> Label]
  /\ work \in [Workers -> Row \cup Notice \cup {None}]
  /\ todo \in [Workers -> SUBSET SubIds]
  /\ sent \in 0..MaxSent
  /\ since \in [Workers -> SUBSET (SubIds \cup Vnfs)]
  /\ due \in [Workers -> SUBSET SubIds]
  /\ served \in [Workers -> SUBSET SubIds]

SameSubscription(r, q) ==
  r.api = q.api /\ r.callback = q.callback /\ r.filter = q.filter

\* Two subscriptions with the same callback and filter are stored only when one was
\* saved between the search made for the other and its insert.
DuplicateIsARace ==
  [][\A s \in live' \ live, t \in live :
       SameSubscription(subs'[s], subs[t]) =>
         \E w \in Workers : At(w, "saving") /\ pc'[w] = "idle" /\ t \in since[w]]_vars

\* When a handler has sent its notification, the subscriptions that were posted to name
\* what is notified, and those that were stored at the event, still are, and whose filter
\* the event meets have been posted to.  The code passes over four kinds of them: those
\* with the authentication left to do; those that name no resource; and, of those that
\* name its descriptor only, the ones that the notification does not tell the descriptor
\* to, as deletes do not, and the ones whose vnfdId changed since the event.
SubscribersAreServed ==
  [][\A w \in Workers : At(w, "posting") /\ pc'[w] = "idle" =>
       LET i == work[w].info  d == work[w].desc IN
       /\ \A s \in served[w] : IdsOf(subs[s]) \cap {i, d} # {}
       /\ \A s \in due[w] \cap live :
            \/ s \in served[w]
            \/ subs[s].auth = "token"
            \/ IdsOf(subs[s]) = {}
            \/ i \notin IdsOf(subs[s]) /\ (d = None \/ i \in since[w])]_vars

=============================================================================
