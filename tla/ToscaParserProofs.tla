--------------------------- MODULE ToscaParserProofs ---------------------------
(***************************************************************************)
(* Theorems of ToscaParser: what the parsers promise holds of any service  *)
(* template, with any number of nodes and requirements and any hierarchy   *)
(* of types.  The templates a designer writes are well formed, and of a    *)
(* well-formed template each property follows from what the parsers make   *)
(* of it.                                                                  *)
(***************************************************************************)
EXTENDS ToscaParser, WellFoundedInduction, TLAPS

WellFormed ==
  /\ kind \in Kinds
  /\ nodes \in Seq(Node)
  /\ given \subseteq ToSet(VnfdKeys)
  /\ prop \in Props \cup {None}

LEMMA NextWellFormed == WellFormed /\ [Next]_vars => WellFormed'
<1> SUFFICES ASSUME WellFormed, [Next]_vars
             PROVE  WellFormed'
  OBVIOUS
<1>1. ASSUME NEW t \in NodeTypes, NEW full \in BOOLEAN, AddNode(t, full)
      PROVE  WellFormed'
  <2>1. [type |-> t, full |-> full, reqs |-> <<>>] \in Node
    BY DEF Node
  <2> QED
    BY <1>1, <2>1 DEF AddNode, WellFormed
<1>2. ASSUME NEW i \in DOMAIN nodes, NEW req \in Req, AddRequirement(i, req)
      PROVE  WellFormed'
  <2>1. nodes \in Seq(Node) /\ nodes[i] \in Node
    BY DEF WellFormed
  <2>2. [nodes[i] EXCEPT !.reqs = Append(@, req)] \in Node
    <3>1. Append(nodes[i].reqs, req) \in Seq(Req)
      BY <2>1 DEF Node
    <3> QED
      BY <2>1, <3>1 DEF Node
  <2>3. nodes' = [nodes EXCEPT ![i] = [nodes[i] EXCEPT !.reqs = Append(@, req)]]
    BY <1>2, <2>1 DEF AddRequirement
  <2>4. nodes' \in Seq(Node)
    BY <2>1, <2>2, <2>3
  <2> QED
    BY <1>2, <2>4 DEF AddRequirement, WellFormed
<1>3. ASSUME NEW k \in ToSet(VnfdKeys), AddMetadata(k)
      PROVE  WellFormed'
  BY <1>3 DEF AddMetadata, WellFormed
<1>4. ASSUME NEW p \in Props, AddProperty(p)
      PROVE  WellFormed'
  BY <1>4 DEF AddProperty, WellFormed
<1>5. CASE StartOver
  BY <1>5 DEF StartOver, WellFormed
<1>6. CASE UNCHANGED vars
  BY <1>6 DEF vars, WellFormed
<1> QED
  BY <1>1, <1>2, <1>3, <1>4, <1>5, <1>6 DEF Next

LEMMA AlwaysWellFormed == Spec => []WellFormed
<1>1. Init => WellFormed
  BY DEF Init, WellFormed
<1>2. WellFormed /\ [Next]_vars => WellFormed'
  BY NextWellFormed
<1> QED
  BY <1>1, <1>2, PTL DEF Spec

-----------------------------------------------------------------------------
(* Places and the first of them *)

LEMMA LeastNat ==
  ASSUME NEW T, T \subseteq Nat, T # {}
  PROVE  \E m \in T : \A k \in T : m <= k
<1>1. PICK m \in T : \A k \in T : ~(<<k, m>> \in OpToRel(<, Nat))
  BY NatLessThanWellFounded, WFMin
<1>2. \A k \in T : ~(k < m)
  BY <1>1 DEF OpToRel
<1> QED
  BY <1>2

LEMMA PlaceIs ==
  ASSUME WellFormed, NEW i \in DOMAIN nodes, NEW x \in Places(i)
  PROVE  /\ x[1] = i /\ x[2] \in Nat /\ x = <<i, x[2]>>
         /\ At(x) \in Req
<1>1. nodes[i].reqs \in Seq(Req)
  <2>1. nodes \in Seq(Node) /\ nodes[i] \in Node
    BY DEF WellFormed
  <2> QED
    BY <2>1 DEF Node
<1>2. x[1] = i /\ x[2] \in DOMAIN nodes[i].reqs /\ x = <<i, x[2]>>
  BY DEF Places
<1> QED
  BY <1>1, <1>2 DEF At

\* The first of some requirements of a node is one of them.
LEMMA FirstIsOne ==
  ASSUME WellFormed, NEW i \in DOMAIN nodes, NEW xs, xs \subseteq Places(i), xs # {}
  PROVE  \E x \in xs : FirstOf(xs) = GetRequirementNodeName(x)
<1> DEFINE T == {x[2] : x \in xs}
<1>1. T \subseteq Nat /\ T # {}
  BY PlaceIs
<1>2. PICK m \in T : \A k \in T : m <= k
  <2> HIDE DEF T
  <2> QED
    BY <1>1, LeastNat
<1>3. \E x \in xs : \A y \in xs : x[2] <= y[2]
  BY <1>2
<1> QED
  BY <1>3 DEF FirstOf

LEMMA ByNameIs ==
  ASSUME NEW i, NEW name
  PROVE  /\ GetRequirementByName(i, name) \subseteq BuildRequirements(i)
         /\ BuildRequirements(i) \subseteq Places(i)
         /\ \A x \in GetRequirementByName(i, name) : At(x).name = name
  BY DEF GetRequirementByName, BuildRequirements

\* What a connection point shows is None, or what one of its requirements names.
LEMMA FirstNamed ==
  ASSUME WellFormed, NEW i \in DOMAIN nodes, NEW name, NEW n,
         n = FirstOf(GetRequirementByName(i, name)), n # None
  PROVE  \E x \in GetRequirementByName(i, name) : GetRequirementNodeName(x) = n
<1>1. GetRequirementByName(i, name) # {}
  BY DEF FirstOf
<1> QED
  BY <1>1, ByNameIs, FirstIsOne

\* A requirement that is kept names a node that is there, or is in its short form.
LEMMA KeptIsResolved ==
  ASSUME WellFormed, NEW i \in DOMAIN nodes, NEW x \in BuildRequirements(i)
  PROVE  Resolved(i, GetRequirementNodeName(x))
<1>1. x \in Places(i) /\ At(x) \in Req
  BY PlaceIs DEF BuildRequirements
<1>2. At(x).form \in {"str", "dict"}
  BY <1>1 DEF Req
<1> QED
  BY <1>1, <1>2 DEF BuildRequirements, Resolved, GetRequirementNodeName

\* Every requirement of a name that counts for its node is an edge of the deploy graph.
LEMMA KeptIsEdge ==
  ASSUME NEW i \in DOMAIN nodes, NEW name, Counts(i, name),
         NEW x \in GetRequirementByName(i, name), GetDeployGraph # Failed
  PROVE  <<GetRequirementNodeName(x), i>> \in GetDeployGraph
<1>1. x \in Places(i) /\ Counts(i, At(x).name)
  BY ByNameIs
<1>2. <<At(x).node, i>> \in BuildDeployPath(i)
  BY <1>1 DEF BuildDeployPath
<1> QED
  BY <1>2 DEF GetDeployGraph, GetRequirementNodeName

-----------------------------------------------------------------------------
(* The model of a VNFD *)

\* What both parsers share.
LEMMA SharedModel ==
  ASSUME NEW v \in Versions, NEW m, m = ParseVnfd(v), m # Failed
  PROVE  /\ m.cps = GetAllCp
         /\ m.graph = GetDeployGraph /\ GetDeployGraph # Failed
         /\ m.descriptor_id \in {BuildVnf} \cup ({BuildVnf251} \ {Failed})
         /\ m.vdus \in {GetAllVdu, GetAllVdu251}
<1>1. CASE v = "base"
  <2>1. m = ParseBase
    BY <1>1 DEF ParseVnfd, CreateVnfdSOLParser
  <2> QED
    BY <2>1 DEF ParseBase
<1>2. CASE v = "2.5.1+1"
  <2>1. m = Parse251
    BY <1>2 DEF ParseVnfd, CreateVnfdSOLParser
  <2> QED
    BY <2>1 DEF Parse251
<1> QED
  BY <1>1, <1>2 DEF Versions

LEMMA VduLists ==
  ASSUME NEW v \in Versions, NEW m, m = ParseVnfd(v), m # Failed
  PROVE  /\ DOMAIN m.vdus = NodesOf("Vdu.Compute")
         /\ \A u \in DOMAIN m.vdus :
              /\ m.vdus[u].dependencies = GetRequirementByName(u, "dependency")
              /\ m.vdus[u].vls = GetLinkedVlIds(u)
              /\ m.vdus[u].cps = GetVirtualBindingCps(u)
<1>1. m.vdus \in {GetAllVdu, GetAllVdu251}
  BY SharedModel
<1>2. CASE m.vdus = GetAllVdu
  BY <1>2 DEF GetAllVdu
<1>3. CASE m.vdus = GetAllVdu251
  BY <1>3 DEF GetAllVdu251
<1> QED
  BY <1>1, <1>2, <1>3

LEMMA CpLists ==
  ASSUME NEW v \in Versions, NEW m, m = ParseVnfd(v), m # Failed
  PROVE  /\ DOMAIN m.cps = NodesOf("VduCp")
         /\ \A c \in DOMAIN m.cps :
              /\ m.cps[c].vdu_id = FirstOf(GetRequirementByName(c, "virtual_binding"))
              /\ m.cps[c].vl_id = FirstOf(GetRequirementByName(c, "virtual_link"))
              /\ m.cps[c].vls \subseteq GetRequirementByName(c, "virtual_link")
<1>1. m.cps = GetAllCp
  BY SharedModel
<1> QED
  BY <1>1 DEF GetAllCp, GetNodeVduId, GetNodeVlId, BuildCpVls

LEMMA KeysAre == /\ DOMAIN VnfdKeys = 1..3
                 /\ ToSet(VnfdKeys) = {VnfdKeys[k] : k \in 1..3}
                 /\ ToSet(VnfdKeys) = {"descriptor_id", "id", "UUID"}
  BY DEF VnfdKeys, ToSet

\* The metadata that the parsers of the two versions choose are among those given.
LEMMA ChosenIsFound ==
  ASSUME Found # {}
  PROVE  Min(Found) \in Found /\ Max(Found) \in Found
<1>1. Found \subseteq {1, 2, 3}
  BY KeysAre DEF Found
<1>2. \E m \in Found : \A k \in Found : m <= k
  <2>1. Found \subseteq Nat
    BY <1>1
  <2> QED
    BY <2>1, LeastNat
<1>3. \E m \in Found : \A k \in Found : m >= k
  <2>1. CASE 3 \in Found
    BY <1>1, <2>1
  <2>2. CASE 3 \notin Found /\ 2 \in Found
    BY <1>1, <2>2
  <2>3. CASE 3 \notin Found /\ 2 \notin Found
    <3>1. Found = {1}
      BY <1>1, <2>3
    <3> QED
      BY <3>1
  <2> QED
    BY <2>1, <2>2, <2>3
<1> QED
  BY <1>2, <1>3 DEF Min, Max

LEMMA IdentifierIs ==
  ASSUME WellFormed, NEW d \in {BuildVnf} \cup ({BuildVnf251} \ {Failed})
  PROVE  d \in ToSet(VnfdKeys) \cup Props \cup {None}
<1>1. \A k \in Found : VnfdKeys[k] \in ToSet(VnfdKeys)
  BY KeysAre DEF Found
<1>2. CASE d = BuildVnf
  BY <1>1, <1>2, ChosenIsFound DEF BuildVnf, WellFormed
<1>3. CASE d = BuildVnf251 /\ d # Failed
  <2>1. GetProperty \in ToSet(VnfdKeys) \cup {None}
    BY <1>1, ChosenIsFound DEF GetProperty
  <2>2. prop \in {"value", "schema", "bare", "untyped", None}
    BY DEF WellFormed, Props
  <2>3. None \notin {"value", "schema", "bare", "untyped"}
    BY NoneAssumption DEF Props
  <2>4. CASE prop \in {"value", "schema"}
    <3>1. prop \notin {None, "bare"}
      BY <2>3, <2>4
    <3>2. BuildVnf251 = "value"
      BY <2>4, <3>1 DEF BuildVnf251
    <3> QED
      BY <1>3, <3>2 DEF Props
  <2>5. CASE prop \in {None, "bare"}
    <3>1. "bare" \notin {"value", "schema"}
      OBVIOUS
    <3>2. prop \notin {"value", "schema"}
      BY <2>3, <2>5, <3>1
    <3>3. BuildVnf251 = GetProperty
      BY <2>5, <3>2 DEF BuildVnf251
    <3> QED
      BY <1>3, <2>1, <3>3
  <2>6. CASE prop = "untyped"
    BY <1>3, <2>3, <2>6 DEF BuildVnf251
  <2> QED
    BY <2>2, <2>4, <2>5, <2>6
<1> QED
  BY <1>2, <1>3

-----------------------------------------------------------------------------
(* The theorems *)

\* The parsers of basemodel.py, vnfd_sol_base.py and vnfd_sol_251.py yield what the
\* model says they do: the VNFD is identified by a property or by an entry of the
\* metadata, and a connection point by the name of a VDU or by nothing.
THEOREM TypeCorrect == Spec => []TypeOK
<1>1. WellFormed => TypeOK
  <2> SUFFICES ASSUME WellFormed
               PROVE  TypeOK
    OBVIOUS
  <2>1. ASSUME NEW v \in Versions, ParseVnfd(v) # Failed
        PROVE  ParseVnfd(v).descriptor_id \in ToSet(VnfdKeys) \cup Props \cup {None}
    <3>1. ParseVnfd(v).descriptor_id \in {BuildVnf} \cup ({BuildVnf251} \ {Failed})
      BY <2>1, SharedModel
    <3> QED
      BY <3>1, IdentifierIs
  <2>2. ASSUME NEW v \in Versions, ParseVnfd(v) # Failed,
               NEW c \in DOMAIN ParseVnfd(v).cps
        PROVE  ParseVnfd(v).cps[c].vdu_id \in Names \cup {None}
    <3> DEFINE n == ParseVnfd(v).cps[c].vdu_id
    <3>1. c \in DOMAIN nodes /\ n = FirstOf(GetRequirementByName(c, "virtual_binding"))
      BY <2>2, CpLists DEF NodesOf
    <3>2. ASSUME n # None
          PROVE  n \in Names \cup {None}
      <4> HIDE DEF n
      <4>1. PICK x \in GetRequirementByName(c, "virtual_binding") :
              GetRequirementNodeName(x) = n
        BY <3>1, <3>2, FirstNamed
      <4>2. At(x) \in Req
        BY <3>1, ByNameIs, PlaceIs
      <4> QED
        BY <4>1, <4>2 DEF GetRequirementNodeName, Req
    <3> QED
      BY <3>2
  <2> QED
    BY <2>1, <2>2 DEF TypeOK, WellFormed
<1> QED
  BY <1>1, AlwaysWellFormed, PTL

\* What binds nodes to a VDU, by its parts.
LEMMA BindingIs ==
  ASSUME WellFormed, NEW u, NEW c \in DOMAIN nodes,
         NEW x \in GetVirtualBindingCps(u), x[1] = c
  PROVE  /\ x \in BindingsOf(c)
         /\ GetRequirementNodeName(x) = u
<1>1. PICK i \in DOMAIN nodes : x \in BuildRequirements(i)
  BY DEF GetVirtualBindingCps, AllRequirements
<1>2. x[1] = i
  BY <1>1, ByNameIs, PlaceIs
<1> QED
  BY <1>1, <1>2 DEF GetVirtualBindingCps, BindingsOf

\* A connection point that says a VDU is its own binds to it.
LEMMA PointIsListed ==
  ASSUME WellFormed, NEW c \in DOMAIN nodes, NEW u \in DOMAIN nodes,
         FirstOf(GetRequirementByName(c, "virtual_binding")) = u
  PROVE  \E x \in GetVirtualBindingCps(u) : x[1] = c
<1>1. u # None
  <2>1. u \in Nat
    BY DEF WellFormed
  <2> QED
    BY <2>1, NoneAssumption
<1>2. PICK x \in GetRequirementByName(c, "virtual_binding") : GetRequirementNodeName(x) = u
  BY <1>1, FirstNamed
<1>3. x \in BuildRequirements(c) /\ x[1] = c /\ At(x).name \in Bindings
  BY ByNameIs, PlaceIs, TypesAssumption
<1>4. x \in AllRequirements
  BY <1>3 DEF AllRequirements
<1> QED
  BY <1>2, <1>3, <1>4 DEF GetVirtualBindingCps

\* A point that is bound once says which VDU it is bound to.
LEMMA BoundOnceSays ==
  ASSUME WellFormed, NEW c \in DOMAIN nodes, NEW u,
         NEW x \in GetVirtualBindingCps(u), x[1] = c,
         NEW y, BindingsOf(c) = {y}, At(y).name = "virtual_binding"
  PROVE  FirstOf(GetRequirementByName(c, "virtual_binding")) = u
<1>1. x = y /\ GetRequirementNodeName(y) = u /\ y \in BuildRequirements(c)
  BY BindingIs DEF BindingsOf
<1>2. GetRequirementByName(c, "virtual_binding") = {y}
  BY <1>1, TypesAssumption DEF GetRequirementByName, BindingsOf
<1>3. \E z \in {y} : FirstOf({y}) = GetRequirementNodeName(z)
  <2>1. {y} \subseteq Places(c) /\ {y} # {}
    BY <1>1, ByNameIs
  <2> QED
    BY <2>1, FirstIsOne
<1> QED
  BY <1>1, <1>2, <1>3

\* The lists that vnfd_sol_base.py and vnfd_sol_251.py make of one VNFD, each by a
\* loop of its own over the nodes, agree with each other and with the deploy graph.
THEOREM ListsAgree == Spec => []BindingsAgree
<1>1. WellFormed => BindingsAgree
  <2> SUFFICES ASSUME WellFormed, NEW v \in Versions, NEW m,
                      m = ParseVnfd(v), m # Failed
               PROVE  /\ \A c \in DOMAIN m.cps, u \in DOMAIN m.vdus :
                           LET listed == \E x \in m.vdus[u].cps : x[1] = c
                               boundOnce == \E x \in BindingsOf(c) :
                                              /\ BindingsOf(c) = {x}
                                              /\ At(x).name = "virtual_binding"
                           IN /\ m.cps[c].vdu_id = u => listed
                              /\ listed /\ boundOnce => m.cps[c].vdu_id = u
                              /\ listed /\ m.cps[c].vl_id # None =>
                                   \E y \in m.vdus[u].vls :
                                     GetRequirementNodeName(y[2]) = m.cps[c].vl_id
                      /\ \A c \in DOMAIN m.cps :
                           /\ m.cps[c].vdu_id # None /\ Counts(c, "virtual_binding") =>
                                <<m.cps[c].vdu_id, c>> \in m.graph
                           /\ m.cps[c].vl_id # None /\ Counts(c, "virtual_link") =>
                                <<m.cps[c].vl_id, c>> \in m.graph
                      /\ \A u \in DOMAIN m.vdus : \A d \in m.vdus[u].dependencies :
                           Counts(u, "dependency") =>
                             <<GetRequirementNodeName(d), u>> \in m.graph
    BY DEF BindingsAgree
  <2>1. ASSUME NEW c \in DOMAIN m.cps
        PROVE  /\ c \in DOMAIN nodes
               /\ m.cps[c].vdu_id = FirstOf(GetRequirementByName(c, "virtual_binding"))
               /\ m.cps[c].vl_id = FirstOf(GetRequirementByName(c, "virtual_link"))
    BY <2>1, CpLists DEF NodesOf
  <2>2. ASSUME NEW u \in DOMAIN m.vdus
        PROVE  /\ u \in DOMAIN nodes
               /\ m.vdus[u].dependencies = GetRequirementByName(u, "dependency")
               /\ m.vdus[u].vls = GetLinkedVlIds(u)
               /\ m.vdus[u].cps = GetVirtualBindingCps(u)
    BY <2>2, VduLists DEF NodesOf
  <2>3. ASSUME NEW c \in DOMAIN m.cps, NEW u \in DOMAIN m.vdus, m.cps[c].vdu_id = u
        PROVE  \E x \in m.vdus[u].cps : x[1] = c
    BY <2>1, <2>2, <2>3, PointIsListed
  <2>4. ASSUME NEW c \in DOMAIN m.cps, NEW u \in DOMAIN m.vdus,
               NEW x \in m.vdus[u].cps, x[1] = c,
               NEW y \in BindingsOf(c), BindingsOf(c) = {y}, At(y).name = "virtual_binding"
        PROVE  m.cps[c].vdu_id = u
    BY <2>1, <2>2, <2>4, BoundOnceSays
  <2>5. ASSUME NEW c \in DOMAIN m.cps, NEW u \in DOMAIN m.vdus,
               NEW x \in m.vdus[u].cps, x[1] = c, m.cps[c].vl_id # None
        PROVE  \E y \in m.vdus[u].vls : GetRequirementNodeName(y[2]) = m.cps[c].vl_id
    <3>1. PICK y \in GetRequirementByName(c, "virtual_link") :
            GetRequirementNodeName(y) = m.cps[c].vl_id
      BY <2>1, <2>5, FirstNamed
    <3>2. <<x, y>> \in GetLinkedVlIds(u)
      BY <2>2, <2>5, <3>1 DEF GetLinkedVlIds
    <3> QED
      BY <2>2, <3>1, <3>2
  <2>6. ASSUME NEW i \in DOMAIN nodes, NEW name, Counts(i, name),
               NEW x \in GetRequirementByName(i, name)
        PROVE  <<GetRequirementNodeName(x), i>> \in m.graph
    BY <2>6, KeptIsEdge, SharedModel
  <2>7. ASSUME NEW c \in DOMAIN m.cps, m.cps[c].vdu_id # None, Counts(c, "virtual_binding")
        PROVE  <<m.cps[c].vdu_id, c>> \in m.graph
    <3>1. PICK x \in GetRequirementByName(c, "virtual_binding") :
            GetRequirementNodeName(x) = m.cps[c].vdu_id
      BY <2>1, <2>7, FirstNamed
    <3> QED
      BY <2>1, <2>6, <2>7, <3>1
  <2>8. ASSUME NEW c \in DOMAIN m.cps, m.cps[c].vl_id # None, Counts(c, "virtual_link")
        PROVE  <<m.cps[c].vl_id, c>> \in m.graph
    <3>1. PICK x \in GetRequirementByName(c, "virtual_link") :
            GetRequirementNodeName(x) = m.cps[c].vl_id
      BY <2>1, <2>8, FirstNamed
    <3> QED
      BY <2>1, <2>6, <2>8, <3>1
  <2>9. ASSUME NEW u \in DOMAIN m.vdus, NEW d \in m.vdus[u].dependencies,
               Counts(u, "dependency")
        PROVE  <<GetRequirementNodeName(d), u>> \in m.graph
    BY <2>2, <2>6, <2>9
  <2> QED
    BY <2>3, <2>4, <2>5, <2>7, <2>8, <2>9
<1> QED
  BY <1>1, AlwaysWellFormed, PTL

LEMMA KeptAreResolved ==
  ASSUME WellFormed, NEW i \in DOMAIN nodes, NEW xs, xs \subseteq BuildRequirements(i)
  PROVE  AllResolved(i, xs)
  BY KeptIsResolved DEF AllResolved

\* What a connection point shows is resolved, whichever requirement it comes from.
LEMMA FirstIsResolved ==
  ASSUME WellFormed, NEW i \in DOMAIN nodes, NEW name
  PROVE  Resolved(i, FirstOf(GetRequirementByName(i, name)))
<1> DEFINE n == FirstOf(GetRequirementByName(i, name))
<1>1. CASE n = None
  BY <1>1 DEF Resolved
<1>2. CASE n # None
  <2> HIDE DEF n
  <2>1. PICK x \in GetRequirementByName(i, name) : GetRequirementNodeName(x) = n
    <3> USE DEF n
    <3> QED
      BY <1>2, FirstNamed
  <2>2. Resolved(i, n)
    BY <2>1, ByNameIs, KeptIsResolved
  <2> QED
    BY <2>2 DEF n
<1> QED
  BY <1>1, <1>2

\* basemodel.py:384 keeps nothing that names a missing node, unless it is written in
\* short form; so neither do the lists of nsdmodel.py, servicemodel.py and the parsers
\* of VNFDs, and nsdmodel.py fails on a forwarder that is missing.
THEOREM LinksAreResolved == Spec => []LinksResolve
<1>1. ASSUME WellFormed, kind = "vnfd"
      PROVE  LinksResolve
  <2> SUFFICES ASSUME NEW v \in Versions, NEW m, m = ParseVnfd(v), m # Failed
               PROVE  /\ \A c \in DOMAIN m.cps : /\ Resolved(c, m.cps[c].vdu_id)
                                                 /\ Resolved(c, m.cps[c].vl_id)
                                                 /\ AllResolved(c, m.cps[c].vls)
                      /\ \A u \in DOMAIN m.vdus : AllResolved(u, m.vdus[u].dependencies)
    BY <1>1 DEF LinksResolve
  <2>1. ASSUME NEW c \in DOMAIN m.cps
        PROVE  /\ Resolved(c, m.cps[c].vdu_id) /\ Resolved(c, m.cps[c].vl_id)
               /\ AllResolved(c, m.cps[c].vls)
    <3>1. c \in DOMAIN nodes /\ m.cps[c].vls \subseteq BuildRequirements(c)
      BY <2>1, CpLists, ByNameIs DEF NodesOf
    <3> QED
      BY <1>1, <3>1, CpLists, FirstIsResolved, KeptAreResolved
  <2>2. ASSUME NEW u \in DOMAIN m.vdus
        PROVE  AllResolved(u, m.vdus[u].dependencies)
    <3>1. u \in DOMAIN nodes /\ m.vdus[u].dependencies \subseteq BuildRequirements(u)
      BY <2>2, VduLists, ByNameIs DEF NodesOf
    <3> QED
      BY <1>1, <3>1, KeptAreResolved
  <2> QED
    BY <2>1, <2>2
<1>2. ASSUME WellFormed, kind # "vnfd", ParseNsd \notin {None, Failed}
      PROVE  /\ \A i \in DOMAIN ParseNsd.vnfs : AllResolved(i, ParseNsd.vnfs[i])
             /\ \A i \in DOMAIN ParseNsd.fps : \A x \in DOMAIN ParseNsd.fps[i] :
                  ParseNsd.fps[i][x].node_name \in DOMAIN nodes
  <2>1. CASE kind = "etsi"
    <3>1. ForwardersFound /\ ParseNsd.vnfs = GetAllVnf /\ ParseNsd.fps = GetAllFp
      BY <1>2, <2>1 DEF ParseNsd, EtsiNsdInfoModel
    <3>2. ASSUME NEW i \in DOMAIN GetAllVnf
          PROVE  AllResolved(i, GetAllVnf[i])
      <4>1. i \in DOMAIN nodes /\ GetAllVnf[i] \subseteq BuildRequirements(i)
        BY <3>2 DEF GetAllVnf, GetNetworks, NodesOf
      <4> QED
        BY <1>2, <4>1, KeptAreResolved
    <3>3. ASSUME NEW i \in DOMAIN GetAllFp, NEW x \in DOMAIN GetAllFp[i]
          PROVE  GetAllFp[i][x].node_name \in DOMAIN nodes
      BY <3>1, <3>3 DEF ForwardersFound, GetAllFp, GetForwarderList
    <3> QED
      BY <3>1, <3>2, <3>3
  <2>2. CASE kind = "sdc"
    <3>1. ParseNsd.vnfs = SdcGetAllVnf /\ ParseNsd.fps = NoFps
      BY <1>2, <2>2 DEF ParseNsd, SdcServiceModel
    <3>2. ASSUME NEW i \in DOMAIN SdcGetAllVnf
          PROVE  AllResolved(i, SdcGetAllVnf[i])
      <4>1. i \in DOMAIN nodes /\ SdcGetAllVnf[i] \subseteq BuildRequirements(i)
        BY <3>2 DEF SdcGetAllVnf, SdcGetNetworks, NodesOf
      <4> QED
        BY <1>2, <4>1, KeptAreResolved
    <3>3. DOMAIN NoFps = {}
      BY DEF NoFps
    <3> QED
      BY <3>1, <3>2, <3>3
  <2>3. kind \in {"etsi", "sdc"}
    BY <1>2 DEF ParseNsd, WellFormed, Kinds
  <2> QED
    BY <2>1, <2>2, <2>3
<1>3. WellFormed => LinksResolve
  BY <1>1, <1>2 DEF LinksResolve
<1> QED
  BY <1>3, AlwaysWellFormed, PTL

=============================================================================
