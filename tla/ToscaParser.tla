------------------------------- MODULE ToscaParser -------------------------------
(***************************************************************************)
(* What pub/utils/toscaparser makes of a service template: the model of a  *)
(* VNFD, by one of two parsers that the schema version chooses, or of an   *)
(* NSD, in ETSI or in SDC form.  The two VNFD parsers keep helpers that    *)
(* are alike to the letter (vnfd_sol_base.py:169, vnfd_sol_251.py:224):    *)
(* one definition stands for both.                                         *)
(*                                                                         *)
(* A designer writes the template entry by entry; what it would be parsed  *)
(* to is a function of what is written.  Nodes are known by their          *)
(* position; a requirement names a node of the template, or one that is    *)
(* not (or not yet) there.  A list that a parser makes of requirements is  *)
(* given by their places in the template: it follows the template.         *)
(*                                                                         *)
(* Left out: values of properties, except those that identify; inputs and  *)
(* functions in them; groups, artifacts, and reading the file, which the   *)
(* tosca-parser library does.  Type hierarchies have no cycles: the walk   *)
(* up a longer one would not end.                                          *)
(***************************************************************************)
EXTENDS Naturals, SequencesExt

CONSTANTS NodeTypes,      \* types of nodes
          DerivedFrom,    \* derived_from of each of them
          NODE_ROOT,
          TypesOf,        \* types of the nodes of each kind of template
          NamesOf,        \* and names of their requirements
          Bindings,       \* names that start with virtual_binding, in any case
          Relationship,   \* what a type declares requirements with: names to relationships
          Relations,      \* those that count for the deploy graph, in each kind of template
          MaxNodes,       \* bound: nodes of a template
          MaxEntries,     \* bound: requirements of its nodes, and entries about the VNFD
          None, Failed

\* A VNFD; a service template with the metadata of an ETSI NSD, of an SDC service, or
\* with neither.
Kinds == {"vnfd", "etsi", "sdc", "none"}

Requirements == UNION {NamesOf[k] : k \in Kinds}

ASSUME TypesAssumption ==
  /\ DerivedFrom \in [NodeTypes -> NodeTypes \cup {NODE_ROOT}]
  /\ TypesOf \in [Kinds -> SUBSET NodeTypes]
  /\ "virtual_binding" \in Bindings
  /\ DOMAIN Relationship = NodeTypes /\ DOMAIN Relations = Kinds

\* Names of nodes, in the template or not.
Names == 1..MaxNodes

\* A requirement is written "name: node", or with a dictionary that may have a node.
Req == [name : Requirements, form : {"str", "dict"}, node : Names \cup {None}]

\* full: the node has the properties that version 2.5.1, and no other one, reads.
Node == [type : NodeTypes, full : BOOLEAN, reqs : Seq(Req)]

VARIABLES kind,    \* which kind of template it is
          nodes,   \* node_templates, in order
          given,   \* metadata entries that identify the VNFD
          prop     \* descriptor_id among the properties: what is written there

vars == <<kind, nodes, given, prop>>

\* A value, or the schema of one: with a default, without, or even without a type.
Props == {"value", "schema", "bare", "untyped"}

\* The metadata that may hold the descriptor_id, in the order they are read.
VnfdKeys == <<"descriptor_id", "id", "UUID">>

ASSUME NoneAssumption ==
  /\ None \notin Nat
  /\ None \notin Props \cup ToSet(VnfdKeys)

-----------------------------------------------------------------------------
(* basemodel.py *)

\* The walk up the types ends at the root.
IsNodeTypeX(t, x) ==
  LET is[n \in NodeTypes] == \/ n = x
                             \/ DerivedFrom[n] \notin {NODE_ROOT, n} /\ is[DerivedFrom[n]]
  IN is[t]

NodesOf(x) == {i \in DOMAIN nodes : IsNodeTypeX(nodes[i].type, x)}

\* The places of the requirements of a node, and the requirement at a place.
Places(i) == {i} \X DOMAIN nodes[i].reqs

At(x) == nodes[x[1]].reqs[x[2]]

\* Faulty: requirements on nodes that are not there are kept.
KeepRequirements(i) == Places(i)

\* A dictionary that names a node which is not in the template is dropped, but not a
\* string.
BuildRequirements(i) ==
  {x \in Places(i) : ~(/\ At(x).form = "dict"
                       /\ At(x).node # None
                       /\ At(x).node \notin DOMAIN nodes)}

GetRequirementNodeName(x) == At(x).node

GetRequirementByName(i, name) == {x \in BuildRequirements(i) : At(x).name = name}

\* Whether a requirement of this name counts is for the type of the node to declare.
Counts(i, name) == Relationship[nodes[i].type][name] \in Relations[kind]

\* Edges lead from what is required to what requires it; the requirements are those of
\* the template, dropped ones included.
BuildDeployPath(i) ==
  {<<At(x).node, i>> : x \in {y \in Places(i) : Counts(i, At(y).name)}}

\* One that the type does not declare is a key that is not there.
Declared ==
  \A i \in DOMAIN nodes : \A x \in Places(i) : At(x).name \in DOMAIN Relationship[nodes[i].type]

GetDeployGraph ==
  IF Declared THEN UNION {BuildDeployPath(i) : i \in DOMAIN nodes} ELSE Failed

-----------------------------------------------------------------------------
(* vnfd_sol_base.py, vnfd_sol_251.py *)

\* What the first of some requirements of a node names.
FirstOf(xs) ==
  IF xs = {} THEN None
  ELSE GetRequirementNodeName(CHOOSE x \in xs : \A y \in xs : x[2] <= y[2])

GetNodeVduId(i) == FirstOf(GetRequirementByName(i, "virtual_binding"))

GetNodeVlId(i) == FirstOf(GetRequirementByName(i, "virtual_link"))

\* vls is there only when there is more than one.
BuildCpVls(i) ==
  LET vls == GetRequirementByName(i, "virtual_link")
  IN IF Cardinality(vls) > 1 THEN vls ELSE {}

AllRequirements == UNION {BuildRequirements(i) : i \in DOMAIN nodes}

\* Faulty: the requirement itself is compared with the name of the VDU.
BoundInShortForm(u) ==
  {x \in AllRequirements : At(x).name \in Bindings /\ At(x).form = "str" /\ At(x).node = u}

\* What binds nodes to VDU u: the node x[1] is listed once for every x.
GetVirtualBindingCps(u) ==
  {x \in AllRequirements : At(x).name \in Bindings /\ GetRequirementNodeName(x) = u}

\* For every binding of a node, the virtual links of the node.
GetLinkedVlIds(u) ==
  UNION {{x} \X GetRequirementByName(x[1], "virtual_link") : x \in GetVirtualBindingCps(u)}

GetAllCp ==
  [i \in NodesOf("VduCp") |->
     [vdu_id |-> GetNodeVduId(i), vl_id |-> GetNodeVlId(i), vls |-> BuildCpVls(i)]]

GetAllVdu ==
  [u \in NodesOf("Vdu.Compute") |->
     [virtual_storages |-> GetRequirementByName(u, "virtual_storage"),
      dependencies |-> GetRequirementByName(u, "dependency"),
      vls |-> GetLinkedVlIds(u), cps |-> GetVirtualBindingCps(u)]]

\* The storages are those of the virtual_compute capability.
GetAllVdu251 ==
  [u \in NodesOf("Vdu.Compute") |->
     [virtual_storages |-> {},
      dependencies |-> GetRequirementByName(u, "dependency"),
      vls |-> GetLinkedVlIds(u), cps |-> GetVirtualBindingCps(u)]]

GetAllVl == NodesOf("VnfVirtualLink")

GetAllVolumeStorage == NodesOf("Vdu.VirtualStorage")

\* Virtual links, connection points and VDUs of which a property is not there raise.
Raises251 ==
  \E x \in {"VnfVirtualLink", "VduCp", "Vdu.Compute"} : \E i \in NodesOf(x) : ~nodes[i].full

Found == {k \in DOMAIN VnfdKeys : VnfdKeys[k] \in given}

\* Faulty: "undefined", as elsewhere, stands for an identifier that is not there.
BuildVnfUndefined ==
  IF prop # None THEN prop ELSE IF Found = {} THEN "undefined" ELSE VnfdKeys[Min(Found)]

\* The property, whatever it is, or the first of the metadata that is not empty.
BuildVnf ==
  IF prop # None THEN prop ELSE IF Found = {} THEN None ELSE VnfdKeys[Min(Found)]

\* Each of the metadata that is not empty replaces the one before it.
GetProperty == IF Found = {} THEN None ELSE VnfdKeys[Max(Found)]

\* The default of a schema is the value; where there is none, it is as if nothing were
\* written, and a schema without a type raises.
BuildVnf251 ==
  CASE prop \in {"value", "schema"} -> "value"
    [] prop \in {None, "bare"}      -> GetProperty
    [] OTHER                        -> Failed

ParseBase ==
  IF GetDeployGraph = Failed THEN Failed
  ELSE [descriptor_id |-> BuildVnf, vdus |-> GetAllVdu, cps |-> GetAllCp, vls |-> GetAllVl,
        volume_storages |-> GetAllVolumeStorage, graph |-> GetDeployGraph]

Parse251 ==
  IF BuildVnf251 = Failed \/ Raises251 \/ GetDeployGraph = Failed THEN Failed
  ELSE [descriptor_id |-> BuildVnf251, vdus |-> GetAllVdu251, cps |-> GetAllCp,
        vls |-> GetAllVl, volume_storages |-> GetAllVolumeStorage, graph |-> GetDeployGraph]

\* Of another version there is no parser, and what is there instead raises.
CreateVnfdSOLParser(version) ==
  CASE version = "base"    -> ParseBase
    [] version = "2.5.1+1" -> Parse251
    [] OTHER               -> Failed

\* The parser is asked for the model of a VNFD of this version.
ParseVnfd(version) == CreateVnfdSOLParser(version)

-----------------------------------------------------------------------------
(* nsdmodel.py, servicemodel.py *)

\* All requirements count, whatever their names.
GetNetworks(i) ==
  IF i \in NodesOf("NS") \cup NodesOf("VNF") THEN BuildRequirements(i) ELSE {}

GetAllVnf == [i \in NodesOf("VNF") |-> GetNetworks(i)]

GetAllPnf == [i \in NodesOf("PNF") |-> GetNetworks(i)]

GetAllNestedNs == [i \in NodesOf("NS") |-> GetNetworks(i)]

NsGetAllVl == NodesOf("NsVirtualLink")

Forwarders(i) == GetRequirementByName(i, "forwarder")

\* Whatever is not a PNF is taken for a VNF.
GetForwarderList(i) ==
  [x \in Forwarders(i) |->
     LET name == GetRequirementNodeName(x)
     IN [type |-> IF name \in NodesOf("PNF") THEN "pnf" ELSE "vnf", node_name |-> name]]

GetAllFp == [i \in NodesOf("NFP") |-> GetForwarderList(i)]

\* The type of a node that is not there cannot be read.
ForwardersFound ==
  \A i \in NodesOf("NFP") : \A x \in Forwarders(i) : GetRequirementNodeName(x) \in DOMAIN nodes

EtsiNsdInfoModel ==
  IF ~ForwardersFound \/ GetDeployGraph = Failed THEN Failed
  ELSE [vnfs |-> GetAllVnf, pnfs |-> GetAllPnf, vls |-> NsGetAllVl, fps |-> GetAllFp,
        nested_ns |-> GetAllNestedNs, graph |-> GetDeployGraph]

SdcGetNetworks(i) == IF i \in NodesOf("resource.VF") THEN BuildRequirements(i) ELSE {}

SdcGetAllVnf == [i \in NodesOf("resource.VF") |-> SdcGetNetworks(i)]

SdcGetAllPnf == [i \in NodesOf("resource.PNF") |-> SdcGetNetworks(i)]

SdcGetAllVl == NodesOf("ext.zte.VL")

NoFps == [i \in {} |-> <<>>]

SdcServiceModel ==
  IF GetDeployGraph = Failed THEN Failed
  ELSE [vnfs |-> SdcGetAllVnf, pnfs |-> SdcGetAllPnf, vls |-> SdcGetAllVl, fps |-> NoFps,
        nested_ns |-> NoFps, graph |-> GetDeployGraph]

\* A service template with neither metadata has an empty model.
ParseNsd ==
  CASE kind = "etsi" -> EtsiNsdInfoModel
    [] kind = "sdc"  -> SdcServiceModel
    [] OTHER         -> None

-----------------------------------------------------------------------------
(* The designer *)

ReqCount == FoldLeft(LAMBDA n, node : n + Len(node.reqs), 0, nodes)

Entries == ReqCount + Cardinality(given) + IF prop = None THEN 0 ELSE 1

Init ==
  /\ kind \in Kinds
  /\ nodes = <<>> /\ given = {} /\ prop = None

AddNode(t, full) ==
  /\ Len(nodes) < MaxNodes
  /\ t \in TypesOf[kind] /\ (full \/ kind = "vnfd")
  /\ nodes' = Append(nodes, [type |-> t, full |-> full, reqs |-> <<>>])
  /\ UNCHANGED <<kind, given, prop>>

\* To the node that was written last.
AddRequirement(i, req) ==
  /\ i = Len(nodes)
  /\ req.name \in NamesOf[kind] /\ (req.form = "str" => req.node # None)
  /\ nodes' = [nodes EXCEPT ![i].reqs = Append(@, req)]
  /\ UNCHANGED <<kind, given, prop>>

AddMetadata(k) ==
  /\ kind = "vnfd" /\ k \notin given /\ Entries < MaxEntries
  /\ given' = given \cup {k}
  /\ UNCHANGED <<kind, nodes, prop>>

AddProperty(p) ==
  /\ kind = "vnfd" /\ prop = None /\ Entries < MaxEntries
  /\ prop' = p
  /\ UNCHANGED <<kind, nodes, given>>

\* The next template.
StartOver ==
  /\ nodes' = <<>> /\ given' = {} /\ prop' = None
  /\ kind' = kind

Next ==
  \/ \E t \in NodeTypes, full \in BOOLEAN : AddNode(t, full)
  \/ Entries < MaxEntries /\ \E i \in DOMAIN nodes, req \in Req : AddRequirement(i, req)
  \/ \E k \in ToSet(VnfdKeys) : AddMetadata(k)
  \/ \E p \in Props : AddProperty(p)
  \/ StartOver

Spec == Init /\ [][Next]_vars

-----------------------------------------------------------------------------

Versions == {"base", "2.5.1+1"}

\* What parsers and operators yield, in every template.
TypeOK ==
  /\ kind \in Kinds
  /\ nodes \in Seq(Node)
  /\ given \subseteq ToSet(VnfdKeys) /\ prop \in Props \cup {None}
  /\ kind = "vnfd" => \A v \in Versions :
       LET m == ParseVnfd(v) IN m # Failed =>
         /\ m.descriptor_id \in ToSet(VnfdKeys) \cup Props \cup {None}
         /\ \A i \in DOMAIN m.cps : m.cps[i].vdu_id \in Names \cup {None}

BindingsOf(c) == {x \in BuildRequirements(c) : At(x).name \in Bindings}

\* The lists of a VNFD agree with each other: the VDU of a connection point counts the
\* point among its own; a point of a VDU that is bound just once says so; the virtual
\* links of a VDU are those of its points; and every link they show is an edge of the
\* deploy graph, where the type declares a relationship that counts.
BindingsAgree ==
  kind = "vnfd" => \A v \in Versions :
    LET m == ParseVnfd(v) IN m # Failed =>
      /\ \A c \in DOMAIN m.cps, u \in DOMAIN m.vdus :
           LET listed == \E x \in m.vdus[u].cps : x[1] = c
               boundOnce == \E x \in BindingsOf(c) : /\ BindingsOf(c) = {x}
                                                     /\ At(x).name = "virtual_binding"
           IN /\ m.cps[c].vdu_id = u => listed
              /\ listed /\ boundOnce => m.cps[c].vdu_id = u
              /\ listed /\ m.cps[c].vl_id # None =>
                   \E y \in m.vdus[u].vls : GetRequirementNodeName(y[2]) = m.cps[c].vl_id
      /\ \A c \in DOMAIN m.cps :
           /\ m.cps[c].vdu_id # None /\ Counts(c, "virtual_binding") =>
                <<m.cps[c].vdu_id, c>> \in m.graph
           /\ m.cps[c].vl_id # None /\ Counts(c, "virtual_link") =>
                <<m.cps[c].vl_id, c>> \in m.graph
      /\ \A u \in DOMAIN m.vdus : \A d \in m.vdus[u].dependencies :
           Counts(u, "dependency") => <<GetRequirementNodeName(d), u>> \in m.graph

\* A node that is named in the lists of node i, if any: it is in the template, or i
\* has a requirement in its short form that names it.
Resolved(i, n) ==
  \/ n \in DOMAIN nodes \cup {None}
  \/ \E x \in Places(i) : At(x).form = "str" /\ At(x).node = n

AllResolved(i, xs) == \A x \in xs : Resolved(i, GetRequirementNodeName(x))

\* A node that the lists name is in the template, unless the requirement that names it
\* is in its short form; forwarders name nodes of the template in either form.
LinksResolve ==
  IF kind = "vnfd"
  THEN \A v \in Versions : LET m == ParseVnfd(v) IN m # Failed =>
         /\ \A c \in DOMAIN m.cps : /\ Resolved(c, m.cps[c].vdu_id)
                                    /\ Resolved(c, m.cps[c].vl_id)
                                    /\ AllResolved(c, m.cps[c].vls)
         /\ \A u \in DOMAIN m.vdus : AllResolved(u, m.vdus[u].dependencies)
  ELSE ParseNsd \notin {None, Failed} =>
         /\ \A i \in DOMAIN ParseNsd.vnfs : AllResolved(i, ParseNsd.vnfs[i])
         /\ \A i \in DOMAIN ParseNsd.fps : \A x \in DOMAIN ParseNsd.fps[i] :
              ParseNsd.fps[i][x].node_name \in DOMAIN nodes

=============================================================================
