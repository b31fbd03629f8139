------------------------------ MODULE MCToscaParser ------------------------------
(* Templates with the types and requirements that the parsers tell apart.  A type of    *)
(* connection points is derived from the standard one: it declares a second binding,    *)
(* and its virtual links with a relationship that does not count for the deploy graph.  *)
(* What a requirement names may be any node, so there are none just to be named.        *)
EXTENDS ToscaParser, TLC

CONSTANT Root

MCTypes == {"Vdu.Compute", "VduCp", "ext.Cp", "VnfVirtualLink", "Vdu.VirtualStorage",
            "NS", "VNF", "PNF", "NsVirtualLink", "NFP",
            "resource.VF", "resource.PNF", "ext.zte.VL"}

MCDerivedFrom == [t \in MCTypes |-> IF t = "ext.Cp" THEN "VduCp" ELSE Root]

MCTypesOf == [k \in Kinds |->
  CASE k = "vnfd" -> {"Vdu.Compute", "VduCp", "ext.Cp"}
    [] k = "etsi" -> {"NS", "VNF", "PNF", "NFP"}
    [] k = "sdc"  -> {"resource.VF", "resource.PNF", "ext.zte.VL"}
    [] OTHER      -> {}]

MCNamesOf == [k \in Kinds |->
  CASE k = "vnfd" -> {"virtual_binding", "virtual_binding_2", "virtual_link", "dependency"}
    [] k = "etsi" -> {"virtual_link", "forwarder"}
    [] k = "sdc"  -> {"virtual_link"}
    [] OTHER      -> {}]

MCRelationship == [t \in MCTypes |->
  "dependency" :> "DependsOn" @@
  CASE t = "VduCp"  -> "virtual_binding" :> "VirtualBindsTo" @@ "virtual_link" :> "VirtualLinksTo"
    [] t = "ext.Cp" -> "virtual_binding" :> "VirtualBindsTo" @@ "virtual_link" :> "ext.LinksTo" @@
                       "virtual_binding_2" :> "VirtualBindsTo"
    [] t = "NFP"    -> "forwarder" :> "ext.ForwardsTo"
    [] t \in {"NS", "VNF", "PNF", "resource.VF"} -> "virtual_link" :> "VirtualLinksTo"
    [] OTHER        -> <<>>]

MCRelations == [k \in Kinds |->
  {"DependsOn", "VirtualLinksTo"} \cup IF k = "vnfd" THEN {"VirtualBindsTo"} ELSE {}]

\* Bound: a template with a node that lacks a property of 2.5.1 has no second entry.
ShortIfIncomplete == (\E i \in DOMAIN nodes : ~nodes[i].full) => Entries <= 1

=============================================================================
