SPECIFICATION Spec
CONSTANTS
  Root = Root
  NODE_ROOT = Root
  NodeTypes <- MCTypes
  DerivedFrom <- MCDerivedFrom
  TypesOf <- MCTypesOf
  NamesOf <- MCNamesOf
  Bindings = {"virtual_binding", "virtual_binding_2"}
  Relationship <- MCRelationship
  Relations <- MCRelations
  MaxNodes = 3
  MaxEntries = 2
  None = None
  Failed = Failed
CONSTRAINT ShortIfIncomplete
INVARIANTS
  TypeOK
  BindingsAgree
  LinksResolve
