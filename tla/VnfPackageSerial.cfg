\* Two handlers at a time on two packages, taking turns where a theorem asks it; text from URIs.
SPECIFICATION Spec
CONSTANTS
  Pkgs = {p1, p2}
  Vnfds = {v1, v2}
  Files = {f1}
  Workers = {w1, w2}
  None = None
  Broken = Broken
  UriBodyIsText = TRUE
VIEW
  SansHistory
SYMMETRY
  Alike
CONSTRAINT
  TakeTurns
INVARIANTS
  VnfdIdUnique
  OnboardedMatchesArchive
PROPERTIES
  ImplementsCatalogue
