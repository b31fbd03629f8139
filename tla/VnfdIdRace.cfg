\* Two uploads of the same VNFD to two packages overlap.
SPECIFICATION Spec
CONSTANTS
  Pkgs = {p1, p2}
  Vnfds = {v1, v2}
  Files = {f1}
  Workers = {w1, w2}
  None = None
  Broken = Broken
  UriBodyIsText = FALSE
INVARIANT
  VnfdIdUnique
