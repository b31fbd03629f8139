\* One request at a time: the VNFD is downloaded, replaced and downloaded again.
SPECIFICATION Spec
CONSTANTS
  Pkgs = {p1}
  Vnfds = {v1, v2}
  Files = {f1}
  Workers = {w1}
  None = None
  Broken = Broken
  UriBodyIsText = FALSE
INVARIANT
  VnfdZipIsCurrent
