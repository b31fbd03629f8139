\* One upload from a URI that is answered with an HTTP error.
SPECIFICATION Spec
CONSTANTS
  Pkgs = {p1}
  Vnfds = {v1}
  Files = {f1}
  Workers = {w1}
  None = None
  Broken = Broken
  UriBodyIsText = FALSE
INVARIANT
  FailedFetchIsReset
