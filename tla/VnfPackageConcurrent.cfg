\* Two handlers at a time on one package; urllib answers with bytes.
SPECIFICATION Spec
CONSTANTS
  Pkgs = {p1}
  Vnfds = {v1}
  Files = {f1, f2}
  Workers = {w1, w2}
  None = None
  Broken = Broken
  UriBodyIsText = FALSE
INVARIANTS
  TypeOK
  OnboardedIsServable
  UploadIsAttended
PROPERTIES
  DeletedStaysDeleted
  UploadSettles
