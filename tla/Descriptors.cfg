\* Two NSDs over one PNFD and one VNF package, two handlers at a time.
SPECIFICATION Spec
CONSTANTS
  Nsds = {n1, n2}
  Pnfds = {p1}
  Vnfs = {v1}
  NsdKeys = {s1}
  DescKeys = {d1}
  Archives <- MCArchives
  Workers = {w1, w2}
  MaxLost = 1
  MaxSent = 4
  None = None
  s1 = s1
  d1 = d1
SYMMETRY Symmetry
INVARIANTS
  TypeOK
  UploadIsAttended
  LookedUpNsdResolves
PROPERTIES
  DeleteSparesReferences
  KeyClashIsARace
