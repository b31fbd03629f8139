SPECIFICATION Spec
CONSTANTS
  v1 = v1
  n1 = n1
  p1 = p1
  vd1 = vd1
  nd1 = nd1
  pd1 = pd1
  Vnfs = {v1}
  Nsds = {n1}
  Pnfds = {p1}
  VnfdIds = {vd1}
  NsdIds = {nd1}
  PnfdIds = {pd1}
  Callbacks = {cb1}
  Filters <- MCFilters
  States = {}
  SubIds = {s1, s2}
  Workers = {w1, w2}
  MaxSent = 3
  NoRow = NoRow
  None = None
INVARIANTS TypeOK
PROPERTIES DuplicateIsARace SubscribersAreServed
SYMMETRY Alike
