\* One service with two VFs, two notifications about it, one handler and one polling job.
SPECIFICATION Spec
CONSTANTS
  Csars = {c1}
  Vfs = {v1, v2}
  Resources <- MCResources
  c1 = c1
  About <- MCAbout
  Handlers = {h1}
  Jobs = {j1}
  None = None
INVARIANTS
  TypeOK
  RollbackSparesOthers
  OnboardedHasFiles
  VfsBeforeNs
