\* Two distributions of one csar overlap.
SPECIFICATION Spec
CONSTANTS
  Pkgs = {c1}
  Vnfds = {v1}
  Files = {f1}
  Csar = f1
  Jobs = {j1, j2}
  None = None
  Broken = Broken
PROPERTY
  OnlyDeletionRemoves
