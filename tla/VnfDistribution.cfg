\* Two threads at a time on two packages, one job after another.
SPECIFICATION Spec
CONSTANTS
  Pkgs = {c1, c2}
  Vnfds = {v1, v2}
  Files = {f1}
  Csar = f1
  Jobs = {j1, j2}
  None = None
  Broken = Broken
CONSTRAINT
  Quiet
INVARIANTS
  ReportsAreFinal
  ReportIsTrue
  ListedIsServable
PROPERTIES
  JobEnds
