\* A thread and two clients, at any time; queries fail and the thread is killed.
SPECIFICATION Spec
CONSTANTS
  Thread = thread
  Clients = {a, b}
  Progress = {5, 255}
  Unreadable = Unreadable
  None = None
  MaxStatuses = 2
CONSTRAINT
  FewReports
SYMMETRY
  Alike
INVARIANTS
  NoGap
  LaterIsLarger
  JobIsReported
PROPERTIES
  FinishLostIsARace
  ImplementsReports
CHECK_DEADLOCK
  FALSE
