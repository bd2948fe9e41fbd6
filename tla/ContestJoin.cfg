CONSTANTS
  u1 = u1  u2 = u2  u3 = u3  t1 = t1  t2 = t2
  Users = {u1, u2}
  Superusers = {u2}
  Staff = {u2}
  CanEdit = {u2}
  Seers = {u2}
  Spammers = {u2}
  Joinable = {u1}
  Threads = {t1, t2}
  Open = 1
  Close = 2
  TimeLimit = 1
  CodeRequired = TRUE
  SubmissionLimit = 1
  MaxSubmissions = 1
  None = None
  MaxTime = 3
  MaxRequests = 3
  MaxEdits = 1
SPECIFICATION Spec
SYMMETRY Symmetry
INVARIANTS VirtualIdsDense CountRight LockedTogether DisqualifiedIsOut LimitsKept
PROPERTIES LiveOnlyWhileOpen
CHECK_DEADLOCK FALSE
