CONSTANTS
  c1 = c1  c2 = c2  c3 = c3  s1 = s1  s2 = s2  s3 = s3  n1 = n1  n2 = n2  x = x  y = y
  Conns = {c1, c2, c3}
  Names = {n1, n2}
  Subs = {s1, s2, s3}
  Problems = {x, y}
  NameOf <- TwoNames
  TierOf <- TwoTiers
  ProblemOf <- TwoProblems
  ProblemSets = {{x}, {x, y}}
  RequestPriorities = {1, 2}
  Targets = {NoName}
  Toggleable = {}
  InitDisabled = {}
  MaxFaults = 0
  NoConn = NoConn  NoName = NoName  NoSub = NoSub  NoTier = NoTier  Gone = Gone
SPECIFICATION Spec
INVARIANTS NoIdleWhileQueued RejudgesRunWhenAllIdle
PROPERTIES RejudgeSparesLastFree
