CONSTANTS
  c1 = c1  c2 = c2  s1 = s1  s2 = s2  w1 = w1  w2 = w2  n1 = n1  x = x
  Conns = {c1, c2}
  Names = {n1}
  Subs = {s1}
  Problems = {x}
  NameOf <- OneName
  TierOf <- OneTier
  ProblemOf <- OneProblem
  ProblemSets = {{x}}
  RequestPriorities = {1}
  Targets = {NoName}
  Toggleable = {}
  InitDisabled = {}
  MaxFaults = 0
  Web = {w1}
  NumCases = 2
  Hazards = {"leave"}
  NoConn = NoConn  NoName = NoName  NoSub = NoSub  NoTier = NoTier  Gone = Gone
SPECIFICATION FairGradingSpec
PROPERTIES FollowsLifecycle EventuallyEnds
