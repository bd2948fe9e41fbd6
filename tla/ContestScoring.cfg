CONSTANTS
  p1 = p1  p2 = p2  t1 = t1  t2 = t2  b1 = b1
  Problems = {p1, p2}
  Cases = {1, 2, 3}
  BatchOf <- OneBatch
  NoBatch = NoBatch
  Outcomes <- SomeOutcomes
  Worth = 300
  ContestWorth = 2000
  Formats = {"default", "legacy_ioi", "ioi", "ecoo", "icpc", "atcoder"}
  WholeFormats = {"legacy_ioi", "icpc"}
  Penalty = 2
  FirstAcBonus = 10000
  TimeBonus = 2
  End = 5
  TiesUp = {}
  Threads = {t1, t2}
  MaxSubs = 2
  MaxRejudges = 1
  MaxEdits = 1
SPECIFICATION Spec
SYMMETRY Symmetry
INVARIANTS RowIsCurrent DisqualifiedIsLast TimeNotNegative FormatsAgree FullIffComplete
PROPERTIES ScoreNeverDrops
CHECK_DEADLOCK FALSE
