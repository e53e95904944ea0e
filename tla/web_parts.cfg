SPECIFICATION WebSpec
CONSTANTS
  Parts = {"lastpymile", "lists", "reports", "limit", "api"}
  Path = {p, q}
  Content = {a, b}
  NoFile = NoFile
  Coherent = Coherent
  MaxCommits = 2
  MaxReleases = 2
  MaxFindings = 2
  Worker = {w1, w2, w3}
  MaxKills = 1
  MaxErrors = 1
  slash = slash
  underscore = underscore
  other = other
  k1 = k1
  k2 = k2
  None = None
  Package = {slash, underscore, other}
  Key = {k1, k2}
  KeyOf <- SharedKey
  Large = {slash, other}
  Task = {t1, t2}
  Client = {c1}
  MaxAnalyses = 2
  MaxFaults = 1
  Id = {i1, i2}
  NoResult = NoResult
  PageSize = 1
  MaxPages = 3
  g1 = g1
  g2 = g2
  r1 = r1
  r2 = r2
  r3 = r3
  Process = {g1, g2}
  Request = {r1, r2, r3}
  ServedBy <- Mixed
  Limit = 2
  MaxRequests = 6
INVARIANTS
  EveryFileIsJudged
  ServedWhole
  DownloadIsLinked
  AdmittedBound
  WalkMissesNothing
PROPERTIES
  ServedAgain
CHECK_DEADLOCK FALSE
