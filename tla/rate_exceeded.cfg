SPECIFICATION WebSpec
CONSTANTS
  Parts = {"limit"}
  Path = {p, q}
  Content = {a, b}
  NoFile = NoFile
  Coherent = Coherent
  MaxCommits = 2
  MaxReleases = 2
  MaxFindings = 2
  Worker = {w1, w2, w3}
  MaxKills = 1
  MaxErrors = 1
  slash = slash
  underscore = underscore
  other = other
  k1 = k1
  k2 = k2
  None = None
  Package = {slash, underscore, other}
  Key = {k1, k2}
  KeyOf <- SharedKey
  Large = {slash, other}
  Task = {t1, t2}
  Client = {c1}
  MaxAnalyses = 2
  MaxFaults = 1
  Id = {i1, i2}
  NoResult = NoResult
  PageSize = 1
  MaxPages = 3
  g1 = g1
  g2 = g2
  r1 = r1
  r2 = r2
  r3 = r3
  Process = {g1, g2}
  Request = {r2, r3}
  ServedBy <- Synchronous
  Limit = 1
  MaxRequests = 3
INVARIANTS
  RateIsLimited
CHECK_DEADLOCK FALSE
