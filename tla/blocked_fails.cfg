SPECIFICATION Spec
CONSTANTS
  w1 = w1
  w2 = w2
  h1 = h1
  h2 = h2
  c1 = c1
  c2 = c2
  p1 = p1
  p2 = p2
  A = A
  B = B
  k = k
  None = None
  MaxTasks = 2
  Worker = {w1}
  Thread = {h1}
  Client = {c1}
  Purl = {p1, p2}
  Package = {A, B}
  PackageOf <- OwnPackage
  Priority = {0}
  Key = {}
  MaxRetries = 1
  Faults = {}
  MaxFaults = 0
INVARIANTS
  BlockedIsRetried
CHECK_DEADLOCK FALSE
