SPECIFICATION FairSpec
CONSTANTS
  w1 = w1
  w2 = w2
  h1 = h1
  h2 = h2
  c1 = c1
  c2 = c2
  p1 = p1
  p2 = p2
  A = A
  B = B
  k = k
  None = None
  MaxTasks = 2
  Worker = {w1}
  Thread = {h1}
  Client = {c1}
  Purl = {p1}
  Package = {A, B}
  PackageOf <- OwnPackage
  Priority = {0}
  Key = {}
  MaxRetries = 0
  Faults = {"thread"}
  MaxFaults = 1
PROPERTIES
  EveryTaskSettles
CHECK_DEADLOCK FALSE
