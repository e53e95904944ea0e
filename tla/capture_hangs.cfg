SPECIFICATION SandboxSpec
CONSTANTS
  Parts = {"dynamic"}
  m1 = m1
  m2 = m2
  fn1 = fn1
  fn2 = fn2
  C = C
  D = D
  meth1 = meth1
  meth2 = meth2
  meth3 = meth3
  Nothing = Nothing
  Modules <- TwoModules
  Function = {fn1, fn2}
  Class = {C, D}
  Method = {meth1, meth2, meth3}
  Members <- TheMembers
  Methods <- TheMethods
  Home <- TheHome
  Returns <- TheReturns
  File = {f1, f2, f3}
  s1 = s1
  ip = ip
  Path = {p, q}
  Buffer = {x, y}
  Socket = {s1}
  Command = {c}
  Host = {h, k}
  Type = {A, TXT}
  AddressOf <- TheAddress
  Lookups = {A}
  MaxEvents = 3
  MaxPhases = 2
  dir = dir
  dirFile = dirFile
  file = file
  twoLines = twoLines
  Root = Root
  None = None
  Partial = Partial
  Name = {dir, dirFile, file, twoLines}
  Parent <- TheParent
  LinesOf <- TheLines
  MaxEntries = 2
  MaxRuns = 2
  MaxFailures = 1
  Ecosystems = {"wolfi", "pypi", "npm"}
  MaxAnalyses = 1
  MaxPackets = 1
  MaxFaults = 1
PROPERTIES
  CloseReturns
CHECK_DEADLOCK FALSE
