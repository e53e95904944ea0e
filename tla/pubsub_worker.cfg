SPECIFICATION FairSpec
CONSTANTS
  Worker = {w1, w2}
  w1 = w1
  w2 = w2
  e1 = e1
  e2 = e2
  e3 = e3
  e4 = e4
  n1 = n1
  n2 = n2
  Entry = {e1, e2, e3, e4}
  NameOf <- TwoVersions
  Supported = {e1, e2, e3}
  WellFormed = {e1, e2}
  Local = {}
  NoArchive = {}
  Configs <- Deployments
  AckDeadlines = {1, 2}
  DefaultDeadline = 2
  Grace = 1
  Slack = 0
  MinAck = 1
  MaxAck = 2
  MaxMsgs = 3
  MaxFaults = 1
  None = None
INVARIANTS
  AckedIsStored
  HeldWhileHandled
  NoExtensionAfterStop
  SavedIsThisArchive
PROPERTY EveryEntryAnalysed
CHECK_DEADLOCK FALSE
