SPECIFICATION FairSpec
CONSTANTS
  r1 = r1
  r2 = r2
  r3 = r3
  v1 = v1
  v2 = v2
  capital = capital
  web = web
  None = None
  Request = {r1, r2}
  Package = {v1, v2, capital}
  File = {"lodash.json", "Django.json", "django.json"}
  Process = {web}
  WrittenAs <- SameName
  ReadAs <- InLowerCase
  ProcessOf <- Threads
  MaxFaults = 1
INVARIANTS
  AloneIsOwn
  FailureIsReported
  UploadHeldWhileRunning
PROPERTIES
  EveryRequestAnswered
CHECK_DEADLOCK FALSE
