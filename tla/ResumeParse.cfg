\* Two requests in flight, no blind status writes by clients, two faults.
CONSTANTS
  r1 = r1
  r2 = r2
  i1 = i1
  i2 = i2
  f1 = f1
  f2 = f2
  n1 = n1
  n2 = n2
  NoId = NoId
  NoName = NoName
  NoFile = NoFile
  Foreign = Foreign
  Ids = {i1}
  Slots = {r1, r2}
  Objects = {f1, f2}
  Names = {n1}
  Ops = {"create", "parse", "ingest"}
  Faults = {"call", "lost", "cancel"}
  MaxRequests = 3
  MaxFaults = 2
SPECIFICATION FairSpec
INVARIANT
  ExclusiveParse
PROPERTIES
  OrphansByFailure
  ClaimReleased
\* The workload is finite: it ends with every request answered.
CHECK_DEADLOCK FALSE
