\* The comment on the claim of ParseResume, with UpdateStatus and Update available.
CONSTANTS
  r1 = r1
  r2 = r2
  i1 = i1
  i2 = i2
  f1 = f1
  f2 = f2
  n1 = n1
  n2 = n2
  NoId = NoId
  NoName = NoName
  NoFile = NoFile
  Foreign = Foreign
  Ids = {i1}
  Slots = {r1, r2}
  Objects = {f1}
  Names = {n1}
  Ops = {"create", "update", "delete", "status", "upload", "parse", "ingest"}
  Faults = {}
  MaxRequests = 4
  MaxFaults = 0
SPECIFICATION Spec
INVARIANT
  ExclusiveParse
\* The workload is finite: it ends with every request answered.
CHECK_DEADLOCK FALSE
