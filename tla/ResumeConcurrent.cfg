\* Two requests in flight, every operation, one fault of any kind.
CONSTANTS
  r1 = r1
  r2 = r2
  i1 = i1
  i2 = i2
  f1 = f1
  f2 = f2
  n1 = n1
  n2 = n2
  NoId = NoId
  NoName = NoName
  NoFile = NoFile
  Foreign = Foreign
  Ids = {i1, i2}
  Slots = {r1, r2}
  Objects = {f1, f2}
  Names = {n1}
  Ops = {"create", "update", "delete", "status", "upload", "parse", "ingest"}
  Faults = {"call", "repeat", "cancel", "crash", "redis"}
  MaxRequests = 3
  MaxFaults = 1
SPECIFICATION Spec
SYMMETRY Symmetry
INVARIANTS
  TypeOK
  RowFileStored
  DeletedIsFinal
\* The workload is finite: it ends with every request answered.
CHECK_DEADLOCK FALSE
