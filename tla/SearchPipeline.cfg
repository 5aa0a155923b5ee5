\* One client, one consumer, one fault.  UploadFile announces what Update does.
CONSTANTS
  r1 = r1
  r2 = r2
  i1 = i1
  i2 = i2
  f1 = f1
  f2 = f2
  n1 = n1
  n2 = n2
  NoId = NoId
  NoName = NoName
  NoFile = NoFile
  Foreign = Foreign
  c1 = c1
  c2 = c2
  Ids = {i1}
  Slots = {r1}
  Objects = {f1}
  Names = {n1}
  Ops = {"create", "update", "delete", "status", "parse", "ingest"}
  Faults = {"call", "lost", "repeat", "cancel", "crash"}
  MaxRequests = 3
  MaxFaults = 1
  Consumers = {c1}
  Count = 2
  NowOutcomes = {TRUE, FALSE}
SPECIFICATION PipelineFairSpec
INVARIANTS
  PipelineTypeOK
  DeletedLeavesIndex
  IndexSettled
PROPERTY
  IndexConverges
\* The workload is finite: it ends with every request answered.
CHECK_DEADLOCK FALSE
