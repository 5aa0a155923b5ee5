\* Two search-service processes, batches shorter than the stream.
CONSTANTS
  c1 = c1
  c2 = c2
  Consumers = {c1, c2}
  Count = 2
  MaxEntries = 4
  MaxFaults = 2
SPECIFICATION FairSpec
INVARIANTS
  TypeOK
  HandledAtMostOnce
  NoSilentLoss
  StrandedByFaultsOnly
PROPERTIES
  Consumed
  ImplementsDelivery
\* The workload is finite: it ends with the stream read.
CHECK_DEADLOCK FALSE
