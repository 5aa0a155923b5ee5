\* One process, one failing call, and the retry the document promises.
CONSTANTS
  c1 = c1
  c2 = c2
  Consumers = {c1}
  Count = 2
  MaxEntries = 3
  MaxFaults = 1
SPECIFICATION FairSpec
PROPERTY
  FailedIsRetried
\* The workload is finite: it ends with the stream read.
CHECK_DEADLOCK FALSE
