\* The registry: two processes, in turn and at once, at one address and at two;
\* one fault.  The lists: three rows, an int with 40 values, an int32 up to 7.  The
\* search: one skill in two spellings.
CONSTANTS
  p1 = p1
  p2 = p2
  a1 = a1
  a2 = a2
  Nobody = Nobody
  Processes = {p1, p2}
  Addresses = {a1, a2}
  Deployments <- MCDeployments
  MaxFaults = 1
  r1 = r1
  r2 = r2
  r3 = r3
  Rows = {r1, r2, r3}
  Default = 1
  Cap = 2
  Narrow = 7
  Half = 20
  Window = 5
  Counted = 2
  PageArgs <- MCPageArgs
  SizeArgs <- MCSizeArgs
  go = go
  Go = Go
  pending = pending
  parsed = parsed
  upload = upload
  None = None
  Texts = {go, Go}
  Terms = {go}
  Analyzed <- MCAnalyzed
  Statuses = {pending, parsed}
  Sources = {upload}
  Years = {0, 1}
SPECIFICATION ReadSpec
INVARIANTS
  TypeOK
  OneEntryPerEndpoint
  ForwardsToProven
  LeavesNothing
  ListTypeOK
  NoSkip
  NoRepeat
  TestsSearchAlike
  SkillsAsListed
  RefusedUndone
  NotFoundWasAbsent
  FlawsStop
PROPERTIES
  OnlySuccessorsRemove
  AnsweredByOwner
  StaleEntriesGo
  Served
  PageExact
\* Every process ends once, every walk ends, every search is asked once,
\* every request is answered once.
CHECK_DEADLOCK FALSE
