# ATS platform: specifications, model checking and proofs

TLA+ models of the services under `src/ats-platform/`, the TLC runs that check
them on small instances, and theorems about them checked by TLAPS. Paths below
are relative to `src/ats-platform/`.

Contents: [inventory](#1-inventory) · [modules](#2-modules-and-how-they-follow-the-code) ·
[runs](#3-runs) · [fairness](#4-fairness) · [proofs](#5-proofs) ·
[disagreements found](#6-where-code-and-words-disagree) ·
[left out](#7-what-is-not-modelled) · [plan](#8-plan)

## 1. Inventory

| Part | State it keeps | Operations | Talks to |
|---|---|---|---|
| resume-service (`internal/resume`, `cmd/resume-service`) | table `resumes`; one local `*model.Resume` per request | Create, Update, Delete, UpdateStatus, UploadFile, ParseResume, UploadAndParse; GetByID and List read | Postgres, MinIO, LLM, Redis (XADD) |
| event publisher (`internal/shared/events/publisher.go`) | a Redis client, or nil for the life of the process when Redis did not answer a ping at start | one XADD per event, error dropped by every caller | Redis stream `resume:events` |
| stream consumer (`internal/shared/events/consumer.go`) | in Redis: the group's last-delivered id and pending list; in the process: the batch in hand | XGROUP CREATE, XREADGROUP `>`, handler, XACK | Redis, Elasticsearch through its handler |
| search-service (`internal/search`, `cmd/search-service`) | the Elasticsearch index | handleSearchEvent (index, delete, update status); search with filters, page by page | consumer, Elasticsearch |
| interview-service (`internal/interview`) | tables `interviews`, `feedbacks`, `portfolios` | Create, Delete, UpdateStatus, Submit, portfolio Create and Delete; lists of a resume's interviews and portfolios | Postgres; shares only the database with resume-service |
| request handlers (`internal/*/handler`, `internal/*/grpc`, `internal/shared/response`) | none | check the request, call one service method, turn its error into a reply | clients, the service methods |
| gateway (`cmd/gateway`) | none | prefix routing, look-up of an instance, one proxied call of 30 seconds at most | Consul, the services |
| Consul registration (`internal/shared/consul`, the mains) | in Consul: the entries and the state of their checks; in each process: its phase, its two servers, the shared `grpcSrv` | remove earlier instances, register, listen, close, deregister; the agent checks and removes | Consul, the gateway |

What is hard here:

* **Handlers are not transactions.** Each is a sequence of calls to Postgres,
  MinIO and Redis. Between two calls any other request may run, the client may
  go away (every later call then fails, its context is cancelled), or the
  process may die.
* **Check, then act.** UpdateStatus (resumes and interviews) and Submit decide
  on a row read earlier; Update and the end of ParseResume write back a whole
  row read earlier. Only ParseResume's claim is a conditional write.
* **A log beside the table.** Events are appended after the statement commits;
  they may be missing, repeated, or in another order than the commits.
* **A consumer group without retries.** The loop asks for `>` only, so whatever
  is pending and in no process's hands stays pending.
* **Entries that are not processes.** A process registers before it listens and
  closes its ports before it deregisters; processes overlap, fail between two
  calls to Consul, or die without any. The gateway sees entries.
* **Pages of a moving list.** Nothing ties the pages of a walk together, the
  total of a page of resumes is a statement of its own, a search asks for no
  order, and page numbers and sizes reach an integer product unchecked.
* **Errors as values.** Each of some thirty handlers decides by itself which
  errors of its method it knows, and replies to all the others with one answer.
* **Foreign keys across services.** Deleting a resume in one service deletes,
  by cascade, rows another service is working on.

What makes each part correct, and where it is stated:

| Part | Property |
|---|---|
| resume-service | rows refer to stored objects (`RowFileStored`); an announced deletion is final (`DeletedIsFinal`); a resume is parsed by one request at a time (`ExclusiveParse`); a claim is released (`ClaimReleased`); a failed ingest undoes its upload (`OrphansByFailure`); one request at a time, statuses follow the table (`SequentialMoves`), a parse keeps entered names (`ParseKeepsNames`), the stream tells the table (`LogDescribesTable`) |
| stream consumer | one attempt per event (`HandledAtMostOnce`), nothing vanishes (`NoSilentLoss`), only failures strand events (`StrandedByFaultsOnly`), the rest is consumed (`Consumed`), the loop implements `EventDelivery` (`ImplementsDelivery`) |
| table, stream and index | deleted resumes stay out of the index (`DeletedLeavesIndex`), the index agrees with the table once everything is handled (`IndexSettled`), and gets there (`IndexConverges`) |
| registration and gateway | one entry per endpoint unless starts overlap (`OneEntryPerEndpoint`); a listening process is unlisted by itself or a successor only (`OnlySuccessorsRemove`); an orderly end leaves nothing (`LeavesNothing`), and what others leave goes away (`StaleEntriesGo`); requests go to ports that have been open (`ForwardsToProven`) and to the service that has the path (`AnsweredByOwner`); a client that asks again is answered (`Served`) |
| lists | a walk misses no row that stayed (`NoSkip`) and meets none twice without insertions (`NoRepeat`); a gRPC page is the page that was asked for (`PageExact`) |
| search query | the search and its test double agree where they can (`TestsSearchAlike`); skills spelt as a resume lists them find it only if they are terms (`SkillsAsListed`) |
| request handlers | who is told that a request was refused may take it that it did nothing (`RefusedUndone`); "not found" is told of rows that were missing (`NotFoundWasAbsent`); what a handler lets pass its method stops (`FlawsStop`) |
| interview-service | no dangling rows (`NoDangling`), a bound on duplicate feedback (`FeedbackBound`), status moves (`StatusMoves`) |

## 2. Modules and how they follow the code

| Module | Models | Used by |
|---|---|---|
| `ResumeStatus` | the status table of `internal/resume/model/resume.go` and the statuses ParseResume may claim | `ResumeService` |
| `ResumeService` | `internal/resume`, the publisher, object keys | `SearchPipeline` |
| `EventDelivery` | abstract: what a consumer group promises a publisher | `StreamConsumer` |
| `StreamConsumer` | `internal/shared/events/consumer.go` | `SearchPipeline` |
| `SearchPipeline` | the composition, with `handleSearchEvent` and the index | |
| `InterviewService` | `internal/interview` and the foreign keys | |
| `ServiceRegistry` | start and shutdown in `cmd/*/main.go`, `internal/shared/consul`, `cmd/gateway` | `MCReadPath` |
| `Listing` | List of resume-, interview- and search-service over HTTP and gRPC | `MCReadPath` |
| `SearchQuery` | the query of `es_repository.go` and `mock_repository.go` | `MCReadPath` |
| `Answers` | the handlers over HTTP and gRPC with the calls of the service methods behind them | `MCReadPath` |
| `MC*` | model values and symmetry for TLC | |
| `*Proofs`, `ResumeServiceSafety`, `ResumeServiceClaims` | theorems | |

**ResumeService.** One action is one external call, with the local computation
around it; `req[r].pc` names the call the handler in slot `r` makes next and
`req[r].row` is its local `*model.Resume`. A handler's first call is combined
with its acceptance. `req[r].out` holds the events it has decided to publish;
`Publish` sends them one XADD at a time before anything else happens in that
handler. Conventions:

* A row keeps the fields the properties tell apart: status, one text field
  (`name` stands for name, email and phone, which are filled in by the same
  rule), `file_url` as an object key, whether `parsed_data` has content.
* `Succeeds`/`Fails` give every call its two outcomes; `Misses` adds "no row
  affected", which the repository reports as an error.
* A call that takes effect and reports an error (a COMMIT whose reply is lost, an
  upload that stored its object) is the fault `"lost"`: `ArrivalLost` for the
  first call of a handler, `ReplyLost` for a later one, after which the handler
  goes on as after any other error. For XADD, which the client library repeats,
  it is `"repeat"`. Three properties are checked and proved without `"lost"`.
  Two of them the code does not keep under it: `RowFileStored` (an INSERT that
  commits and reports an error is followed by the clean-up, which deletes the
  object of the new row) and `SequentialMoves` (where the last UPDATE of a parse
  commits and reports an error, the row goes from parsed to failed). The third,
  `ParseKeepsNames`, shares the proof of the second.
* A request whose first call fails without effect is left out.
  `IsAllowedFileType` and the request validation of the HTTP and gRPC layers
  reject before the first call and are left out for the same reason. A value
  too long for its column is one of the failed calls.
* `Cancel` is the client going away or the gateway's 30 seconds. A cancelled
  context makes every later call fail for free; DownloadFile and the LLM then
  fail too, and a parser whose LLM gives no answer returns the raw text.
* `Crash` clears all handlers; `PublisherAtStart` decides anew whether the
  process runs with a publisher.
* A uuid is never drawn twice (`used`, and keys only outside `objects`).
  The sets of ids and keys match the workload: a request that finds none left
  waits, which is a bound and not a behaviour of the code.
* The gRPC `CreateResume` and the HTTP `Create` take any `file_url` from the
  client: a made-up one is `Foreign`, and one of an existing row may be reused.

**StreamConsumer.** Entries are numbered as Redis orders them. `Read` is an
XREADGROUP that returns, `ReadLost` one whose reply is lost, `Handle` the call
of the handler, `Ack` the XACK whose error is dropped, `Stop` both a shutdown
(the loop looks at its context before each message) and a kill. The consumer's
name, drawn anew at every start unless the environment fixes it, plays no part
because `>` never returns pending entries. `attempts` and `applied` are history
variables.

**EventDelivery** keeps one `fate` per event: unpublished, queued, held,
applied, parked. The refinement mapping `Fate` computes it from the consumer's
state; "parked" is what is pending in nobody's hands, or was tried and failed.

**SearchPipeline** EXTENDS `ResumeService` and instantiates `StreamConsumer`
with `entries <- Len(stream)`; faults come from one budget. A document keeps
status, name and whether there are skills. `acceptsNow` chooses, once for a
behaviour, whether Elasticsearch takes the string `"now"` that
`esRepositoryImpl.UpdateStatus` writes to a field mapped as a plain date. With
the default date format it is expected to reject the update; no test of the
repository settles it, so both answers are modelled.

**InterviewService.** `resumes` is the table as seen through its foreign keys;
`ResumeDeleted` is the DELETE of resume-service with its cascade. `StatusRead`
and `StatusWrite` are the two statements of UpdateStatus; `SubmitRead`,
`SubmitCheck` and `SubmitInsert` the three of Submit. `Leave` ends a request
early for any reason: a failed statement, a cancelled client, a dead process.
`faults` counts failing look-ups of feedback, whose error the code drops.

**ServiceRegistry.** A process is one run of a binary with its instance uuid.
`proc[p].pc` is where main is, `todo` the endpoints it still has to treat in
this phase (search-service has one, the others two), `http` and `grpc` the two
servers. Each call to Consul is an action; so is each step of the goroutines.
`StartFails` is the `log.Fatalf` of any failed call of the start, `RemoveFails`
the one Consul causes by itself when two processes remove the same entry.
`ListenGRPC` differs by service: a port in use ends resume-service, while
interview-service goes on without gRPC. `CloseGRPC` has both outcomes of the
unsynchronised read of `grpcSrv` (and of the server not being up yet). `passing`
is kept for HTTP entries, the only ones anybody asks about; an entry whose check
has not run counts as failing, as `DeregisterCriticalServiceAfter` removes what
fails for 30 seconds (`Reap`). A 502 of the gateway may come from a closed port,
from a reset, or from a handler that takes more than 30 seconds (`Forward`).
Consul is one agent whose calls are atomic; the code that uses it is under
`src/`, Consul itself is modelled from that use and marked external. Paths are
sequences of segments.

**Listing.** A client walks the pages of one list by one of four rules for when
to stop; `Enter` and `Leave` are rows that come into the filter or go out of it
anywhere in the order. The resume list counts and then selects; the interview
and portfolio lists load everything and cut the page in memory; Elasticsearch
does both in one request and refuses to reach beyond 10000 hits (`Window`). The
query of the search has neither a sort nor `track_total_hits`: `Rearrange` lets
hits change places at any moment, as scores and a re-indexed document do, and
`CountedHits` stops at 10000 (`Counted`). Rows of the other lists with one
`created_at` have no order of their own either, which `Rearrange` covers.
`Wrap` gives integers their width: `Half` stands for 2^63 and `Narrow` for the
largest int32, and `ListingAssumption` keeps of these numbers what the proofs
use, that cap times `Narrow` fits. HTTP and gRPC differ in one thing, whether a
size is cut to 100.

**SearchQuery.** A filter and a document, `Found` for what the Elasticsearch
query matches and `FoundByMock` for what the in-memory repository of the tests
answers. `Analyzed` gives a text the terms the standard analyzer makes of it.

**Answers.** One request of any operation over either transport. `Methods` lists
the calls of each service method in order, `Handlers` what each handler checks
before it, the errors it knows and what it replies to the rest. Each call may
succeed, fail, report an error after it took effect, or miss its row, because
`Other`, another client, deletes rows meanwhile. `exchange.did` is what the
request changed. The statements themselves are those of `ResumeService` and
`InterviewService`; only what tells replies apart is kept of them. A method
wraps a missing row differently at its first call and at a later one
(`ErrNotFound`, `ErrNoRow`), and portfolio-service makes a new error each time.

Operators introduced by "A mistake X notices" are deliberate bugs: each stands
before the definition it would replace, and property X is known to fail when it
does.

## 3. Runs

| Run | Instance | Shows |
|---|---|---|
| `ResumeConcurrent` | 2 slots, 2 ids, 2 object keys, 3 requests, 1 fault of any kind | `TypeOK`, `RowFileStored`, `DeletedIsFinal` under every interleaving |
| `ResumeSequential` | 1 slot, 2 ids, 2 names, 4 requests, 1 repeated XADD | `LogDescribesTable`, `SequentialMoves`, `ParseKeepsNames` |
| `ResumeParse` | 2 slots, 1 id, 2 object keys, create/parse/ingest, 3 requests, 2 faults: failing call, call that took effect, cancelled client | `ExclusiveParse`, `OrphansByFailure`, `ClaimReleased` |
| `ResumeParseRace` | 2 slots, every operation, no fault | `ExclusiveParse` fails (section 6) |
| `StreamConsumer` | 2 consumers, batches of 2, 4 entries, 2 faults | the six consumer properties |
| `StreamConsumerRetry` | 1 consumer, 3 entries, 1 fault | `FailedIsRetried` fails |
| `SearchPipeline` | 1 slot, 1 consumer, 3 requests, 1 fault | `PipelineTypeOK`, `DeletedLeavesIndex`, `IndexSettled`, `IndexConverges` |
| `SearchPipelineGhost` | 2 slots, create/update/delete, no fault | `DeletedLeavesIndex` fails |
| `SearchPipelineStatus` | 1 slot, create/status, no fault, `"now"` rejected | `StatusArrives` fails |
| `ReadPath`, registry | 2 processes at one address, of one service at two, or of two services; 1 fault | the eight registry properties |
| `ReadPath`, lists | 3 rows, 5 lists, 4 rules; sizes and pages from -1 to the largest int | `ListTypeOK`, `NoSkip`, `NoRepeat`, `PageExact` |
| `ReadPath`, search | every document and filter over one skill in two spellings, two statuses, years 0 and 1 | `TestsSearchAlike`, `SkillsAsListed` |
| `ReadPath`, replies | every operation and transport, with and without one flaw, any call failing, others deleting | `RefusedUndone`, `NotFoundWasAbsent`, `FlawsStop` |
| `InterviewConcurrent` | 2 slots, 2 resumes, 2 interviews, 4 feedbacks, 1 failing look-up | `TypeOK`, `NoDangling`, `FeedbackBound`, `StatusMoves` |
| `InterviewFeedback` | 2 slots, no fault | `OneFeedback` fails |

Bounds, and why they are enough to be of interest:

* Every race in the handlers is between two requests on one resume, after a
  third has created it: two slots and three requests reach them all; a second
  parse after a stale write needs four (`ResumeParseRace`). One fault reaches
  each error path of a handler.
* `ResumeParse` leaves UploadFile and Delete out because they leave objects
  behind by design (nothing deletes a replaced file or that of a deleted
  resume). `OrphansByFailure` is about the clean-up of UploadAndParse: it names
  the two steps in which an object may get out of reach, its own upload that
  reports an error and the clean-up whose call fails, which it does for free
  when the client has gone, since it uses the request's own context.
* `ClaimReleased` is checked with two faults, so that a first one can lead into
  an error path and a second one is left for what follows. Its one excuse is not
  the number of faults but `ReleaseUnwritten`: the handler has come to announce
  "failed" and the write of it did not reach the row. A handler that answers
  before it tries that write is caught. A process that dies after the claim
  strands it for good, so crashes are not in this run.
* `ReadPath` is one run of four parts that share no variable: a behaviour
  chooses its part at the start and leaves the others as they are, so its states
  are the sum of the four and not their product.
* Every interleaving of registrations is between a process and a neighbour or
  successor at its address, or between the gateway and one process: two of each
  reach them. One fault is a kill, a failed start or a failed deregistration.
* Three rows with pages of one or two give first, middle and last pages, and a
  fourth request beyond the end. An int of 40 values wraps at the products the
  largest page number makes; `Narrow` = 7 times a cap of 2 does not, as
  2^31 times 100 does not wrap an int64. A window of 5 is met by the third page,
  and a count that stops at 2 by three rows.
* `NoSkip` speaks of walks that can be trusted (`Trusted`): those that stop at
  an empty page; at a short page, if the server used the size that was sent; by
  the total, if it was counted with the rows and to the end, which only the lists
  of interview-service do. Section 6 says what happens to the others. Neither
  `NoSkip` nor `NoRepeat` promises anything of a walk during which rows changed
  places, so of a search they speak while the index is at rest or only grows at
  the end of the hits.
* `Answers` has no constants: its tables are the code's and one request is all
  its properties speak of, so TLC's search of it is exhaustive.
* The consumer needs batches shorter than the stream and two processes to
  interleave reads; 4 entries with a `Count` of 2 (10 in the code) give both.
* `IndexSettled` is the safety half of `IndexConverges`: where no request runs and
  every entry was given to the handler, index and table agree. Like the liveness
  property it speaks of behaviours without a fault: a lost batch leaves a document
  behind for good.
* `FeedbackBound` needs more feedback ids than the bound allows: 4 against 3.
* `DeletedLeavesIndex` holds with one client at a time even with repeated
  events, because the stream order is then the commit order; two clients break
  it (`SearchPipelineGhost`).
* `CHECK_DEADLOCK FALSE` is set where the workload is finite: it ends with all
  requests answered and the stream read.

Symmetry is used in the runs that check invariants and action properties
(`StatusMoves`, `SequentialMoves`, `ParseKeepsNames`), which TLC checks state by
state and step by step; never for liveness. `SearchPipeline` leaves UploadFile
out: what it announces is what Update announces.

## 4. Fairness

* `FairSpec` of `ResumeService`: weak fairness of `Step(r)` per slot. Each call
  of a running handler returns: the LLM client has a timeout of 60 seconds, and
  a database or storage call ends with its connection or its context. Clients
  need not come, faults need not happen.
* `FairSpec` of `StreamConsumer`: weak fairness of the loop's steps (XREADGROUP
  blocks for one second at most) and of `Start`. The latter assumes that a
  process that stopped is started again by whoever operates it (the repository
  has no supervisor: `docker-compose.yml` runs the infrastructure only), and
  that Redis answers the ping at that start, since the consumer is started only
  then.
* `RegistryFairness`: a launched process goes on with its start and its
  goroutines come up; Consul keeps checking and removing; the gateway forwards
  what it has resolved and the client asks again. Nobody needs to launch a
  process, send a signal or ask in the first place. Without the client's
  repetition `Served` would speak of a client that has gone. That a handler
  answers within the gateway's 30 seconds is not assumed: `Forward` may end in a
  502 with the port open every time, as it does for a slow upload-and-parse, and
  `Served` asks only that the client is led, again and again, to an open port of
  the right service.
* `PipelineFairSpec`: both of the above. What may go wrong with the loop
  (`ConsumerFault`) is an action of its own, without fairness.

## 5. Proofs

The theorems hold for every value of the constants allowed by the named
assumptions of the modules (`SentinelAssumption`: the empty id, name and file
differ from the real ones; `BoundAssumption`, `ConsumerAssumption`,
`InterviewAssumption`, `RegistryAssumption`: bounds are naturals, sets of slots
finite; `PipelineAssumption`: batches are not empty, Elasticsearch takes `"now"` or
does not; `ListingAssumption`: finitely many rows, twice as many fit an int, and
so does the cap times the largest int32).

| Theorem | Module | Argument |
|---|---|---|
| `TypeCorrect`: `Spec => []TypeOK` | `ResumeServiceProofs` | `TInv` adds to `TypeOK` what typing alone does not say: a handler past its first call has an id where it needs one |
| `FilesStored`: no write takes effect and reports an error, `[]RowFileStored` | `ResumeServiceSafety` | `FileInv`: also the snapshot rows in handlers name stored objects, and the object UploadAndParse has stored is named by nobody else, so its clean-up takes it from nobody. Without the second part a stale whole-row write or the clean-up would break the invariant. The hypothesis is necessary: after an INSERT that committed and reported an error, the clean-up deletes the object of a row that exists |
| `DeletionsFinal`: `[]DeletedIsFinal` | `ResumeServiceSafety` | `FinalInv`: what exists was inserted and its deletion is in nobody's queue; a uuid is inserted once, and no statement creates a row it misses |
| `ExclusiveClaim`: without `update` and `status`, `[]ExclusiveParse` | `ResumeServiceClaims` | `ClaimInv`: whoever parses holds "processing" in its local row, and the table says so as long as the resume exists; the conditional write then keeps others out. The hypothesis is necessary: `ResumeParseRace` refutes the property without it |
| `OrderlyMoves`: one client, no write that takes effect and reports an error, `SequentialMoves`; `NamesKept`: the same, `ParseKeepsNames` | `ResumeServiceClaims` | `AloneInv`: from its read to its write, a handler's local row is what the table still has. Then each statement is judged against the row it was computed from. With two slots the snapshot may be stale, and both properties fail |
| `StreamTells`: one client, no fault but repeated XADDs, `[]LogDescribesTable` | `ResumeServiceClaims` | `LogInv`: each row ever inserted is told of in one place, by the handler that is about to announce it, by the last event of its queue that tells a status, or by the last such event of the stream. The property alone says nothing while a request runs and is not inductive |
| `UploadsUndone`: no `delete` or `upload`, no crash, `OrphansByFailure` | `ResumeServiceClaims` | `HoldInv`: the file of a row never changes, every handler but UploadAndParse knows the file of the row it is about, and UploadAndParse alone holds an object of its own. Then an object leaves sight only from the hands of an UploadAndParse, in one of the two steps the property names, for any number of faults of any other kind |
| `TypeCorrect`, `AtMostOnce`, `NoLoss` | `StreamConsumerProofs` | `IInv`: nothing is delivered before the group exists; an entry is in one batch at most, and then pending and never tried; what is not delivered was never tried; what is about to be acknowledged was applied |
| `Implements`: `Spec => ImplementsDelivery` | `StreamConsumerProofs` | one lemma per kind of step: Add is Publish, Read and ReadLost are Deliver, Handle is Attempt, Stop is Abandon, the rest stutters, under `IInv` |
| `FaultsStrand`: `[]StrandedByFaultsOnly` | `StreamConsumerProofs` | `StrandedInv`: a hand (the rest of a batch and the message being acknowledged) holds `Count` entries at most; an entry becomes stranded only by leaving a hand, or by never reaching one, in a step that spends a fault |
| `PipelineTypes`: `[]PipelineTypeOK` | `SearchPipelineProofs` | `Budget`: the stream and the events still `Owed` by the handlers number three per request and one per fault at most, so the stream never outgrows what the consumer's variables are typed for. That bound is about two components and neither has it alone |
| `PublishedHandledOnce`, `PublishedNotLost`, `PipelineDelivers` | `SearchPipelineProofs` | to the consumer, the service is an environment that appends entries and spends faults; `StreamConsumerProofs` shows that its invariant and refinement survive any such step (`OpenIInv`, `OpenDelivery`), and `NextOpen` that the service takes no other. So the loop's guarantees hold of the events that are really published |
| `DeletionsLeaveIndex`: one client, one consumer, `[]DeletedLeavesIndex` under any fault | `SearchPipelineProofs` | `LeavesInv`: nothing about a resume follows its deletion in the stream or in a queue (`DeletionsLast`), what a handler is about to publish is about a row that exists or is that deletion (`OutLive`), and the loop hands entries on in the order of the stream (`InOrder`). `SearchPipelineGhost` refutes it for two clients |
| `IndexSettles`: one client, one consumer, a publisher from the start, `[]IndexSettled` | `SearchPipelineProofs` | `SettledInv`, while no fault has occurred: `LogInv`; a status event follows an event with the document (`TalkInv`), so that it never finds none to update; no entry is passed over (`AllGiven`) or given late (`GivenInOrder`); each document shows the last event given that tells a status (`Reflects`). With everything given, the last event of the stream is the last given, and `LogInv` says it is the row |
| `RoutedToOwner` | `ServiceRegistryProofs` | each path of each router against the table |
| `RegistryTypes`: `[](TypeOK /\ TInv)` | `ServiceRegistryProofs` | `TInv` adds that each phase of main that treats endpoints has one to treat |
| `OneEntry`, `Removals` | `ServiceRegistryProofs` | `RInv`: a process has entries exactly for what it has registered and not removed; one that starts without an overlap has listed everything registered at its address before it registers. Typing alone does not exclude an entry that appears between the list and the registration |
| `ForwardsOnlyToProven`, `AnswersFromOwner` | `ServiceRegistryProofs` | `PortInv`: a port is held by the process whose server is up; a passing entry, and the address the gateway has found, belong to an address where some process has listened. `RouteInv`: the chosen service is the owner's |
| `OrderlyShutdown`: `[]LeavesNothing` | `ServiceRegistryProofs` | `OrderInv`: without a fault, what is still listed of a process is what it still has to deregister |
| `ListTypes`, `NoneSkipped`, `NoneRepeated`, `PagesExact` | `ListingProofs` | `WalkInv`: the offset of the next page never leaves an int, because a walk that goes on has met a row of the page before or is below a total that is no larger than the list. `Covered`: rows not met lie ahead, until one leaves its place; `Fresh`: rows met lie behind, until one comes to a place. For the search, whose hits are not ordered, the premises `left` and `entered` are what the theorems rest on |
| `MockAgrees`: `[]TestsSearchAlike`; `SkillsFound`: `[]SkillsAsListed` | `ListingProofs` | clause by clause of the query, for whatever the analyzer makes of a text: only words and skills are matched differently by the test double. For skills: `QueryAssumption` says that a term is analyzed to itself and anything else to terms, so skills that are no terms meet none of the terms their own document is indexed by |
| `InterviewTypes`, `References`, `Moves` | `InterviewServiceProofs` | `NoDangling` is inductive with the types; `Moves` needs that a waiting status write was allowed for the status it had seen |
| `FeedbackLimit`: `[]FeedbackBound` | `InterviewServiceProofs` | `BoundInv` counts feedbacks together with the requests about to insert one |
| `OneAtATime`: one slot, no failing look-up, `[]OneFeedback` | `InterviewServiceProofs` | from `FeedbackLimit` |

One client means one slot at most (`OneClient`), one consumer one process at most
(`OneConsumer`): the theorems say of requests that come one after the other, any
number of them on any number of resumes, what the runs show on small instances.
The runs that check these properties satisfy the hypotheses, and the
runs that drop them (`ResumeParseRace`, `SearchPipelineGhost`) are refuted.

Model-checked only: the liveness properties `Consumed`, `ClaimReleased`,
`IndexConverges`, `StaleEntriesGo`, `Served`, since liveness under fairness is out
of the prover's reach. Of `IndexConverges`, `IndexSettles` proves what can be: no
behaviour settles in a state where index and table disagree. And the three
properties of `Answers`, which has no constant a proof could range over. Every
other invariant and every action property of a passing run is stated by a
theorem.

## 6. Where code and words disagree

1. **Two parses of one resume** (`ResumeParseRace`). The comment on the claim
   (`resume_service.go:338-339`) says it prevents races between requests that
   parse the same resume. Against each other they are excluded (`ExclusiveClaim`),
   but the blind write of UpdateStatus and the whole-row write of Update can
   replace "processing" while a parse runs, and a second request claims it.
2. **Failed messages are not retried** (`StreamConsumerRetry`). The search
   service's design keeps the chance of a later retry by not acknowledging; the
   loop never asks for a pending message again.
3. **Deleted resumes come back** (`SearchPipelineGhost`). An "updated" event
   published after another request's "deleted" indexes the deleted resume.
4. **Status changes may never arrive** (`SearchPipelineStatus`). See `"now"` in
   section 2: the finding stands if Elasticsearch applies its default format.
5. **Two feedbacks of one interview** (`InterviewFeedback`). `AlreadyExists` is
   documented for a second submission; two in flight both succeed, since no
   unique key backs the check (the `uniqueIndex` tag in `model/feedback.go` is
   never applied, the schema comes from `migrations/`).

Not disagreements, but worth knowing:

* ParseResume takes a failed resume straight back to processing, which the table
  does not list and the API document does not show; `Moves` allows it.
* `docs/consul-integration.md:116-121` promises that earlier registrations of an
  endpoint are cleaned up before a new one is made. Two processes that start
  together both find nothing to clean up; `OneEntryPerEndpoint` says that this
  is the only way to two entries. And a start that fails after the clean-up has
  unlisted an older process that may still be running: nothing lists it again.
* A client of the resume list that stops when page times size reaches the total
  misses a row when one is inserted between the COUNT and the SELECT of its last
  page. A client that stops at an empty page does not.
* A `page_size` above 100 is cut to 100 by the gRPC lists, taken as it is by
  `GET /resumes`, and replaced by 10 by the search, whose answer repeats the
  size that was asked for: who stops at a short page stops after the first ten.
* Over HTTP the product of page and size can wrap: a negative OFFSET is an error
  of the database, and a wrapped positive one a wrong page.
* Skills are indexed through the standard analyzer and searched with a `terms`
  query, which is not analyzed: `skills=Go` finds nothing, `skills=go` does; the
  handler splits at commas without trimming, so `go, sql` finds what has `go`.
  The in-memory repository, which only tests use, does not look at skills and so
  hides it.
* The search has no sort: a client that walks its pages while resumes are indexed
  may meet one twice and miss another, though none came or left. Its total stops
  at 10000.
* `docs/interview-service-grpc.md:181` answers a malformed uuid with
  `InvalidArgument`; `CreateInterview` answers `Internal`, as only its method
  parses the id. Any error of `DELETE /portfolios/:id` is a 404, any of the gRPC
  `GetPortfolio` a `NotFound`. A row that is deleted between the read and the
  write of a request makes an internal error, not a "not found".
* An unscoped ListInterviews answers an empty list, as
  `docs/interview-service-grpc.md` says.

## 7. What is not modelled

* Scores, their order and fuzzy matching of the search text: what matches is
  modelled for exact terms only. In-memory paging of the test repository, which
  walks a Go map.
* The gateway's overview page and its health probes, which keep no state;
  headers and bodies of proxied requests.
* Several Consul agents and their anti-entropy; checks that time out.
* Text extraction and LLM prompts: `Parse` keeps their outcomes.
* The formats of requests and replies; how long a handler takes.
* A publisher absent at start is a fault of `ResumeConcurrent` only: with it
  table and index diverge for the life of the process, and nothing in the
  repository says otherwise.
* Timestamps, wording of errors, logging, configuration, generated code, pages.

## 8. Plan

Done, in this order: `ResumeStatus`, `ResumeService`; `EventDelivery`,
`StreamConsumer`; `SearchPipeline`; `InterviewService`; `ServiceRegistry`;
`Listing` and `SearchQuery`; `Answers`; the proofs of section 5.

What would come next:

1. Proofs under weaker hypotheses: `LogDescribesTable` when a client goes away
   only before the statement that changes the row, `IndexSettled` after a fault
   that stranded nothing, and `StrandedByFaultsOnly` carried to the pipeline, whose
   faults are spent by the service as well.
2. A walk of the search by a point in time, should the query come to ask for an
   order: `Rearrange` would go, and `NoSkip` would speak of every walk.
