--------------------------- MODULE ResumeService ---------------------------
(***************************************************************************)
(* resume-service: the handlers of internal/resume/service, each a         *)
(* sequence of calls to Postgres (rows), to MinIO (objects) and to the     *)
(* Redis stream, with no transaction around them.  One action is one call; *)
(* between two calls of a request any step of another request may happen.  *)
(* Every call uses the context of its HTTP or gRPC request, so once that   *)
(* context is cancelled each later call of the handler fails.              *)
(***************************************************************************)
EXTENDS ResumeStatus, Naturals, Sequences

CONSTANTS
    Ids,          \* resume ids, what uuid.New draws from
    Slots,        \* requests that can be in flight together
    Objects,      \* object keys, what the storage's uuid draws from
    Names,        \* values of the client's text fields (name, email, phone)
    NoId, NoName, NoFile,   \* the empty id, name and file_url
    Foreign,      \* a file_url a client made up: no stored object answers it
    Ops,          \* the operations clients use
    Faults,       \* the kinds of fault the environment may inject
    MaxRequests,  \* bound: requests ever accepted
    MaxFaults     \* bound: faults ever injected

AllOps == {"create", "update", "delete", "status", "upload", "parse", "ingest"}
AllFaults == {"call", "lost", "repeat", "cancel", "crash", "redis"}

ASSUME SentinelAssumption ==
    /\ NoId \notin Ids
    /\ NoName \notin Names
    /\ NoFile \notin Objects
    /\ Foreign \notin Objects

ASSUME BoundAssumption ==
    /\ Ops \subseteq AllOps
    /\ Faults \subseteq AllFaults
    /\ MaxRequests \in Nat
    /\ MaxFaults \in Nat

VARIABLES
    rows,       \* table resumes
    used,       \* ids that were ever inserted: a uuid is never drawn twice
    objects,    \* keys present in the bucket
    stream,     \* entries of the Redis stream, oldest first
    req,        \* the handler running in each slot
    publisher,  \* FALSE while this process runs with a nil publisher
    started,    \* requests accepted so far
    faults      \* faults injected so far

vars == <<rows, used, objects, stream, req, publisher, started, faults>>

-----------------------------------------------------------------------------
(* Rows, events and requests.  A row that does not exist has the status    *)
(* "absent".  `parsed' says that parsed_data holds skills, work experience *)
(* or education.                                                           *)

RowStatuses == Statuses \cup {"absent"}

Row == [status : RowStatuses, name : Names \cup {NoName},
        file : Objects \cup {NoFile, Foreign}, parsed : BOOLEAN]

NoRow == [status |-> "absent", name |-> NoName, file |-> NoFile, parsed |-> FALSE]

Exists(id) == rows[id].status # "absent"

Actions == {"created", "updated", "deleted", "status_changed", "parsed"}

(* One stream entry.  new is the status the event tells its reader. *)
Event == [action : Actions, id : Ids, doc : Row, old : RowStatuses, new : RowStatuses]

buildResumeEventPayload(action, id, row) ==
    [action |-> action, id |-> id, doc |-> row, old |-> "absent", new |-> row.status]

Created(id, row) == buildResumeEventPayload("created", id, row)
Updated(id, row) == buildResumeEventPayload("updated", id, row)
Deleted(id) == buildResumeEventPayload("deleted", id, NoRow)
Parsed(id)  == buildResumeEventPayload("parsed", id, NoRow)

(* A mistake LogDescribesTable notices: the arguments the wrong way round. *)
StatusChangedSwapped(id, old, new) ==
    [action |-> "status_changed", id |-> id, doc |-> NoRow, old |-> new, new |-> old]

StatusChanged(id, old, new) ==
    [action |-> "status_changed", id |-> id, doc |-> NoRow, old |-> old, new |-> new]

(* Where a handler is: the next call it will make once `out', the events   *)
(* it has decided to publish, is empty.                                    *)
Pcs == {"idle", "update.write", "refetch", "status.write", "status.refetch",
        "file.upload", "file.write", "parse.claim", "parse.run", "parse.store",
        "parse.finish", "parse.fail", "ingest.insert", "ingest.cleanup", "done"}

(* row is the handler's local *model.Resume, old its oldStatus, live is    *)
(* FALSE once its context is cancelled.                                    *)
Request == [pc : Pcs, id : Ids \cup {NoId}, row : Row, old : RowStatuses,
            out : Seq(Event), live : BOOLEAN]

Handler(pc, id, row, old, out) ==
    [pc |-> pc, id |-> id, row |-> row, old |-> old, out |-> out, live |-> TRUE]

Idle == Handler("idle", NoId, NoRow, "absent", << >>)

-----------------------------------------------------------------------------
(* Control shared by the handlers. *)

Accept(r, op) ==
    /\ req[r] = Idle
    /\ op \in Ops
    /\ started < MaxRequests
    /\ started' = started + 1

At(r, pc) ==
    /\ req[r].pc = pc
    /\ req[r].out = << >>

Goto(r, pc) == req' = [req EXCEPT ![r].pc = pc]
Respond(r)  == req' = [req EXCEPT ![r] = Idle]

(* The handler has nothing left but to publish the events of out. *)
ThenPublish(r, out) == req' = [req EXCEPT ![r].pc = "done", ![r].out = out]

Spend(kind) ==
    /\ kind \in Faults
    /\ faults < MaxFaults
    /\ faults' = faults + 1

(* A call with a cancelled context fails without reaching its server.  A   *)
(* call that reports an error after it took effect: see ReplyLost.         *)
Succeeds(r) == req[r].live /\ UNCHANGED faults
Fails(r)    == IF req[r].live THEN Spend("call") ELSE UNCHANGED faults

(* A mistake DeletedIsFinal notices: gorm's Save inserts the row it misses. *)
AffectsOrInserts(id) == id \in used

(* A SELECT, UPDATE or DELETE by id finds the row, or gives an error: its  *)
(* own, or ErrNotFound when no row is affected.                            *)
Affects(id) == Exists(id)
Hits(r)   == Succeeds(r) /\ Affects(req[r].id)
Misses(r) == Fails(r) \/ (Succeeds(r) /\ ~Affects(req[r].id))

(* The statements of the repository. *)
Insert(id, row)        == rows' = [rows EXCEPT ![id] = row] /\ used' = used \cup {id}
WriteWholeRow(id, row) == rows' = [rows EXCEPT ![id] = row]
WriteStatus(id, s)     == rows' = [rows EXCEPT ![id].status = s]
WriteFileURL(id, file) == rows' = [rows EXCEPT ![id].file = file]
DeleteRow(id)          == rows' = [rows EXCEPT ![id] = NoRow]

(* UpdateStatusIf, the one conditional write, affects the row. *)
Claimable(id) == rows[id].status \in Parsable

(* The calls to the storage. *)
StoreFile(key)  == key \notin objects /\ objects' = objects \cup {key}
DeleteFile(key) == objects' = objects \ {key}

-----------------------------------------------------------------------------
(* Create *)

Create(r) ==
    /\ Accept(r, "create")
    /\ \E id \in Ids \ used, name \in Names,
          file \in {NoFile, Foreign} \cup {rows[i].file : i \in Ids} :
         LET row == [status |-> "pending", name |-> name, file |-> file, parsed |-> FALSE]
         IN  /\ Insert(id, row)
             /\ req' = [req EXCEPT ![r] =
                          Handler("done", id, row, "absent", <<Created(id, row)>>)]
    /\ UNCHANGED <<objects, stream, publisher, faults>>

(* Delete *)

Delete(r) ==
    /\ Accept(r, "delete")
    /\ \E id \in Ids :
         /\ Exists(id)
         /\ DeleteRow(id)
         /\ req' = [req EXCEPT ![r] = Handler("done", id, NoRow, "absent", <<Deleted(id)>>)]
    /\ UNCHANGED <<used, objects, stream, publisher, faults>>

(* Update: the row read here is written back whole by UpdateWrite. *)

UpdateRead(r) ==
    /\ Accept(r, "update")
    /\ \E id \in Ids :
         /\ Exists(id)
         /\ req' = [req EXCEPT ![r] = Handler("update.write", id, rows[id], "absent", << >>)]
    /\ UNCHANGED <<rows, used, objects, stream, publisher, faults>>

UpdateWrite(r) ==
    /\ At(r, "update.write")
    /\ \/ /\ Hits(r)
          /\ \E name \in Names \cup {req[r].row.name} :
               WriteWholeRow(req[r].id, [req[r].row EXCEPT !.name = name])
          /\ Goto(r, "refetch")
       \/ /\ Misses(r)
          /\ Respond(r)
          /\ UNCHANGED rows
    /\ UNCHANGED <<used, objects, stream, publisher, started>>

(* The re-fetch that ends Update and UploadFile; when it fails the handler *)
(* answers with its local row and publishes nothing.                       *)
Refetch(r) ==
    /\ At(r, "refetch")
    /\ \/ Hits(r) /\ ThenPublish(r, <<Updated(req[r].id, rows[req[r].id])>>)
       \/ Misses(r) /\ Respond(r)
    /\ UNCHANGED <<rows, used, objects, stream, publisher, started>>

-----------------------------------------------------------------------------
(* UpdateStatus: the transition is checked on the row read here and        *)
(* written later by an UPDATE that does not look at the current status.    *)

StatusRead(r) ==
    /\ Accept(r, "status")
    /\ \E id \in Ids, to \in Statuses \cup {"unknown"} :
         /\ Exists(id)
         /\ CanTransitionTo(rows[id].status, to)
         /\ req' = [req EXCEPT ![r] =
                      Handler("status.write", id, [rows[id] EXCEPT !.status = to],
                              rows[id].status, << >>)]
    /\ UNCHANGED <<rows, used, objects, stream, publisher, faults>>

StatusWrite(r) ==
    /\ At(r, "status.write")
    /\ \/ /\ Hits(r)
          /\ WriteStatus(req[r].id, req[r].row.status)
          /\ Goto(r, "status.refetch")
       \/ /\ Misses(r)
          /\ Respond(r)
          /\ UNCHANGED rows
    /\ UNCHANGED <<used, objects, stream, publisher, started>>

StatusRefetch(r) ==
    /\ At(r, "status.refetch")
    /\ \/ /\ Hits(r)
          /\ ThenPublish(r, <<StatusChanged(req[r].id, req[r].old, req[r].row.status)>>)
       \/ Misses(r) /\ Respond(r)
    /\ UNCHANGED <<rows, used, objects, stream, publisher, started>>

-----------------------------------------------------------------------------
(* UploadFile *)

FileRead(r) ==
    /\ Accept(r, "upload")
    /\ \E id \in Ids :
         /\ Exists(id)
         /\ req' = [req EXCEPT ![r] = Handler("file.upload", id, rows[id], "absent", << >>)]
    /\ UNCHANGED <<rows, used, objects, stream, publisher, faults>>

FileUpload(r) ==
    /\ At(r, "file.upload")
    /\ \/ /\ Succeeds(r)
          /\ \E key \in Objects :
               /\ StoreFile(key)
               /\ req' = [req EXCEPT ![r].pc = "file.write", ![r].row.file = key]
       \/ /\ Fails(r)
          /\ Respond(r)
          /\ UNCHANGED objects
    /\ UNCHANGED <<rows, used, stream, publisher, started>>

(* A mistake RowFileStored notices: removing the object that is replaced. *)
FileWriteReplacing(r) ==
    /\ At(r, "file.write")
    /\ Hits(r)
    /\ WriteFileURL(req[r].id, req[r].row.file)
    /\ objects' = objects \ {rows[req[r].id].file}
    /\ Goto(r, "refetch")
    /\ UNCHANGED <<used, stream, publisher, started>>

(* UpdateFileURL.  On an error the object stays in the bucket, as does the *)
(* object the new one replaces.                                            *)
FileWrite(r) ==
    /\ At(r, "file.write")
    /\ \/ /\ Hits(r)
          /\ WriteFileURL(req[r].id, req[r].row.file)
          /\ Goto(r, "refetch")
       \/ /\ Misses(r)
          /\ Respond(r)
          /\ UNCHANGED rows
    /\ UNCHANGED <<used, objects, stream, publisher, started>>

-----------------------------------------------------------------------------
(* The parser.  It may reject any file; when the LLM gives no answer, as   *)
(* with a cancelled context, it returns the raw text alone.                *)

ParseError == [ok |-> FALSE, name |-> NoName, data |-> FALSE]
RawText    == [ok |-> TRUE,  name |-> NoName, data |-> FALSE]

(* data: there are skills, work experience or education. *)
ParsedResume == [ok : {TRUE}, name : Names \cup {NoName}, data : BOOLEAN]

Parse(live) == {ParseError, RawText} \cup IF live THEN ParsedResume ELSE {}

-----------------------------------------------------------------------------
(* ParseResume *)

ParseRead(r) ==
    /\ Accept(r, "parse")
    /\ \E id \in Ids :
         /\ Exists(id)
         /\ rows[id].file # NoFile
         /\ req' = [req EXCEPT ![r] =
                      Handler("parse.claim", id, rows[id], rows[id].status, << >>)]
    /\ UNCHANGED <<rows, used, objects, stream, publisher, faults>>

(* A mistake SequentialMoves notices: the claim not noted in the local row. *)
LocalClaimForgotten(row) == row

LocalClaim(row) == [row EXCEPT !.status = "processing"]

ParseClaim(r) ==
    LET id == req[r].id IN
    /\ At(r, "parse.claim")
    /\ \/ /\ Succeeds(r)
          /\ Claimable(id)
          /\ WriteStatus(id, "processing")
          /\ req' = [req EXCEPT ![r].pc = "parse.run",
                                ![r].row = LocalClaim(req[r].row),
                                ![r].out = <<StatusChanged(id, req[r].old, "processing")>>]
       \/ /\ Fails(r) \/ (Succeeds(r) /\ ~Claimable(id))
          /\ Respond(r)
          /\ UNCHANGED rows
    /\ UNCHANGED <<used, objects, stream, publisher, started>>

(* A mistake ParseKeepsNames notices: what the parser found always wins. *)
FillNameAlways(local, found) == IF found = NoName THEN local ELSE found

FillName(local, found) == IF local = NoName THEN found ELSE local

(* DownloadFile and Parse.  Nothing shared changes; what was filled in is  *)
(* kept only when there is parsed data to store.                           *)
ParseRun(r) ==
    /\ At(r, "parse.run")
    /\ \/ Goto(r, "parse.fail")
       \/ /\ req[r].row.file \in objects
          /\ \E found \in Parse(req[r].live) :
               IF found.ok /\ found.data
               THEN req' = [req EXCEPT ![r].pc = "parse.store",
                                       ![r].row.name = FillName(req[r].row.name, found.name),
                                       ![r].row.parsed = TRUE]
               ELSE Goto(r, IF found.ok THEN "parse.finish" ELSE "parse.fail")
    /\ UNCHANGED <<rows, used, objects, stream, publisher, started, faults>>

(* A mistake ClaimReleased notices: an error answered at once. *)
ParseStoreAnswering(r) ==
    /\ At(r, "parse.store")
    /\ \/ /\ Hits(r)
          /\ WriteWholeRow(req[r].id, req[r].row)
          /\ Goto(r, "parse.finish")
       \/ /\ Misses(r)
          /\ Respond(r)
          /\ UNCHANGED rows
    /\ UNCHANGED <<used, objects, stream, publisher, started>>

(* The row read by ParseRead, completed by ParseRun, is written back whole. *)
ParseStore(r) ==
    /\ At(r, "parse.store")
    /\ \/ /\ Hits(r)
          /\ WriteWholeRow(req[r].id, req[r].row)
          /\ Goto(r, "parse.finish")
       \/ /\ Misses(r)
          /\ Goto(r, "parse.fail")
          /\ UNCHANGED rows
    /\ UNCHANGED <<used, objects, stream, publisher, started>>

ParseFinish(r) ==
    LET id == req[r].id IN
    /\ At(r, "parse.finish")
    /\ \/ /\ Hits(r)
          /\ WriteStatus(id, "parsed")
          /\ ThenPublish(r, <<StatusChanged(id, "processing", "parsed"), Parsed(id)>>)
       \/ /\ Misses(r)
          /\ Goto(r, "parse.fail")
          /\ UNCHANGED rows
    /\ UNCHANGED <<used, objects, stream, publisher, started>>

(* The error of this UpdateStatus is dropped and the event is published    *)
(* whether or not the row was changed.                                     *)
ParseFail(r) ==
    LET id == req[r].id IN
    /\ At(r, "parse.fail")
    /\ \/ Hits(r) /\ WriteStatus(id, "failed")
       \/ Misses(r) /\ UNCHANGED rows
    /\ ThenPublish(r, <<StatusChanged(id, "processing", "failed")>>)
    /\ UNCHANGED <<used, objects, stream, publisher, started>>

-----------------------------------------------------------------------------
(* UploadAndParse *)

IngestUpload(r) ==
    /\ Accept(r, "ingest")
    /\ \E key \in Objects :
         /\ StoreFile(key)
         /\ req' = [req EXCEPT ![r] =
                      Handler("ingest.insert", NoId, [NoRow EXCEPT !.file = key], "absent", << >>)]
    /\ UNCHANGED <<rows, used, stream, publisher, faults>>

(* The row UploadAndParse builds from what the parser found. *)
IngestRow(file, found) ==
    [status |-> IF found.ok THEN "parsed" ELSE "failed",
     name |-> found.name, file |-> file, parsed |-> found.data]

(* A mistake OrphansByFailure notices: the upload not undone. *)
AfterFailedInsertNothing(r) == Respond(r)

AfterFailedInsert(r) == Goto(r, "ingest.cleanup")

(* The events that follow the INSERT. *)
ThenAnnounce(r, id, row) ==
    req' = [req EXCEPT ![r] =
              Handler("done", id, row, "absent",
                      <<Created(id, row), StatusChanged(id, "pending", row.status)>>
                      \o IF row.status = "parsed" THEN <<Parsed(id)>> ELSE << >>)]

(* Parse, which shares nothing, and the INSERT. *)
IngestInsert(r) ==
    /\ At(r, "ingest.insert")
    /\ \/ /\ Succeeds(r)
          /\ \E id \in Ids \ used, found \in Parse(TRUE) :
               LET row == IngestRow(req[r].row.file, found)
               IN  /\ Insert(id, row)
                   /\ ThenAnnounce(r, id, row)
       \/ /\ Fails(r)
          /\ AfterFailedInsert(r)
          /\ UNCHANGED <<rows, used>>
    /\ UNCHANGED <<objects, stream, publisher, started>>

(* DeleteFile, its error dropped. *)
IngestCleanup(r) ==
    /\ At(r, "ingest.cleanup")
    /\ \/ Succeeds(r) /\ DeleteFile(req[r].row.file)
       \/ Fails(r) /\ UNCHANGED objects
    /\ Respond(r)
    /\ UNCHANGED <<rows, used, stream, publisher, started>>

-----------------------------------------------------------------------------
(* Publishing.  XADD is not part of any transaction, its error is dropped, *)
(* and the client library may repeat it when the reply is lost.            *)

Publish(r) ==
    LET q == req[r] IN
    /\ q.out # << >>
    /\ \/ Succeeds(r) /\ stream' = IF publisher THEN Append(stream, Head(q.out)) ELSE stream
       \/ Fails(r) /\ UNCHANGED stream
       \/ /\ q.live /\ publisher
          /\ Spend("repeat")
          /\ stream' = stream \o <<Head(q.out), Head(q.out)>>
    /\ req' = [req EXCEPT ![r] = IF q.pc = "done" /\ Tail(q.out) = << >>
                                 THEN Idle
                                 ELSE [q EXCEPT !.out = Tail(q.out)]]
    /\ UNCHANGED <<rows, used, objects, publisher, started>>

-----------------------------------------------------------------------------
(* Faults *)

(* A first call takes effect and reports an error: no handler goes on. *)
ArrivalLost(r) ==
    /\ Spend("lost")
    /\ \/ /\ Accept(r, "create")
          /\ \E id \in Ids \ used, name \in Names,
                file \in {NoFile, Foreign} \cup {rows[i].file : i \in Ids} :
               Insert(id, [status |-> "pending", name |-> name, file |-> file, parsed |-> FALSE])
          /\ UNCHANGED objects
       \/ /\ Accept(r, "delete")
          /\ \E id \in Ids : Exists(id) /\ DeleteRow(id)
          /\ UNCHANGED <<used, objects>>
       \/ /\ Accept(r, "ingest")
          /\ \E key \in Objects : StoreFile(key)
          /\ UNCHANGED <<rows, used>>
    /\ UNCHANGED <<stream, req, publisher>>

(* A later write takes effect and reports an error: the handler goes on as *)
(* after any other.  (Where it drops the error that makes no difference.)  *)
ReplyLost(r) ==
    LET q == req[r] IN
    /\ q.live /\ q.out = << >>
    /\ Spend("lost")
    /\ \/ /\ q.id \in Ids /\ Affects(q.id)
          /\ \/ /\ q.pc = "update.write"
                /\ \E name \in Names \cup {q.row.name} :
                     WriteWholeRow(q.id, [q.row EXCEPT !.name = name])
             \/ q.pc = "status.write" /\ WriteStatus(q.id, q.row.status)
             \/ q.pc = "file.write" /\ WriteFileURL(q.id, q.row.file)
             \/ q.pc = "parse.claim" /\ Claimable(q.id) /\ WriteStatus(q.id, "processing")
          /\ Respond(r)
          /\ UNCHANGED <<used, objects>>
       \/ /\ q.id \in Ids /\ Affects(q.id)
          /\ \/ q.pc = "parse.store" /\ WriteWholeRow(q.id, q.row)
             \/ q.pc = "parse.finish" /\ WriteStatus(q.id, "parsed")
          /\ Goto(r, "parse.fail")
          /\ UNCHANGED <<used, objects>>
       \/ /\ q.pc = "file.upload"
          /\ \E key \in Objects : StoreFile(key)
          /\ Respond(r)
          /\ UNCHANGED <<rows, used>>
       \/ /\ q.pc = "ingest.insert"
          /\ \E id \in Ids \ used, found \in Parse(TRUE) : Insert(id, IngestRow(q.row.file, found))
          /\ AfterFailedInsert(r)
          /\ UNCHANGED objects
    /\ UNCHANGED <<stream, publisher, started>>

(* The client disconnects, or the gateway's 30 seconds are over. *)
Cancel(r) ==
    /\ req[r].pc # "idle"
    /\ req[r].live
    /\ Spend("cancel")
    /\ req' = [req EXCEPT ![r].live = FALSE]
    /\ UNCHANGED <<rows, used, objects, stream, publisher, started>>

(* main pings Redis once: when that fails the publisher stays nil for good. *)
PublisherAtStart == IF "redis" \in Faults THEN BOOLEAN ELSE {TRUE}

(* The process dies and is started again; its handlers are gone. *)
Crash ==
    /\ Spend("crash")
    /\ req' = [r \in Slots |-> Idle]
    /\ publisher' \in PublisherAtStart
    /\ UNCHANGED <<rows, used, objects, stream, started>>

-----------------------------------------------------------------------------
Init ==
    /\ rows = [id \in Ids |-> NoRow]
    /\ used = {}
    /\ objects = {}
    /\ stream = << >>
    /\ req = [r \in Slots |-> Idle]
    /\ publisher \in PublisherAtStart
    /\ started = 0
    /\ faults = 0

(* A client's request arrives and makes its first call. *)
Arrive(r) ==
    \/ Create(r) \/ Delete(r) \/ UpdateRead(r) \/ StatusRead(r)
    \/ FileRead(r) \/ ParseRead(r) \/ IngestUpload(r)

(* A running handler makes its next call. *)
Step(r) ==
    \/ UpdateWrite(r) \/ Refetch(r) \/ StatusWrite(r) \/ StatusRefetch(r)
    \/ FileUpload(r) \/ FileWrite(r)
    \/ ParseClaim(r) \/ ParseRun(r) \/ ParseStore(r) \/ ParseFinish(r) \/ ParseFail(r)
    \/ IngestInsert(r) \/ IngestCleanup(r)
    \/ Publish(r)

Next ==
    \/ \E r \in Slots : Arrive(r) \/ Step(r) \/ ArrivalLost(r) \/ ReplyLost(r) \/ Cancel(r)
    \/ Crash

Spec == Init /\ [][Next]_vars

(* Every call of a running handler returns: the LLM client has a timeout   *)
(* of 60 seconds and the request's context ends the others.                *)
FairSpec == Spec /\ \A r \in Slots : WF_vars(Step(r))

-----------------------------------------------------------------------------
(* Properties *)

(* Every variable has its type and the workload stays within its bounds;   *)
(* in particular no status outside the table reaches the database.         *)
TypeOK ==
    /\ rows \in [Ids -> Row]
    /\ used \subseteq Ids
    /\ objects \subseteq Objects
    /\ stream \in Seq(Event)
    /\ req \in [Slots -> Request]
    /\ publisher \in BOOLEAN
    /\ started \in 0..MaxRequests
    /\ faults \in 0..MaxFaults

(* The file of a resume is never a dangling reference to the bucket, even  *)
(* though stale rows are written back with the file_url they were read     *)
(* with: nothing but the cleanup of UploadAndParse deletes an object.      *)
RowFileStored ==
    \A id \in Ids : rows[id].file \in Objects => rows[id].file \in objects

(* Once a deletion is decided to be announced, the resume stays deleted,   *)
(* whatever write of a row read before is still under way.                 *)
DeletedIsFinal ==
    \A id \in Ids :
        \/ ~Exists(id)
        \/ /\ \A i \in DOMAIN stream : stream[i] # Deleted(id)
           /\ \A r \in Slots : \A i \in DOMAIN req[r].out : req[r].out[i] # Deleted(id)

(* Between the claim and its last write of the status. *)
Parsing(r) == req[r].pc \in {"parse.run", "parse.store", "parse.finish", "parse.fail"}

(* The claim is exclusive: a resume is parsed by one request at a time.    *)
(* This is what the comment on UpdateStatusIf in ParseResume promises.     *)
ExclusiveParse ==
    \A r1, r2 \in Slots :
        Parsing(r1) /\ Parsing(r2) /\ req[r1].id = req[r2].id => r1 = r2

(* Requests one after the other move the status along the table, except    *)
(* that ParseResume also takes a failed resume back to processing.         *)
Moves(from, to) ==
    from = to \/ <<from, to>> \in validStatusTransitions \cup {<<"failed", "processing">>}

SequentialMoves ==
    [][\A id \in Ids : Exists(id) /\ Exists(id)' => Moves(rows[id].status, rows'[id].status)]_rows

(* Requests one after the other: a parse never replaces a name somebody    *)
(* entered, only an Update does.                                           *)
ParseKeepsNames ==
    [][\A id \in Ids :
         Exists(id) /\ Exists(id)' /\ rows[id].name # NoName /\ rows'[id].name # rows[id].name
             => \E r \in Slots : req[r].pc = "update.write"]_rows

(* The last event about id that carries a status carries this one. *)
LastAnnounced(id, status) ==
    \E i \in DOMAIN stream :
        /\ stream[i].id = id
        /\ stream[i].action # "parsed"
        /\ stream[i].new = status
        /\ \A j \in DOMAIN stream :
              j > i /\ stream[j].id = id => stream[j].action = "parsed"

(* Requests one after the other: whenever none is running, the stream      *)
(* alone tells which resumes exist and with which status.                  *)
LogDescribesTable ==
    (\A r \in Slots : req[r] = Idle) =>
        \A id \in used : LastAnnounced(id, rows[id].status)

(* The objects nobody can reach: in no row and in no handler's hands. *)
Orphans ==
    objects \ ({rows[id].file : id \in Ids} \cup {req[r].row.file : r \in Slots})

(* An upload that fails to become a resume is undone.  While no file is    *)
(* replaced, no resume deleted and the process lives, an object gets out   *)
(* of reach only where the upload itself reports an error or the call that *)
(* removes it fails, not where the INSERT fails or the client goes away.   *)
OrphansByFailure ==
    [][\A key \in Orphans' \ Orphans :
         \/ key \notin objects /\ faults' > faults
         \/ \E r \in Slots :
              /\ req[r].pc = "ingest.cleanup" /\ req[r].row.file = key
              /\ ~req[r].live \/ faults' > faults]_vars

(* A request is parsing the resume it has claimed. *)
Held(id) == \E r \in Slots : Parsing(r) /\ req[r].id = id

(* ParseFail has decided to announce "failed", but did not get it into the *)
(* row: the one way in which a handler may leave a claim behind.           *)
ReleaseUnwritten(id) ==
    /\ rows[id].status = "processing" /\ ~Held(id)
    /\ faults > 0
    /\ \E r \in Slots : /\ req[r].pc = "done" /\ req[r].out # << >>
                        /\ Head(req[r].out) = StatusChanged(id, "processing", "failed")

(* A resume that is being parsed leaves processing, whatever calls fail on *)
(* the way and when its client goes away, unless the very write of         *)
(* "failed" does not reach the row.                                        *)
ClaimReleased ==
    \A id \in Ids : Held(id) ~> (rows[id].status # "processing" \/ ReleaseUnwritten(id))

=============================================================================
