------------------------ MODULE ResumeServiceProofs ------------------------
(***************************************************************************)
(* What holds of resume-service for every number of requests in flight,    *)
(* resumes, files and faults.                                              *)
(***************************************************************************)
EXTENDS ResumeService, TLAPS

(* A handler that has a resume to work on works on a real one. *)
HasId ==
    \A r \in Slots :
        req[r].pc \notin {"idle", "ingest.insert", "ingest.cleanup"} => req[r].id \in Ids

(* The inductive invariant behind TypeOK. *)
TInv == TypeOK /\ HasId

-----------------------------------------------------------------------------
(* The constructors build values of their types. *)

LEMMA EventTypes ==
    ASSUME NEW id \in Ids, NEW row \in Row, NEW old \in RowStatuses, NEW new \in RowStatuses
    PROVE  /\ Created(id, row) \in Event
           /\ Updated(id, row) \in Event
           /\ Deleted(id) \in Event
           /\ Parsed(id) \in Event
           /\ StatusChanged(id, old, new) \in Event
BY DEF Created, Updated, Deleted, Parsed, StatusChanged, buildResumeEventPayload, Event,
       Actions, NoRow, Row, RowStatuses

LEMMA EventSequences ==
    ASSUME NEW a \in Event, NEW b \in Event, NEW c \in Event
    PROVE  /\ << >> \in Seq(Event) /\ <<a>> \in Seq(Event) /\ <<a, b>> \in Seq(Event)
           /\ <<a, b>> \o <<c>> \in Seq(Event) /\ <<a, b>> \o << >> \in Seq(Event)
OBVIOUS

LEMMA NoRowType == NoRow \in Row
BY DEF NoRow, Row, RowStatuses

LEMMA HandlerType ==
    ASSUME NEW pc \in Pcs, NEW id \in Ids \cup {NoId}, NEW row \in Row, NEW old \in RowStatuses,
           NEW out \in Seq(Event)
    PROVE  Handler(pc, id, row, old, out) \in Request
BY DEF Handler, Request

LEMMA ParseTypes ==
    ASSUME NEW live \in BOOLEAN, NEW found \in Parse(live)
    PROVE  found.ok \in BOOLEAN /\ found.name \in Names \cup {NoName} /\ found.data \in BOOLEAN
<1>1. found = ParseError \/ found = RawText \/ found \in ParsedResume
  BY DEF Parse
<1>2. CASE found = ParseError
  <2>1. found.ok = FALSE
    BY <1>2 DEF ParseError
  <2>2. found.name = NoName
    BY <1>2 DEF ParseError
  <2>3. found.data = FALSE
    BY <1>2 DEF ParseError
  <2> QED BY <2>1, <2>2, <2>3
<1>4. CASE found = RawText
  <2>1. found.ok = TRUE
    BY <1>4 DEF RawText
  <2>2. found.name = NoName
    BY <1>4 DEF RawText
  <2>3. found.data = FALSE
    BY <1>4 DEF RawText
  <2> QED BY <2>1, <2>2, <2>3
<1>3. CASE found \in ParsedResume
  BY <1>3 DEF ParsedResume
<1> QED BY <1>1, <1>2, <1>3, <1>4

LEMMA IdleType == Idle \in Request
<1>1. << >> \in Seq(Event) /\ "absent" \in RowStatuses /\ "idle" \in Pcs
  BY DEF RowStatuses, Pcs
<1> QED BY <1>1, HandlerType, NoRowType DEF Idle

(* A step that starts, moves or ends the handler of r. *)
LEMMA ReqStep ==
    ASSUME NEW r \in Slots, NEW h \in Request, req \in [Slots -> Request], HasId,
           req' = [req EXCEPT ![r] = h],
           h.pc \notin {"idle", "ingest.insert", "ingest.cleanup"} => h.id \in Ids
    PROVE  req' \in [Slots -> Request] /\ HasId'
BY DEF HasId

LEMMA GotoStep ==
    ASSUME NEW r \in Slots, NEW pc \in Pcs, req \in [Slots -> Request], HasId, Goto(r, pc),
           pc \notin {"idle", "ingest.insert", "ingest.cleanup"} => req[r].id \in Ids
    PROVE  req' \in [Slots -> Request] /\ HasId'
<1> DEFINE h == [req[r] EXCEPT !.pc = pc]
<1>1. h \in Request /\ h.pc = pc /\ h.id = req[r].id /\ req' = [req EXCEPT ![r] = h]
  BY DEF Goto, Request
<1> QED BY <1>1, ReqStep

LEMMA RespondStep ==
    ASSUME NEW r \in Slots, req \in [Slots -> Request], HasId, Respond(r)
    PROVE  req' \in [Slots -> Request] /\ HasId'
<1>1. Idle.pc = "idle"
  BY DEF Idle, Handler
<1> QED BY <1>1, IdleType, ReqStep DEF Respond

LEMMA PublishStep ==
    ASSUME NEW r \in Slots, NEW out \in Seq(Event), req \in [Slots -> Request], HasId,
           ThenPublish(r, out), req[r].id \in Ids
    PROVE  req' \in [Slots -> Request] /\ HasId'
<1> DEFINE h == [req[r] EXCEPT !.pc = "done", !.out = out]
<1>1. h \in Request /\ h.pc = "done" /\ h.id = req[r].id /\ req' = [req EXCEPT ![r] = h]
  BY DEF ThenPublish, Request, Pcs
<1> QED BY <1>1, ReqStep

LEMMA FaultBound ==
    ASSUME BoundAssumption, TypeOK, NEW kind, Spend(kind) \/ UNCHANGED faults
    PROVE  faults' \in 0..MaxFaults
BY DEF BoundAssumption, TypeOK, Spend

LEMMA SuccessFault ==
    ASSUME BoundAssumption, TypeOK, NEW r \in Slots, Hits(r) \/ Misses(r) \/ Succeeds(r) \/ Fails(r)
    PROVE  faults' \in 0..MaxFaults
BY DEF BoundAssumption, TypeOK, Hits, Misses, Succeeds, Fails, Spend

LEMMA AcceptBound ==
    ASSUME BoundAssumption, TypeOK, NEW r \in Slots, NEW op, Accept(r, op)
    PROVE  started' \in 0..MaxRequests
BY DEF BoundAssumption, TypeOK, Accept

-----------------------------------------------------------------------------
(* The inductive invariant of the types, action by action. *)

LEMMA InitTInv == BoundAssumption /\ Init => TInv
<1> SUFFICES ASSUME BoundAssumption, Init PROVE TInv
  OBVIOUS
<1>1. 0 \in 0..MaxRequests /\ 0 \in 0..MaxFaults
  BY DEF BoundAssumption
<1>2. publisher \in BOOLEAN
  BY DEF Init, PublisherAtStart
<1>3. stream \in Seq(Event)
  BY DEF Init
<1>4. TypeOK
  BY <1>1, <1>2, <1>3, IdleType, NoRowType DEF Init, TypeOK
<1>5. HasId
  BY DEF Init, HasId, Idle, Handler
<1> QED BY <1>4, <1>5 DEF TInv

LEMMA ArriveTInv ==
    ASSUME SentinelAssumption, BoundAssumption, TInv, NEW r \in Slots, Arrive(r)
    PROVE  TInv'
<1> USE DEF TInv
<1>0. "absent" \in RowStatuses /\ << >> \in Seq(Event)
  BY DEF RowStatuses
<1>1. CASE Create(r)
  <2>1. PICK id \in Ids \ used, name \in Names,
             file \in {NoFile, Foreign} \cup {rows[i].file : i \in Ids} :
          LET row == [status |-> "pending", name |-> name, file |-> file, parsed |-> FALSE]
          IN  /\ Insert(id, row)
              /\ req' = [req EXCEPT ![r] = Handler("done", id, row, "absent", <<Created(id, row)>>)]
    BY <1>1 DEF Create
  <2> DEFINE row == [status |-> "pending", name |-> name, file |-> file, parsed |-> FALSE]
  <2>2. row \in Row
    BY DEF Row, RowStatuses, Statuses, TypeOK
  <2>3. Created(id, row) \in Event
    BY <1>0, <2>2, EventTypes
  <2>4. Handler("done", id, row, "absent", <<Created(id, row)>>) \in Request
    BY <1>0, <2>2, <2>3, EventSequences, HandlerType DEF Pcs
  <2>5. req' \in [Slots -> Request] /\ HasId'
    BY <2>1, <2>4, ReqStep DEF Handler, TypeOK
  <2>6. rows' \in [Ids -> Row] /\ used' \subseteq Ids
    BY <2>1, <2>2 DEF Insert, TypeOK
  <2> QED BY <1>1, <2>5, <2>6, AcceptBound DEF Create, TypeOK
<1>2. CASE Delete(r)
  <2>1. PICK id \in Ids :
          DeleteRow(id) /\ req' = [req EXCEPT ![r] = Handler("done", id, NoRow, "absent", <<Deleted(id)>>)]
    BY <1>2 DEF Delete
  <2>2. Handler("done", id, NoRow, "absent", <<Deleted(id)>>) \in Request
    BY <1>0, NoRowType, EventTypes, EventSequences, HandlerType DEF Pcs
  <2>3. req' \in [Slots -> Request] /\ HasId'
    BY <2>1, <2>2, ReqStep DEF Handler, TypeOK
  <2> QED BY <1>2, <2>1, <2>3, AcceptBound, NoRowType DEF Delete, DeleteRow, TypeOK
<1>3. ASSUME NEW pc \in {"update.write", "file.upload", "parse.claim", "status.write"},
             NEW id \in Ids, NEW row \in Row, NEW old \in RowStatuses, NEW op, Accept(r, op),
             req' = [req EXCEPT ![r] = Handler(pc, id, row, old, << >>)],
             UNCHANGED <<rows, used, objects, stream, publisher, faults>>
      PROVE  TInv'
  <2>1. Handler(pc, id, row, old, << >>) \in Request
    BY <1>0, HandlerType DEF Pcs
  <2>2. req' \in [Slots -> Request] /\ HasId'
    BY <1>3, <2>1, ReqStep DEF Handler, TypeOK
  <2> QED BY <1>3, <2>2, AcceptBound DEF TypeOK
<1>4. \A id \in Ids : rows[id] \in Row /\ rows[id].status \in RowStatuses
  BY DEF TypeOK, Row
<1>5. CASE UpdateRead(r)
  BY <1>0, <1>3, <1>4, <1>5 DEF UpdateRead
<1>6. CASE StatusRead(r)
  <2>1. PICK id \in Ids, to \in Statuses \cup {"unknown"} :
          /\ CanTransitionTo(rows[id].status, to)
          /\ req' = [req EXCEPT ![r] = Handler("status.write", id, [rows[id] EXCEPT !.status = to],
                                               rows[id].status, << >>)]
    BY <1>6 DEF StatusRead
  <2>2. to \in RowStatuses
    BY <2>1 DEF CanTransitionTo, validStatusTransitions, RowStatuses, Statuses
  <2>3. [rows[id] EXCEPT !.status = to] \in Row
    BY <1>4, <2>2 DEF Row
  <2> QED BY <1>3, <1>4, <1>6, <2>1, <2>3 DEF StatusRead
<1>7. CASE FileRead(r)
  BY <1>0, <1>3, <1>4, <1>7 DEF FileRead
<1>8. CASE ParseRead(r)
  BY <1>3, <1>4, <1>8 DEF ParseRead
<1>9. CASE IngestUpload(r)
  <2>1. PICK key \in Objects :
          /\ StoreFile(key)
          /\ req' = [req EXCEPT ![r] = Handler("ingest.insert", NoId, [NoRow EXCEPT !.file = key],
                                               "absent", << >>)]
    BY <1>9 DEF IngestUpload
  <2>2. [NoRow EXCEPT !.file = key] \in Row
    BY NoRowType DEF Row
  <2>3. Handler("ingest.insert", NoId, [NoRow EXCEPT !.file = key], "absent", << >>) \in Request
    BY <1>0, <2>2, HandlerType DEF Pcs
  <2>4. req' \in [Slots -> Request] /\ HasId'
    BY <2>1, <2>3, ReqStep DEF Handler, TypeOK
  <2> QED BY <1>9, <2>1, <2>4, AcceptBound DEF IngestUpload, StoreFile, TypeOK
<1> QED BY <1>1, <1>2, <1>5, <1>6, <1>7, <1>8, <1>9 DEF Arrive

LEMMA StepTInv ==
    ASSUME SentinelAssumption, BoundAssumption, TInv, NEW r \in Slots, Step(r)
    PROVE  TInv'
<1> USE DEF TInv
<1> DEFINE id == req[r].id
<1>0. "absent" \in RowStatuses /\ << >> \in Seq(Event) /\ Statuses \subseteq RowStatuses
  BY DEF RowStatuses
<1>1. /\ req[r] \in Request /\ req[r].row \in Row /\ req[r].old \in RowStatuses
      /\ req[r].out \in Seq(Event) /\ req \in [Slots -> Request] /\ rows \in [Ids -> Row]
      /\ req[r].row.status \in RowStatuses /\ req[r].row.file \in Objects \cup {NoFile, Foreign}
      /\ req[r].row.name \in Names \cup {NoName}
  BY DEF TypeOK, Request, Row
<1>2. req[r].pc \notin {"idle", "ingest.insert", "ingest.cleanup"} => id \in Ids
  BY DEF HasId
(* The statements keep the table typed. *)
<1>3. \A i \in Ids : rows[i] \in Row
  BY <1>1
<1>4. ASSUME NEW s \in RowStatuses, WriteStatus(id, s) \/ UNCHANGED rows
      PROVE  rows' \in [Ids -> Row]
  BY <1>1, <1>4 DEF WriteStatus, Row
<1>5. ASSUME NEW row \in Row, WriteWholeRow(id, row) \/ UNCHANGED rows
      PROVE  rows' \in [Ids -> Row]
  BY <1>1, <1>5 DEF WriteWholeRow
<1>6. ASSUME rows' \in [Ids -> Row], req' \in [Slots -> Request], HasId',
             faults' \in 0..MaxFaults, used' \subseteq Ids, objects' \subseteq Objects,
             stream' \in Seq(Event), UNCHANGED <<publisher, started>>
      PROVE  TInv'
  BY <1>6 DEF TypeOK
<1>7. CASE UpdateWrite(r)
  <2>1. ASSUME NEW name \in Names \cup {req[r].row.name}
        PROVE  [req[r].row EXCEPT !.name = name] \in Row
    BY <1>1 DEF Row
  <2>3. rows' \in [Ids -> Row]
    BY <1>1, <1>5, <1>7, <2>1 DEF UpdateWrite
  <2>2. req' \in [Slots -> Request] /\ HasId'
    BY <1>1, <1>2, <1>7, GotoStep, RespondStep DEF UpdateWrite, At, Pcs
  <2> QED BY <1>6, <1>7, <2>2, <2>3, SuccessFault DEF UpdateWrite, TypeOK
<1>8. CASE Refetch(r)
  <2>1. id \in Ids
    BY <1>2, <1>8 DEF Refetch, At
  <2>2. <<Updated(id, rows[id])>> \in Seq(Event)
    BY <1>0, <1>3, <2>1, EventTypes, EventSequences
  <2>3. req' \in [Slots -> Request] /\ HasId'
    BY <1>1, <1>8, <2>1, <2>2, PublishStep, RespondStep DEF Refetch
  <2> QED BY <1>6, <1>8, <2>3, SuccessFault DEF Refetch, TypeOK
<1>9. CASE StatusWrite(r)
  <2>1. rows' \in [Ids -> Row]
    BY <1>1, <1>4, <1>9 DEF StatusWrite
  <2>2. req' \in [Slots -> Request] /\ HasId'
    BY <1>1, <1>2, <1>9, GotoStep, RespondStep DEF StatusWrite, At, Pcs
  <2> QED BY <1>6, <1>9, <2>1, <2>2, SuccessFault DEF StatusWrite, TypeOK
<1>10. CASE StatusRefetch(r)
  <2>1. id \in Ids
    BY <1>2, <1>10 DEF StatusRefetch, At
  <2>2. <<StatusChanged(id, req[r].old, req[r].row.status)>> \in Seq(Event)
    BY <1>1, <2>1, NoRowType, EventTypes, EventSequences
  <2>3. req' \in [Slots -> Request] /\ HasId'
    BY <1>1, <1>10, <2>1, <2>2, PublishStep, RespondStep DEF StatusRefetch
  <2> QED BY <1>6, <1>10, <2>3, SuccessFault DEF StatusRefetch, TypeOK
<1>11. CASE FileUpload(r)
  <2>1. CASE \E key \in Objects :
               /\ StoreFile(key)
               /\ req' = [req EXCEPT ![r].pc = "file.write", ![r].row.file = key]
    <3>1. PICK key \in Objects :
            /\ StoreFile(key)
            /\ req' = [req EXCEPT ![r].pc = "file.write", ![r].row.file = key]
      BY <2>1
    <3> DEFINE h == [req[r] EXCEPT !.pc = "file.write", !.row.file = key]
    <3>2. h \in Request /\ h.id = id /\ h.pc = "file.write" /\ req' = [req EXCEPT ![r] = h]
      BY <1>1, <3>1 DEF Request, Pcs, Row
    <3>3. req' \in [Slots -> Request] /\ HasId'
      BY <1>1, <1>2, <1>11, <3>2, ReqStep DEF FileUpload, At
    <3> QED BY <1>6, <1>11, <3>1, <3>3, SuccessFault DEF FileUpload, StoreFile, TypeOK
  <2>2. CASE Fails(r) /\ Respond(r) /\ UNCHANGED objects
    BY <1>1, <1>6, <1>11, <2>2, RespondStep, SuccessFault DEF FileUpload, TypeOK
  <2> QED BY <1>11, <2>1, <2>2 DEF FileUpload
<1>12. CASE FileWrite(r)
  <2>1. rows' \in [Ids -> Row]
    BY <1>1, <1>12 DEF FileWrite, WriteFileURL, Row
  <2>2. req' \in [Slots -> Request] /\ HasId'
    BY <1>1, <1>2, <1>12, GotoStep, RespondStep DEF FileWrite, At, Pcs
  <2> QED BY <1>6, <1>12, <2>1, <2>2, SuccessFault DEF FileWrite, TypeOK
<1>13. CASE ParseClaim(r)
  <2>1. id \in Ids
    BY <1>2, <1>13 DEF ParseClaim, At
  <2>2. "processing" \in RowStatuses
    BY DEF RowStatuses, Statuses
  <2>3. rows' \in [Ids -> Row]
    BY <1>1, <1>4, <1>13, <2>2 DEF ParseClaim
  <2>4. <<StatusChanged(id, req[r].old, "processing")>> \in Seq(Event)
    BY <1>1, <2>1, <2>2, NoRowType, EventTypes, EventSequences
  <2> DEFINE h == [req[r] EXCEPT !.pc = "parse.run", !.row = LocalClaim(req[r].row),
                                 !.out = <<StatusChanged(id, req[r].old, "processing")>>]
  <2>5. h \in Request /\ h.id = id
    BY <1>1, <2>2, <2>4 DEF Request, Pcs, LocalClaim, Row
  <2>6. req' = [req EXCEPT ![r] = h] \/ Respond(r)
    BY <1>1, <1>13 DEF ParseClaim, Request
  <2>7. req' \in [Slots -> Request] /\ HasId'
    BY <1>1, <2>1, <2>5, <2>6, ReqStep, RespondStep
  <2> QED BY <1>6, <1>13, <2>3, <2>7, SuccessFault DEF ParseClaim, TypeOK
<1>14. CASE ParseRun(r)
  <2>1. id \in Ids
    BY <1>2, <1>14 DEF ParseRun, At
  <2>2. ASSUME NEW pc \in {"parse.finish", "parse.fail"}, Goto(r, pc)
        PROVE  req' \in [Slots -> Request] /\ HasId'
    BY <1>1, <2>1, <2>2, GotoStep DEF Pcs
  <2>3. ASSUME NEW found \in Parse(req[r].live),
               req' = [req EXCEPT ![r].pc = "parse.store",
                                  ![r].row.name = FillName(req[r].row.name, found.name),
                                  ![r].row.parsed = TRUE]
        PROVE  req' \in [Slots -> Request] /\ HasId'
    <3> DEFINE name == FillName(req[r].row.name, found.name)
               h == [req[r] EXCEPT !.pc = "parse.store", !.row.name = name, !.row.parsed = TRUE]
    <3>1. name \in Names \cup {NoName}
      BY <1>1, <2>3, ParseTypes DEF FillName, Request
    <3>2. h \in Request /\ h.id = id /\ req' = [req EXCEPT ![r] = h]
      BY <1>1, <2>3, <3>1 DEF Request, Pcs, Row
    <3> QED BY <1>1, <2>1, <3>2, ReqStep
  <2>4. req' \in [Slots -> Request] /\ HasId'
    BY <1>14, <2>2, <2>3 DEF ParseRun
  <2> QED BY <1>6, <1>14, <2>4 DEF ParseRun, TypeOK
<1>15. CASE ParseStore(r)
  <2>1. rows' \in [Ids -> Row]
    BY <1>1, <1>5, <1>15 DEF ParseStore
  <2>2. req' \in [Slots -> Request] /\ HasId'
    BY <1>1, <1>2, <1>15, GotoStep DEF ParseStore, At, Pcs
  <2> QED BY <1>6, <1>15, <2>1, <2>2, SuccessFault DEF ParseStore, TypeOK
<1>16. CASE ParseFinish(r)
  <2>1. id \in Ids
    BY <1>2, <1>16 DEF ParseFinish, At
  <2>2. "processing" \in RowStatuses /\ "parsed" \in RowStatuses
    BY DEF RowStatuses, Statuses
  <2>3. <<StatusChanged(id, "processing", "parsed"), Parsed(id)>> \in Seq(Event)
    BY <2>1, <2>2, NoRowType, EventTypes, EventSequences
  <2>4. rows' \in [Ids -> Row]
    BY <1>4, <1>16, <2>2 DEF ParseFinish
  <2>5. req' \in [Slots -> Request] /\ HasId'
    BY <1>1, <1>16, <2>1, <2>3, GotoStep, PublishStep DEF ParseFinish, Pcs
  <2> QED BY <1>6, <1>16, <2>4, <2>5, SuccessFault DEF ParseFinish, TypeOK
<1>17. CASE ParseFail(r)
  <2>1. id \in Ids
    BY <1>2, <1>17 DEF ParseFail, At
  <2>2. "processing" \in RowStatuses /\ "failed" \in RowStatuses
    BY DEF RowStatuses, Statuses
  <2>3. <<StatusChanged(id, "processing", "failed")>> \in Seq(Event)
    BY <2>1, <2>2, NoRowType, EventTypes, EventSequences
  <2>4. rows' \in [Ids -> Row]
    BY <1>4, <1>17, <2>2 DEF ParseFail
  <2>5. req' \in [Slots -> Request] /\ HasId'
    BY <1>1, <1>17, <2>1, <2>3, PublishStep DEF ParseFail
  <2> QED BY <1>6, <1>17, <2>4, <2>5, SuccessFault DEF ParseFail, TypeOK
<1>18. CASE IngestInsert(r)
  <2>1. ASSUME NEW i \in Ids \ used, NEW found \in Parse(TRUE),
               Insert(i, IngestRow(req[r].row.file, found)),
               ThenAnnounce(r, i, IngestRow(req[r].row.file, found))
        PROVE  rows' \in [Ids -> Row] /\ used' \subseteq Ids
               /\ req' \in [Slots -> Request] /\ HasId'
    <3> DEFINE row == IngestRow(req[r].row.file, found)
    <3>1. row \in Row /\ row.status \in {"parsed", "failed"}
      BY <1>1, <2>1, ParseTypes DEF IngestRow, Row, RowStatuses, Statuses
    <3>2. "pending" \in RowStatuses /\ row.status \in RowStatuses
      BY <3>1 DEF RowStatuses, Statuses
    <3>3. /\ Created(i, row) \in Event /\ Parsed(i) \in Event
          /\ StatusChanged(i, "pending", row.status) \in Event
      BY <3>1, <3>2, EventTypes
    <3> DEFINE out == <<Created(i, row), StatusChanged(i, "pending", row.status)>>
                      \o IF row.status = "parsed" THEN <<Parsed(i)>> ELSE << >>
    <3>4. out \in Seq(Event)
      BY <3>3, EventSequences
    <3>5. Handler("done", i, row, "absent", out) \in Request
      BY <1>0, <3>1, <3>4, HandlerType DEF Pcs
    <3>6. Handler("done", i, row, "absent", out).id = i
      BY DEF Handler
    <3>7. req' \in [Slots -> Request] /\ HasId'
      BY <1>1, <2>1, <3>5, <3>6, ReqStep DEF ThenAnnounce
    <3>8. rows' \in [Ids -> Row] /\ used' \subseteq Ids
      BY <1>1, <2>1, <3>1 DEF Insert, TypeOK
    <3> QED BY <3>7, <3>8
  <2>2. ASSUME AfterFailedInsert(r), UNCHANGED <<rows, used>>
        PROVE  rows' \in [Ids -> Row] /\ used' \subseteq Ids
               /\ req' \in [Slots -> Request] /\ HasId'
    BY <1>1, <2>2, GotoStep DEF AfterFailedInsert, Pcs, TypeOK
  <2>3. rows' \in [Ids -> Row] /\ used' \subseteq Ids /\ req' \in [Slots -> Request] /\ HasId'
    <3>1. \/ \E i \in Ids \ used, found \in Parse(TRUE) :
                /\ Insert(i, IngestRow(req[r].row.file, found))
                /\ ThenAnnounce(r, i, IngestRow(req[r].row.file, found))
          \/ Fails(r) /\ AfterFailedInsert(r) /\ UNCHANGED <<rows, used>>
      BY <1>18 DEF IngestInsert
    <3> QED BY <2>1, <2>2, <3>1
  <2> QED BY <1>6, <1>18, <2>3, SuccessFault DEF IngestInsert, TypeOK
<1>19. CASE IngestCleanup(r)
  <2>1. req' \in [Slots -> Request] /\ HasId'
    BY <1>1, <1>19, RespondStep DEF IngestCleanup
  <2> QED BY <1>6, <1>19, <2>1, SuccessFault DEF IngestCleanup, DeleteFile, TypeOK
<1>20. CASE Publish(r)
  <2>1. Head(req[r].out) \in Event /\ Tail(req[r].out) \in Seq(Event)
    BY <1>1, <1>20 DEF Publish
  <2>2. stream' \in Seq(Event)
    <3>1. <<Head(req[r].out), Head(req[r].out)>> \in Seq(Event)
      BY <2>1
    <3>2. stream \o <<Head(req[r].out), Head(req[r].out)>> \in Seq(Event)
      BY <3>1 DEF TypeOK
    <3>3. Append(stream, Head(req[r].out)) \in Seq(Event)
      BY <2>1 DEF TypeOK
    <3> QED BY <1>20, <3>2, <3>3 DEF Publish, TypeOK
  <2> DEFINE h == [req[r] EXCEPT !.out = Tail(req[r].out)]
  <2>3. h \in Request /\ h.id = id /\ h.pc = req[r].pc
    BY <1>1, <2>1 DEF Request
  <2>4. Idle.pc = "idle"
    BY DEF Idle, Handler
  <2>5. req' \in [Slots -> Request] /\ HasId'
    BY <1>1, <1>2, <1>20, <2>3, <2>4, IdleType, ReqStep DEF Publish
  <2>6. faults' \in 0..MaxFaults
    BY <1>20, SuccessFault, FaultBound DEF Publish
  <2> QED BY <1>6, <1>20, <2>2, <2>5, <2>6 DEF Publish, TypeOK
<1> QED BY <1>7, <1>8, <1>9, <1>10, <1>11, <1>12, <1>13, <1>14, <1>15, <1>16, <1>17, <1>18, <1>19,
           <1>20 DEF Step

LEMMA ArrivalLostTInv ==
    ASSUME SentinelAssumption, BoundAssumption, TInv, NEW r \in Slots, ArrivalLost(r)
    PROVE  TInv'
<1> USE DEF TInv
<1>1. started' \in 0..MaxRequests /\ faults' \in 0..MaxFaults
  BY AcceptBound, FaultBound DEF ArrivalLost
<1>2. UNCHANGED <<stream, req, publisher>>
  BY DEF ArrivalLost
<1>3. ASSUME rows' \in [Ids -> Row], used' \subseteq Ids, objects' \subseteq Objects
      PROVE  TInv'
  BY <1>1, <1>2, <1>3 DEF TypeOK, HasId
<1>4. ASSUME NEW id \in Ids, NEW name \in Names, NEW i \in Ids,
             NEW file \in {NoFile, Foreign, rows[i].file},
             Insert(id, [status |-> "pending", name |-> name, file |-> file, parsed |-> FALSE])
      PROVE  rows' \in [Ids -> Row] /\ used' \subseteq Ids
  <2>1. [status |-> "pending", name |-> name, file |-> file, parsed |-> FALSE] \in Row
    BY DEF Row, RowStatuses, Statuses, TypeOK
  <2> QED BY <1>4, <2>1 DEF Insert, TypeOK
<1>5. CASE /\ \E id \in Ids \ used, name \in Names,
                file \in {NoFile, Foreign} \cup {rows[i].file : i \in Ids} :
               Insert(id, [status |-> "pending", name |-> name, file |-> file, parsed |-> FALSE])
           /\ UNCHANGED objects
  <2>1. rows' \in [Ids -> Row] /\ used' \subseteq Ids
    BY <1>4, <1>5
  <2> QED BY <1>3, <1>5, <2>1 DEF TypeOK
<1>6. CASE (\E id \in Ids : DeleteRow(id)) /\ UNCHANGED <<used, objects>>
  BY <1>3, <1>6, NoRowType DEF DeleteRow, TypeOK
<1>7. CASE (\E key \in Objects : StoreFile(key)) /\ UNCHANGED <<rows, used>>
  BY <1>3, <1>7 DEF StoreFile, TypeOK
<1> QED BY <1>5, <1>6, <1>7 DEF ArrivalLost

(* What a lost reply leaves to the handler: an answer, or its error path.  *)
LEMMA LostGoto ==
    ASSUME NEW r \in Slots, ReplyLost(r)
    PROVE  \/ Respond(r)
           \/ req[r].pc \in {"parse.store", "parse.finish"} /\ Goto(r, "parse.fail")
           \/ req[r].pc = "ingest.insert" /\ Goto(r, "ingest.cleanup")
BY DEF ReplyLost, AfterFailedInsert

(* Every write whose reply is lost is one of the statements.               *)
LEMMA LostWrite ==
    ASSUME NEW r \in Slots, ReplyLost(r)
    PROVE  \/ /\ req[r].id \in Ids /\ Exists(req[r].id)
              /\ \/ \E name \in Names \cup {req[r].row.name} :
                      WriteWholeRow(req[r].id, [req[r].row EXCEPT !.name = name])
                 \/ WriteStatus(req[r].id, req[r].row.status)
                 \/ WriteFileURL(req[r].id, req[r].row.file)
                 \/ WriteStatus(req[r].id, "processing")
                 \/ WriteWholeRow(req[r].id, req[r].row)
                 \/ WriteStatus(req[r].id, "parsed")
              /\ UNCHANGED <<used, objects>>
           \/ (\E key \in Objects : StoreFile(key)) /\ UNCHANGED <<rows, used>>
           \/ /\ \E id \in Ids \ used, found \in Parse(TRUE) :
                    Insert(id, IngestRow(req[r].row.file, found))
              /\ UNCHANGED objects
BY DEF ReplyLost, Affects

LEMMA ReplyLostTInv ==
    ASSUME SentinelAssumption, BoundAssumption, TInv, NEW r \in Slots, ReplyLost(r)
    PROVE  TInv'
<1> USE DEF TInv
<1> DEFINE id == req[r].id
<1>1. /\ req[r] \in Request /\ req[r].row \in Row /\ req \in [Slots -> Request]
      /\ rows \in [Ids -> Row] /\ req[r].row.status \in RowStatuses
      /\ req[r].row.file \in Objects \cup {NoFile, Foreign}
      /\ req[r].row.name \in Names \cup {NoName}
  BY DEF TypeOK, Request, Row
<1>2. faults' \in 0..MaxFaults /\ UNCHANGED <<stream, publisher, started>>
  BY FaultBound DEF ReplyLost
<1>3. req' \in [Slots -> Request] /\ HasId'
  <2>1. req[r].pc \in {"parse.store", "parse.finish"} => id \in Ids
    BY DEF HasId
  <2> QED BY <1>1, <2>1, LostGoto, GotoStep, RespondStep DEF Pcs
<1>4. ASSUME rows' \in [Ids -> Row], used' \subseteq Ids, objects' \subseteq Objects
      PROVE  TInv'
  BY <1>2, <1>3, <1>4 DEF TypeOK
<1>5. ASSUME NEW s \in RowStatuses, WriteStatus(id, s) PROVE rows' \in [Ids -> Row]
  BY <1>1, <1>5 DEF WriteStatus, Row
<1>6. ASSUME NEW row \in Row, WriteWholeRow(id, row) PROVE rows' \in [Ids -> Row]
  BY <1>1, <1>6 DEF WriteWholeRow
<1>7. ASSUME NEW name \in Names \cup {req[r].row.name}
      PROVE  [req[r].row EXCEPT !.name = name] \in Row
  BY <1>1 DEF Row
<1>8. ASSUME WriteFileURL(id, req[r].row.file) PROVE rows' \in [Ids -> Row]
  BY <1>1, <1>8 DEF WriteFileURL, Row
<1>9. "processing" \in RowStatuses /\ "parsed" \in RowStatuses
  BY DEF RowStatuses, Statuses
<1>10. CASE (\E key \in Objects : StoreFile(key)) /\ UNCHANGED <<rows, used>>
  BY <1>4, <1>10 DEF StoreFile, TypeOK
<1>11. CASE /\ \E i \in Ids \ used, found \in Parse(TRUE) :
                  Insert(i, IngestRow(req[r].row.file, found))
            /\ UNCHANGED objects
  <2>1. PICK i \in Ids \ used, found \in Parse(TRUE) : Insert(i, IngestRow(req[r].row.file, found))
    BY <1>11
  <2>2. IngestRow(req[r].row.file, found) \in Row
    BY <1>1, ParseTypes DEF IngestRow, Row, RowStatuses, Statuses
  <2>3. rows' \in [Ids -> Row] /\ used' \subseteq Ids
    BY <1>1, <2>1, <2>2 DEF Insert, TypeOK
  <2> QED BY <1>4, <1>11, <2>3 DEF TypeOK
<1>12. CASE /\ \/ \E name \in Names \cup {req[r].row.name} :
                     WriteWholeRow(id, [req[r].row EXCEPT !.name = name])
                \/ WriteStatus(id, req[r].row.status)
                \/ WriteFileURL(id, req[r].row.file)
                \/ WriteStatus(id, "processing")
                \/ WriteWholeRow(id, req[r].row)
                \/ WriteStatus(id, "parsed")
             /\ UNCHANGED <<used, objects>>
  <2>1. rows' \in [Ids -> Row]
    BY <1>1, <1>5, <1>6, <1>7, <1>8, <1>9, <1>12
  <2> QED BY <1>4, <1>12, <2>1 DEF TypeOK
<1> QED BY <1>10, <1>11, <1>12, LostWrite

LEMMA NextTInv ==
    ASSUME SentinelAssumption, BoundAssumption, TInv, [Next]_vars
    PROVE  TInv'
<1>1. ASSUME NEW r \in Slots, Arrive(r) PROVE TInv'
  BY <1>1, ArriveTInv
<1>2. ASSUME NEW r \in Slots, Step(r) PROVE TInv'
  BY <1>2, StepTInv
<1>3. ASSUME NEW r \in Slots, Cancel(r) PROVE TInv'
  <2> DEFINE h == [req[r] EXCEPT !.live = FALSE]
  <2>1. h \in Request /\ h.id = req[r].id /\ h.pc = req[r].pc /\ req' = [req EXCEPT ![r] = h]
    BY <1>3 DEF Cancel, TInv, TypeOK, Request
  <2>2. req' \in [Slots -> Request] /\ HasId'
    BY <2>1, ReqStep DEF TInv, TypeOK, HasId
  <2> QED BY <1>3, <2>2, FaultBound DEF Cancel, TInv, TypeOK
<1>4. CASE Crash
  <2>1. Idle.pc = "idle" /\ publisher' \in BOOLEAN
    BY <1>4 DEF Idle, Handler, Crash, PublisherAtStart
  <2>2. req' \in [Slots -> Request] /\ HasId'
    BY <1>4, <2>1, IdleType DEF Crash, HasId
  <2> QED BY <1>4, <2>1, <2>2, FaultBound DEF Crash, TInv, TypeOK
<1>5. CASE UNCHANGED vars
  BY <1>5 DEF vars, TInv, TypeOK, HasId
<1>6. ASSUME NEW r \in Slots, ArrivalLost(r) PROVE TInv'
  BY <1>6, ArrivalLostTInv
<1>7. ASSUME NEW r \in Slots, ReplyLost(r) PROVE TInv'
  BY <1>7, ReplyLostTInv
<1> QED BY <1>1, <1>2, <1>3, <1>4, <1>5, <1>6, <1>7 DEF Next

(* However the requests interleave, whatever fails, and whichever statuses *)
(* clients ask for: only a known status reaches the table or the stream,   *)
(* and every handler that touches a resume has one.                        *)
THEOREM Types == Spec => []TInv
<1>1. Init => TInv
  BY InitTInv, BoundAssumption
<1>2. TInv /\ [Next]_vars => TInv'
  BY NextTInv, SentinelAssumption, BoundAssumption
<1> QED BY <1>1, <1>2, PTL DEF Spec

(* The type invariant of resume-service, for every size of its sets.       *)
THEOREM TypeCorrect == Spec => []TypeOK
<1>1. TInv => TypeOK
  BY DEF TInv
<1> QED BY <1>1, Types, PTL

=============================================================================
