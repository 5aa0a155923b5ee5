------------------------- MODULE ResumeServiceSafety -------------------------
(***************************************************************************)
(* Two promises of resume-service proved from the types: the files of the  *)
(* table exist, and a deletion is final.                                   *)
(***************************************************************************)
EXTENDS ResumeServiceProofs, SequenceTheorems

-----------------------------------------------------------------------------
(* What a step of r does to the handlers. *)

OthersKept(r) == \A s \in Slots : s # r => req'[s] = req[s]

LEMMA IdleFields ==
    /\ Idle.pc = "idle" /\ Idle.id = NoId /\ Idle.row = NoRow /\ Idle.out = << >>
    /\ NoRow.file = NoFile /\ NoRow.status = "absent"
BY DEF Idle, Handler, NoRow

LEMMA GotoFields ==
    ASSUME NEW r \in Slots, NEW pc, TInv, Goto(r, pc)
    PROVE  /\ OthersKept(r)
           /\ req'[r].pc = pc /\ req'[r].id = req[r].id
           /\ req'[r].row = req[r].row /\ req'[r].out = req[r].out
BY DEF Goto, OthersKept, TInv, TypeOK, Request

LEMMA RespondFields ==
    ASSUME NEW r \in Slots, TInv, Respond(r)
    PROVE  OthersKept(r) /\ req'[r] = Idle
BY DEF Respond, OthersKept, TInv, TypeOK

LEMMA PublishFields ==
    ASSUME NEW r \in Slots, NEW out, TInv, ThenPublish(r, out)
    PROVE  /\ OthersKept(r)
           /\ req'[r].pc = "done" /\ req'[r].id = req[r].id
           /\ req'[r].row = req[r].row /\ req'[r].out = out
BY DEF ThenPublish, OthersKept, TInv, TypeOK, Request

(* Steps that go on with a handler's row or end the handler. *)
HandlersKept ==
    \A s \in Slots :
        \/ req'[s] = Idle
        \/ req'[s].pc = req[s].pc /\ req'[s].id = req[s].id /\ req'[s].row = req[s].row

LEMMA KeepingSteps ==
    ASSUME TInv,
           (\E r \in Slots : Publish(r) \/ Cancel(r)) \/ Crash \/ UNCHANGED vars
    PROVE  HandlersKept /\ UNCHANGED <<rows, used, objects>>
<1>1. CASE \E r \in Slots : Publish(r)
  <2>1. PICK r \in Slots : Publish(r)
    BY <1>1
  <2> DEFINE h == [req[r] EXCEPT !.out = Tail(req[r].out)]
  <2>2. req' = [req EXCEPT ![r] = Idle] \/ req' = [req EXCEPT ![r] = h]
    BY <2>1 DEF Publish
  <2>4. h.pc = req[r].pc /\ h.id = req[r].id /\ h.row = req[r].row
    BY DEF TInv, TypeOK, Request
  <2>3. HandlersKept
    <3> HIDE DEF h
    <3> QED BY <2>2, <2>4 DEF HandlersKept, TInv, TypeOK
  <2> QED BY <2>1, <2>3 DEF Publish
<1>2. CASE \E r \in Slots : Cancel(r)
  BY <1>2 DEF Cancel, HandlersKept, TInv, TypeOK, Request
<1>3. CASE Crash
  BY <1>3 DEF Crash, HandlersKept
<1>4. CASE UNCHANGED vars
  BY <1>4 DEF vars, HandlersKept
<1> QED BY <1>1, <1>2, <1>3, <1>4

-----------------------------------------------------------------------------
(* The files. *)

IngestPcs == {"ingest.insert", "ingest.cleanup"}

(* A file named by a row, or by the row a handler read, is in the bucket.  *)
SnapshotsStored == \A r \in Slots : req[r].row.file \in Objects => req[r].row.file \in objects

(* The file UploadAndParse would clean up is known to that handler alone.  *)
IngestOwns ==
    \A r \in Slots : req[r].pc \in IngestPcs =>
        /\ req[r].row.file \in Objects
        /\ \A id \in Ids : rows[id].file # req[r].row.file
        /\ \A s \in Slots : s # r => req[s].row.file # req[r].row.file

FileInv == RowFileStored /\ SnapshotsStored /\ IngestOwns

(* A step of r that only copies file names, outside UploadAndParse.        *)
LEMMA FileCopies ==
    ASSUME SentinelAssumption, TInv, FileInv, NEW r \in Slots, OthersKept(r), objects' = objects,
           req[r].pc \notin IngestPcs, req'[r].pc \notin IngestPcs,
           \A id \in Ids : rows'[id].file \in {NoFile, Foreign, req[r].row.file}
                                               \cup {rows[i].file : i \in Ids},
           req'[r].row.file \in {NoFile, Foreign, req[r].row.file} \cup {rows[i].file : i \in Ids}
    PROVE  FileInv'
<1> USE DEF FileInv
<1>1. RowFileStored'
  BY DEF RowFileStored, SnapshotsStored, SentinelAssumption
<1>2. SnapshotsStored'
  BY DEF RowFileStored, SnapshotsStored, SentinelAssumption, OthersKept
<1>3. IngestOwns'
  BY DEF IngestOwns, SentinelAssumption, OthersKept
<1> QED BY <1>1, <1>2, <1>3

LEMMA FileKept ==
    ASSUME SentinelAssumption, TInv, FileInv, HandlersKept, UNCHANGED <<rows, objects>>
    PROVE  FileInv'
BY IdleFields DEF FileInv, RowFileStored, SnapshotsStored, IngestOwns, HandlersKept,
                  SentinelAssumption, IngestPcs

(* A step that uploads under a fresh key. *)
LEMMA FileFresh ==
    ASSUME SentinelAssumption, TInv, FileInv, NEW r \in Slots, NEW key \in Objects, StoreFile(key),
           OthersKept(r), rows' = rows, req'[r].row.file = key
    PROVE  FileInv'
BY DEF FileInv, RowFileStored, SnapshotsStored, IngestOwns, OthersKept, StoreFile

LEMMA FileArrive ==
    ASSUME SentinelAssumption, TInv, TInv', FileInv, NEW r \in Slots, Arrive(r)
    PROVE  FileInv'
<1>0. req[r].pc = "idle" /\ req[r].row = NoRow /\ NoRow.file = NoFile
  BY IdleFields DEF Arrive, Create, Delete, UpdateRead, StatusRead, FileRead, ParseRead,
                    IngestUpload, Accept
<1>1. CASE Create(r)
  <2>1. PICK id \in Ids \ used, name \in Names,
             file \in {NoFile, Foreign} \cup {rows[i].file : i \in Ids} :
          LET row == [status |-> "pending", name |-> name, file |-> file, parsed |-> FALSE]
          IN  /\ Insert(id, row)
              /\ req' = [req EXCEPT ![r] = Handler("done", id, row, "absent", <<Created(id, row)>>)]
    BY <1>1 DEF Create
  <2>2. OthersKept(r) /\ req'[r].pc = "done" /\ req'[r].row.file = file
    BY <2>1 DEF Handler, OthersKept, TInv, TypeOK
  <2>3. \A i \in Ids : rows'[i].file = file \/ rows'[i].file = rows[i].file
    BY <2>1 DEF Insert, TInv, TypeOK
  <2> QED BY <1>0, <1>1, <2>2, <2>3, FileCopies DEF Create, IngestPcs
<1>2. CASE Delete(r)
  <2>1. PICK id \in Ids :
          DeleteRow(id) /\ req' = [req EXCEPT ![r] = Handler("done", id, NoRow, "absent", <<Deleted(id)>>)]
    BY <1>2 DEF Delete
  <2>2. OthersKept(r) /\ req'[r].pc = "done" /\ req'[r].row.file = NoFile
    BY <1>0, <2>1 DEF Handler, OthersKept, TInv, TypeOK
  <2>3. \A i \in Ids : rows'[i].file = NoFile \/ rows'[i].file = rows[i].file
    BY <1>0, <2>1 DEF DeleteRow, TInv, TypeOK
  <2> QED BY <1>0, <1>2, <2>2, <2>3, FileCopies DEF Delete, IngestPcs
<1>3. ASSUME NEW pc, pc \notin IngestPcs, NEW id \in Ids, NEW row, row.file = rows[id].file, NEW old,
             req' = [req EXCEPT ![r] = Handler(pc, id, row, old, << >>)],
             UNCHANGED <<rows, objects>>
      PROVE  FileInv'
  <2>1. OthersKept(r) /\ req'[r].pc = pc /\ req'[r].row.file = rows[id].file
    BY <1>3 DEF Handler, OthersKept, TInv, TypeOK
  <2>2. req'[r].row.file \in {rows[i].file : i \in Ids}
    BY <2>1
  <2>3. req[r].pc \notin IngestPcs
    BY <1>0 DEF IngestPcs
  <2> QED BY <1>3, <2>1, <2>2, <2>3, FileCopies
<1>4. CASE UpdateRead(r)
  BY <1>3, <1>4 DEF UpdateRead, IngestPcs
<1>5. CASE StatusRead(r)
  <2>1. \A id \in Ids, to \in Statuses \cup {"unknown"} :
          [rows[id] EXCEPT !.status = to].file = rows[id].file
    BY DEF TInv, TypeOK, Row
  <2> QED BY <1>3, <1>5, <2>1 DEF StatusRead, IngestPcs
<1>6. CASE FileRead(r)
  BY <1>3, <1>6 DEF FileRead, IngestPcs
<1>7. CASE ParseRead(r)
  BY <1>3, <1>7 DEF ParseRead, IngestPcs
<1>8. CASE IngestUpload(r)
  <2>1. PICK key \in Objects :
          /\ StoreFile(key)
          /\ req' = [req EXCEPT ![r] = Handler("ingest.insert", NoId, [NoRow EXCEPT !.file = key],
                                               "absent", << >>)]
    BY <1>8 DEF IngestUpload
  <2>2. [NoRow EXCEPT !.file = key].file = key
    BY DEF NoRow
  <2>3. OthersKept(r) /\ req'[r].row.file = key
    BY <2>1, <2>2 DEF Handler, OthersKept, TInv, TypeOK
  <2> QED BY <1>8, <2>1, <2>3, FileFresh DEF IngestUpload
<1> QED BY <1>1, <1>2, <1>4, <1>5, <1>6, <1>7, <1>8 DEF Arrive

LEMMA FileStepInv ==
    ASSUME SentinelAssumption, TInv, TInv', FileInv, NEW r \in Slots, Step(r)
    PROVE  FileInv'
<1> DEFINE own == req[r].row.file
<1>0. NoRow.file = NoFile /\ Idle.row = NoRow /\ Idle.pc \notin IngestPcs
  BY IdleFields DEF IngestPcs
<1>1. \A id \in Ids : rows[id] \in Row
  BY DEF TInv, TypeOK
<1>2. ASSUME UNCHANGED <<rows, objects>>, OthersKept(r), req[r].pc \notin IngestPcs,
             req'[r] = Idle \/ (req'[r].row.file = own /\ req'[r].pc \notin IngestPcs)
      PROVE  FileInv'
  BY <1>0, <1>2, FileCopies
<1>3. ASSUME \A i \in Ids : rows'[i].file = rows[i].file \/ rows'[i].file = own,
             objects' = objects, OthersKept(r), req[r].pc \notin IngestPcs,
             req'[r] = Idle \/ (req'[r].row.file = own /\ req'[r].pc \notin IngestPcs)
      PROVE  FileInv'
  BY <1>0, <1>3, FileCopies
<1>4. ASSUME NEW id, NEW s, WriteStatus(id, s)
      PROVE  \A i \in Ids : rows'[i].file = rows[i].file
  BY <1>4, <1>1 DEF WriteStatus, TInv, TypeOK, Row
<1>5. CASE UpdateWrite(r)
  <2>1. req'[r] = Idle \/ (req'[r].row.file = own /\ req'[r].pc = "refetch")
    BY <1>5, GotoFields, RespondFields DEF UpdateWrite
  <2>2. OthersKept(r)
    BY <1>5, GotoFields, RespondFields DEF UpdateWrite
  <2>3. \A name : [req[r].row EXCEPT !.name = name].file = own
    BY DEF TInv, TypeOK, Request, Row
  <2>4. \A i \in Ids : rows'[i].file = rows[i].file \/ rows'[i].file = own
    <3>1. ASSUME NEW name, WriteWholeRow(req[r].id, [req[r].row EXCEPT !.name = name])
          PROVE  \A i \in Ids : rows'[i].file = rows[i].file \/ rows'[i].file = own
      <4> DEFINE new == [req[r].row EXCEPT !.name = name]
      <4>1. new.file = own
        BY <2>3
      <4>2. rows' = [rows EXCEPT ![req[r].id] = new]
        BY <3>1 DEF WriteWholeRow
      <4> HIDE DEF new
      <4> QED BY <4>1, <4>2 DEF TInv, TypeOK
    <3>2. (\E name : WriteWholeRow(req[r].id, [req[r].row EXCEPT !.name = name])) \/ UNCHANGED rows
      BY <1>5 DEF UpdateWrite
    <3> QED BY <3>1, <3>2
  <2>5. req[r].pc \notin IngestPcs /\ "refetch" \notin IngestPcs /\ objects' = objects
    BY <1>5 DEF UpdateWrite, At, IngestPcs
  <2> QED BY <1>3, <2>1, <2>2, <2>4, <2>5
<1>6. CASE Refetch(r)
  BY <1>2, <1>6, PublishFields, RespondFields DEF Refetch, At, IngestPcs
<1>7. CASE StatusWrite(r)
  <2>1. \A i \in Ids : rows'[i].file = rows[i].file
    BY <1>4, <1>7 DEF StatusWrite
  <2> QED BY <1>3, <1>7, <2>1, GotoFields, RespondFields DEF StatusWrite, At, IngestPcs
<1>8. CASE StatusRefetch(r)
  BY <1>2, <1>8, PublishFields, RespondFields DEF StatusRefetch, At, IngestPcs
<1>9. CASE FileUpload(r)
  <2>1. ASSUME NEW key \in Objects, StoreFile(key),
               req' = [req EXCEPT ![r].pc = "file.write", ![r].row.file = key]
        PROVE  FileInv'
    <3>1. OthersKept(r) /\ req'[r].row.file = key
      BY <2>1 DEF OthersKept, TInv, TypeOK, Request, Row
    <3> QED BY <1>9, <2>1, <3>1, FileFresh DEF FileUpload
  <2>2. CASE Respond(r) /\ UNCHANGED objects
    BY <1>2, <1>9, <2>2, RespondFields DEF FileUpload, At, IngestPcs
  <2> QED BY <1>9, <2>1, <2>2 DEF FileUpload
<1>10. CASE FileWrite(r)
  <2>1. \A i \in Ids : rows'[i].file = rows[i].file \/ rows'[i].file = own
    BY <1>10 DEF FileWrite, WriteFileURL, TInv, TypeOK, Row
  <2> QED BY <1>3, <1>10, <2>1, GotoFields, RespondFields DEF FileWrite, At, IngestPcs
<1>11. CASE ParseClaim(r)
  <2>1. \A i \in Ids : rows'[i].file = rows[i].file
    BY <1>4, <1>11 DEF ParseClaim
  <2>2. OthersKept(r)
    BY <1>11, RespondFields DEF ParseClaim, OthersKept, TInv, TypeOK
  <2>3. req'[r] = Idle \/ (req'[r].row.file = own /\ req'[r].pc = "parse.run")
    <3>1. req[r].row \in Row /\ req[r] \in Request
      BY DEF TInv, TypeOK, Request
    <3>2. LocalClaim(req[r].row).file = own
      BY <3>1 DEF LocalClaim, Row
    <3> DEFINE h == [req[r] EXCEPT !.pc = "parse.run", !.row = LocalClaim(req[r].row),
                                   !.out = <<StatusChanged(req[r].id, req[r].old, "processing")>>]
    <3>3. h.pc = "parse.run" /\ h.row = LocalClaim(req[r].row)
      BY <3>1 DEF Request
    <3>4. req' = [req EXCEPT ![r] = h] \/ Respond(r)
      BY <1>11, <3>1 DEF ParseClaim, Request
    <3> HIDE DEF h
    <3> QED BY <3>2, <3>3, <3>4, RespondFields DEF TInv, TypeOK
  <2> QED BY <1>3, <1>11, <2>1, <2>2, <2>3 DEF ParseClaim, At, IngestPcs
<1>12. CASE ParseRun(r)
  <2>1. ASSUME NEW found, req' = [req EXCEPT ![r].pc = "parse.store",
                                      ![r].row.name = FillName(req[r].row.name, found.name),
                                      ![r].row.parsed = TRUE]
        PROVE  OthersKept(r) /\ req'[r].row.file = own /\ req'[r].pc = "parse.store"
    <3>1. req \in [Slots -> Request] /\ req[r].row \in Row
      BY DEF TInv, TypeOK, Request
    <3>2. OthersKept(r) /\ req'[r].pc = "parse.store"
      BY <2>1, <3>1 DEF OthersKept, Request
    <3>3. req'[r].row.file = own
      BY <2>1, <3>1 DEF Request, Row
    <3> QED BY <3>2, <3>3
  <2>2. OthersKept(r) /\ req'[r].row.file = own
        /\ req'[r].pc \in {"parse.store", "parse.finish", "parse.fail"}
    BY <1>12, <2>1, GotoFields DEF ParseRun
  <2> QED BY <1>2, <1>12, <2>2 DEF ParseRun, At, IngestPcs
<1>13. CASE ParseStore(r)
  <2>1. \A i \in Ids : rows'[i].file = rows[i].file \/ rows'[i].file = own
    BY <1>13 DEF ParseStore, WriteWholeRow, TInv, TypeOK, Row
  <2> QED BY <1>3, <1>13, <2>1, GotoFields DEF ParseStore, At, IngestPcs
<1>14. CASE ParseFinish(r)
  <2>1. \A i \in Ids : rows'[i].file = rows[i].file
    BY <1>4, <1>14 DEF ParseFinish
  <2> QED BY <1>3, <1>14, <2>1, GotoFields, PublishFields DEF ParseFinish, At, IngestPcs
<1>15. CASE ParseFail(r)
  <2>1. \A i \in Ids : rows'[i].file = rows[i].file
    BY <1>4, <1>15 DEF ParseFail
  <2> QED BY <1>3, <1>15, <2>1, PublishFields DEF ParseFail, At, IngestPcs
<1>16. CASE IngestInsert(r)
  <2>0. own \in Objects /\ own \in objects
    BY <1>16 DEF IngestInsert, At, FileInv, IngestOwns, SnapshotsStored, IngestPcs
  <2>1. ASSUME NEW i \in Ids \ used, NEW found,
               Insert(i, IngestRow(own, found)), ThenAnnounce(r, i, IngestRow(own, found))
        PROVE  FileInv'
    <3>1. IngestRow(own, found).file = own
      BY DEF IngestRow
    <3>2. OthersKept(r) /\ req'[r].pc = "done" /\ req'[r].row.file = own
      BY <2>1, <3>1 DEF ThenAnnounce, Handler, OthersKept, TInv, TypeOK
    <3>3. \A j \in Ids : rows'[j].file = rows[j].file \/ rows'[j].file = own
      BY <2>1, <3>1 DEF Insert, TInv, TypeOK
    <3>4. objects' = objects
      BY <1>16 DEF IngestInsert
    <3>5. RowFileStored' /\ SnapshotsStored'
      BY <2>0, <3>2, <3>3, <3>4 DEF FileInv, RowFileStored, SnapshotsStored, OthersKept
    <3>6. \A s \in Slots : req'[s].pc \in IngestPcs => s # r /\ req'[s] = req[s]
      BY <3>2 DEF OthersKept, IngestPcs
    <3>7. \A s \in Slots : s # r /\ req[s].pc \in IngestPcs => req[s].row.file # own
      BY DEF FileInv, IngestOwns
    <3>8. IngestOwns'
      BY <3>2, <3>3, <3>6, <3>7 DEF FileInv, IngestOwns, OthersKept
    <3> QED BY <3>5, <3>8 DEF FileInv
  <2>2. ASSUME AfterFailedInsert(r), UNCHANGED rows PROVE FileInv'
    <3>1. OthersKept(r) /\ req'[r].row = req[r].row /\ req[r].pc \in IngestPcs /\ objects' = objects
      BY <1>16, <2>2, GotoFields DEF AfterFailedInsert, IngestInsert, At, IngestPcs
    <3>2. \A s \in Slots : req'[s].row = req[s].row
                           /\ (req'[s].pc \in IngestPcs => req[s].pc \in IngestPcs)
      BY <3>1 DEF OthersKept
    <3> QED BY <2>2, <3>1, <3>2 DEF FileInv, RowFileStored, SnapshotsStored, IngestOwns
  <2> QED BY <1>16, <2>1, <2>2 DEF IngestInsert
<1>17. CASE IngestCleanup(r)
  <2>1. OthersKept(r) /\ req'[r] = Idle /\ rows' = rows
    BY <1>17, RespondFields DEF IngestCleanup
  <2>2. objects' = objects \ {own} \/ objects' = objects
    BY <1>17 DEF IngestCleanup, DeleteFile
  <2>3. /\ \A id \in Ids : rows[id].file # own
        /\ \A s \in Slots : s # r => req[s].row.file # own
    BY <1>17 DEF IngestCleanup, At, FileInv, IngestOwns, IngestPcs
  <2>4. RowFileStored'
    BY <2>1, <2>2, <2>3 DEF FileInv, RowFileStored
  <2>5. SnapshotsStored'
    BY <1>0, <2>1, <2>2, <2>3 DEF FileInv, SnapshotsStored, OthersKept, SentinelAssumption
  <2>6. IngestOwns'
    BY <1>0, <2>1 DEF FileInv, IngestOwns, OthersKept, SentinelAssumption
  <2> QED BY <2>4, <2>5, <2>6 DEF FileInv
<1>18. CASE Publish(r)
  BY <1>18, KeepingSteps, FileKept
<1> QED BY <1>5, <1>6, <1>7, <1>8, <1>9, <1>10, <1>11, <1>12, <1>13, <1>14, <1>15, <1>16, <1>17,
           <1>18 DEF Step

(* No reply is lost where that fault is not among those injected.          *)
LEMMA NoneLost ==
    ASSUME "lost" \notin Faults, NEW r \in Slots, ArrivalLost(r) \/ ReplyLost(r)
    PROVE  FALSE
BY DEF ArrivalLost, ReplyLost, Spend

(* No interleaving of uploads, parses, stale whole-row writes, failed      *)
(* ingests, crashes and deletions leaves a row whose file is not in the    *)
(* bucket, as long as an INSERT that reports an error has inserted nothing *)
(* (UploadAndParse takes its word for it and removes the file).            *)
THEOREM FilesStored ==
    ASSUME "lost" \notin Faults
    PROVE  Spec => []RowFileStored
<1>1. Init => FileInv
  BY SentinelAssumption, IdleFields
     DEF Init, FileInv, RowFileStored, SnapshotsStored, IngestOwns, IngestPcs, SentinelAssumption
<1>2. TInv /\ TInv' /\ FileInv /\ [Next]_vars => FileInv'
  <2> SUFFICES ASSUME TInv, TInv', FileInv, [Next]_vars PROVE FileInv'
    OBVIOUS
  <2>1. ASSUME NEW r \in Slots, Arrive(r) PROVE FileInv'
    BY <2>1, FileArrive, SentinelAssumption
  <2>2. ASSUME NEW r \in Slots, Step(r) PROVE FileInv'
    BY <2>2, FileStepInv, SentinelAssumption
  <2>3. CASE (\E r \in Slots : Cancel(r)) \/ Crash \/ UNCHANGED vars
    BY <2>3, KeepingSteps, FileKept, SentinelAssumption
  <2> QED BY <2>1, <2>2, <2>3, NoneLost DEF Next
<1>3. FileInv => RowFileStored
  BY DEF FileInv
<1> QED BY <1>1, <1>2, <1>3, Types, PTL DEF Spec

-----------------------------------------------------------------------------
(* Deletions. *)

Deletions(out, id) == \E i \in DOMAIN out : out[i] = Deleted(id)

(* The deletion of id is in the stream or about to go there. *)
Announced(id) == Deletions(stream, id) \/ \E s \in Slots : Deletions(req[s].out, id)

(* What exists was inserted once, its deletion was never announced, and    *)
(* what was announced was inserted: uuids are not drawn twice.             *)
FinalInv ==
    \A id \in Ids :
        /\ Exists(id) => id \in used /\ ~Announced(id)
        /\ Announced(id) => id \in used

NoDeletion(out) == \A i \in DOMAIN out : out[i].action # "deleted"

LEMMA FinalIsFinal == FinalInv => DeletedIsFinal
BY DEF FinalInv, DeletedIsFinal, Announced, Deletions

LEMMA DeletedAction == \A id : Deleted(id).action = "deleted"
BY DEF Deleted, buildResumeEventPayload

LEMMA FinalKept ==
    ASSUME FinalInv, used \subseteq used',
           \A id \in Ids : Exists(id)' => Exists(id) \/ id \in used' \ used,
           \A id \in Ids : Announced(id)' => Announced(id) \/ (~Exists(id)' /\ id \in used)
    PROVE  FinalInv'
BY DEF FinalInv

(* A step of r that adds no deletion to what r is about to publish. *)
LEMMA AnnouncedKept ==
    ASSUME NEW r \in Slots, OthersKept(r), stream' = stream,
           req'[r].out = req[r].out \/ NoDeletion(req'[r].out)
    PROVE  \A id \in Ids : Announced(id)' => Announced(id)
<1> SUFFICES ASSUME NEW id \in Ids, Announced(id)' PROVE Announced(id)
  OBVIOUS
<1>1. CASE Deletions(stream, id)'
  BY <1>1 DEF Deletions, Announced
<1>2. ASSUME NEW s \in Slots, Deletions(req[s].out, id)' PROVE Announced(id)
  <2>1. CASE s # r \/ req'[s].out = req[s].out
    BY <1>2, <2>1 DEF OthersKept, Deletions, Announced
  <2>2. CASE s = r /\ NoDeletion(req'[r].out)
    BY <1>2, <2>2, DeletedAction DEF Deletions, NoDeletion
  <2> QED BY <2>1, <2>2
<1> QED BY <1>1, <1>2 DEF Announced

LEMMA ShortConcat ==
    ASSUME NEW S, NEW a \in S, NEW b \in S, NEW c \in S
    PROVE  /\ <<a, b>> \o << >> = <<a, b>>
           /\ \A i \in DOMAIN (<<a, b>> \o <<c>>) : (<<a, b>> \o <<c>>)[i] \in {a, b, c}
<1> DEFINE s == <<a, b>>
           t == <<c>>
<1>1. s \in Seq(S) /\ t \in Seq(S) /\ Len(s) = 2 /\ Len(t) = 1
  OBVIOUS
<1>2. s \o << >> = s
  BY <1>1, ConcatEmptySeq
<1>3. s[1] = a /\ s[2] = b /\ t[1] = c
  OBVIOUS
<1> HIDE DEF s, t
<1>4. /\ s \o t \in Seq(S) /\ Len(s \o t) = 3
      /\ \A i \in 1..3 : (s \o t)[i] = IF i <= 2 THEN s[i] ELSE t[i - 2]
  <2>1. /\ s \o t \in Seq(S) /\ Len(s \o t) = Len(s) + Len(t)
        /\ \A i \in 1 .. Len(s) + Len(t) :
             (s \o t)[i] = IF i <= Len(s) THEN s[i] ELSE t[i - Len(s)]
    BY <1>1, ConcatProperties, Zenon
  <2>2. Len(s) + Len(t) = 3
    BY <1>1
  <2>3. \A i \in 1..3 : (s \o t)[i] = IF i <= 2 THEN s[i] ELSE t[i - 2]
    BY <1>1, <2>1, <2>2, Zenon
  <2> QED BY <2>1, <2>2, <2>3
<1>5. DOMAIN (s \o t) = 1..3
  BY <1>4
<1>6. ASSUME NEW i \in 1..3 PROVE (s \o t)[i] \in {a, b, c}
  <2>1. i = 1 \/ i = 2 \/ i = 3
    OBVIOUS
  <2> QED BY <2>1, <1>3, <1>4
<1>7. \A i \in DOMAIN (s \o t) : (s \o t)[i] \in {a, b, c}
  BY <1>5, <1>6
<1> QED BY <1>2, <1>7 DEF s, t

(* The events of every handler but Delete. *)
LEMMA OtherEvents ==
    ASSUME NEW id, NEW row, NEW old, NEW new
    PROVE  /\ NoDeletion(<< >>)
           /\ NoDeletion(<<Created(id, row)>>)
           /\ NoDeletion(<<Updated(id, row)>>)
           /\ NoDeletion(<<StatusChanged(id, old, new)>>)
           /\ NoDeletion(<<StatusChanged(id, old, new), Parsed(id)>>)
           /\ NoDeletion(<<Created(id, row), StatusChanged(id, old, new)>> \o << >>)
           /\ NoDeletion(<<Created(id, row), StatusChanged(id, old, new)>> \o <<Parsed(id)>>)
<1>1. /\ Created(id, row).action # "deleted" /\ Updated(id, row).action # "deleted"
      /\ StatusChanged(id, old, new).action # "deleted" /\ Parsed(id).action # "deleted"
  BY DEF Created, Updated, StatusChanged, Parsed, buildResumeEventPayload
<1> DEFINE a == Created(id, row)
           b == StatusChanged(id, old, new)
           c == Parsed(id)
<1>2. a \in {a, b, c} /\ b \in {a, b, c} /\ c \in {a, b, c}
  OBVIOUS
<1>3. \A x \in {a, b, c} : x.action # "deleted"
  BY <1>1
<1>4. NoDeletion(<<a, b>>)
  BY <1>1 DEF NoDeletion
<1> HIDE DEF a, b, c
<1>5. NoDeletion(<<a, b>> \o << >>)
  BY <1>2, <1>4, ShortConcat
<1>6. NoDeletion(<<a, b>> \o <<c>>)
  <2> HIDE DEF NoDeletion
  <2>1. \A i \in DOMAIN (<<a, b>> \o <<c>>) : (<<a, b>> \o <<c>>)[i] \in {a, b, c}
    BY <1>2, ShortConcat
  <2> QED BY <1>3, <2>1, Zenon DEF NoDeletion
<1>7. /\ NoDeletion(<< >>) /\ NoDeletion(<<Created(id, row)>>) /\ NoDeletion(<<Updated(id, row)>>)
      /\ NoDeletion(<<StatusChanged(id, old, new)>>)
      /\ NoDeletion(<<StatusChanged(id, old, new), Parsed(id)>>)
  BY <1>1 DEF NoDeletion
<1> QED BY <1>5, <1>6, <1>7 DEF a, b, c

(* An UPDATE by id makes no row exist. *)
LEMMA NoneCreated ==
    ASSUME TInv, NEW r \in Slots, NEW id, NEW s,
           Hits(r) /\ id = req[r].id,
           \E row : WriteWholeRow(id, row) \/ WriteStatus(id, s) \/ WriteFileURL(id, s)
    PROVE  \A j \in Ids : Exists(j)' => Exists(j)
BY DEF Hits, Affects, Exists, WriteWholeRow, WriteStatus, WriteFileURL, TInv, TypeOK

LEMMA FinalArrive ==
    ASSUME TInv, FinalInv, NEW r \in Slots, Arrive(r)
    PROVE  FinalInv'
<1>1. CASE Create(r)
  <2>1. PICK id \in Ids \ used, name \in Names,
             file \in {NoFile, Foreign} \cup {rows[i].file : i \in Ids} :
          LET row == [status |-> "pending", name |-> name, file |-> file, parsed |-> FALSE]
          IN  /\ Insert(id, row)
              /\ req' = [req EXCEPT ![r] = Handler("done", id, row, "absent", <<Created(id, row)>>)]
    BY <1>1 DEF Create
  <2> DEFINE row == [status |-> "pending", name |-> name, file |-> file, parsed |-> FALSE]
  <2>2. OthersKept(r) /\ req'[r].out = <<Created(id, row)>>
    BY <2>1 DEF Handler, OthersKept, TInv, TypeOK
  <2>3. NoDeletion(req'[r].out)
    BY <2>2, OtherEvents
  <2>5. \A i \in Ids : Announced(i)' => Announced(i)
    BY <1>1, <2>2, <2>3, AnnouncedKept DEF Create
  <2>4. used' = used \cup {id} /\ \A i \in Ids : Exists(i)' => Exists(i) \/ i = id
    BY <2>1 DEF Insert, Exists, TInv, TypeOK
  <2> QED BY <2>4, <2>5, FinalKept
<1>2. CASE Delete(r)
  <2>1. PICK id \in Ids :
          /\ Exists(id) /\ DeleteRow(id)
          /\ req' = [req EXCEPT ![r] = Handler("done", id, NoRow, "absent", <<Deleted(id)>>)]
    BY <1>2 DEF Delete
  <2>2. OthersKept(r) /\ req'[r].out = <<Deleted(id)>>
    BY <2>1 DEF Handler, OthersKept, TInv, TypeOK
  <2>3. stream' = stream /\ used' = used
    BY <1>2 DEF Delete
  <2>4. ~Exists(id)' /\ id \in used /\ \A i \in Ids : Exists(i)' => Exists(i)
    BY <2>1, IdleFields DEF DeleteRow, Exists, TInv, TypeOK, FinalInv
  <2>5. \A i \in Ids : i # id => Deleted(i) # Deleted(id)
    <3>1. \A i : Deleted(i).id = i
      BY DEF Deleted, buildResumeEventPayload
    <3> QED BY <3>1
  <2>6. \A i \in Ids : i # id /\ Announced(i)' => Announced(i)
    <3> SUFFICES ASSUME NEW i \in Ids, i # id, Announced(i)' PROVE Announced(i)
      OBVIOUS
    <3>1. ~Deletions(req'[r].out, i)
      BY <2>2, <2>5 DEF Deletions
    <3>2. \A s \in Slots : s # r => req'[s] = req[s]
      BY <2>2 DEF OthersKept
    <3> QED BY <2>3, <3>1, <3>2 DEF Announced, Deletions
  <2> QED BY <2>3, <2>4, <2>6, FinalKept
<1>3. ASSUME NEW pc, NEW id, NEW row, NEW old,
             req' = [req EXCEPT ![r] = Handler(pc, id, row, old, << >>)],
             UNCHANGED <<rows, used, stream>>
      PROVE  FinalInv'
  <2>1. OthersKept(r) /\ req'[r].out = << >>
    BY <1>3 DEF Handler, OthersKept, TInv, TypeOK
  <2>2. \A i \in Ids : Announced(i)' => Announced(i)
    BY <1>3, <2>1, AnnouncedKept, OtherEvents
  <2> QED BY <1>3, <2>2, FinalKept DEF Exists
<1>4. CASE UpdateRead(r)
  BY <1>3, <1>4 DEF UpdateRead
<1>5. CASE StatusRead(r)
  BY <1>3, <1>5 DEF StatusRead
<1>6. CASE FileRead(r)
  BY <1>3, <1>6 DEF FileRead
<1>7. CASE ParseRead(r)
  BY <1>3, <1>7 DEF ParseRead
<1>8. CASE IngestUpload(r)
  BY <1>3, <1>8 DEF IngestUpload
<1> QED BY <1>1, <1>2, <1>4, <1>5, <1>6, <1>7, <1>8 DEF Arrive

LEMMA FinalPublish ==
    ASSUME TInv, FinalInv, NEW r \in Slots, Publish(r)
    PROVE  FinalInv'
<1> DEFINE out == req[r].out
<1>1. out \in Seq(Event) /\ out # << >> /\ stream \in Seq(Event)
  BY DEF Publish, TInv, TypeOK, Request
<1>2. Head(out) = out[1] /\ 1 \in DOMAIN out
  BY <1>1
<1>3. \A i \in DOMAIN stream' :
        (i \in DOMAIN stream /\ stream'[i] = stream[i]) \/ stream'[i] = Head(out)
  <2>1. CASE stream' = stream
    BY <2>1
  <2>2. CASE stream' = Append(stream, Head(out))
    BY <1>1, <2>2
  <2>3. CASE stream' = stream \o <<Head(out), Head(out)>>
    BY <1>1, <2>3
  <2> QED BY <2>1, <2>2, <2>3 DEF Publish
<1>4. req' = [req EXCEPT ![r] = Idle] \/ req' = [req EXCEPT ![r] = [req[r] EXCEPT !.out = Tail(out)]]
  BY DEF Publish
<1>5. OthersKept(r) /\ (req'[r].out = << >> \/ req'[r].out = Tail(out))
  BY <1>4, IdleFields DEF OthersKept, TInv, TypeOK, Request
<1>6. \A i \in DOMAIN req'[r].out : i + 1 \in DOMAIN out /\ req'[r].out[i] = out[i + 1]
  <2>1. CASE req'[r].out = << >>
    BY <2>1
  <2>2. CASE req'[r].out = Tail(out)
    <3>1. /\ Tail(out) \in Seq(Event) /\ Len(out) \in Nat /\ Len(Tail(out)) = Len(out) - 1
          /\ \A i \in 1..(Len(out) - 1) : Tail(out)[i] = out[i + 1]
      BY <1>1
    <3>2. DOMAIN Tail(out) = 1..(Len(out) - 1) /\ DOMAIN out = 1..Len(out)
      BY <1>1, <3>1
    <3>3. \A i \in 1..(Len(out) - 1) : i + 1 \in 1..Len(out)
      BY <3>1
    <3> QED BY <2>2, <3>1, <3>2, <3>3
  <2> QED BY <1>5, <2>1, <2>2
<1>7. \A id \in Ids : Announced(id)' => Announced(id)
  <2> SUFFICES ASSUME NEW id \in Ids, Announced(id)' PROVE Announced(id)
    OBVIOUS
  <2>1. CASE Deletions(stream, id)'
    BY <1>2, <1>3, <2>1 DEF Deletions, Announced
  <2>2. CASE Deletions(req'[r].out, id)
    BY <1>6, <2>2 DEF Deletions, Announced
  <2>3. ASSUME NEW s \in Slots, s # r, Deletions(req'[s].out, id) PROVE Announced(id)
    BY <1>5, <2>3 DEF OthersKept, Announced
  <2>4. Deletions(stream, id)' \/ \E s \in Slots : Deletions(req'[s].out, id)
    BY DEF Announced, Deletions
  <2> QED BY <2>1, <2>2, <2>3, <2>4
<1> QED BY <1>7, FinalKept DEF Publish, Exists

LEMMA FinalStepInv ==
    ASSUME TInv, FinalInv, NEW r \in Slots, Step(r)
    PROVE  FinalInv'
<1> DEFINE id == req[r].id
<1>0. Idle.out = << >> /\ NoDeletion(<< >>)
  BY IdleFields, OtherEvents
<1>1. ASSUME OthersKept(r), stream' = stream, used' = used,
             req'[r].out = req[r].out \/ req'[r] = Idle \/ NoDeletion(req'[r].out),
             \A j \in Ids : Exists(j)' => Exists(j)
      PROVE  FinalInv'
  BY <1>0, <1>1, AnnouncedKept, FinalKept
<1>2. ASSUME rows' = rows PROVE \A j \in Ids : Exists(j)' => Exists(j)
  BY <1>2 DEF Exists
<1>3. CASE UpdateWrite(r)
  <2>1. \A j \in Ids : Exists(j)' => Exists(j)
    BY <1>2, <1>3, NoneCreated DEF UpdateWrite
  <2> QED BY <1>1, <1>3, <2>1, GotoFields, RespondFields DEF UpdateWrite
<1>4. CASE Refetch(r)
  <2>1. NoDeletion(<<Updated(id, rows[id])>>)
    BY OtherEvents
  <2>2. OthersKept(r) /\ (req'[r] = Idle \/ NoDeletion(req'[r].out))
    BY <1>4, <2>1, PublishFields, RespondFields DEF Refetch
  <2> QED BY <1>1, <1>2, <1>4, <2>2 DEF Refetch
<1>5. CASE StatusWrite(r)
  <2>1. \A j \in Ids : Exists(j)' => Exists(j)
    BY <1>2, <1>5, NoneCreated DEF StatusWrite
  <2> QED BY <1>1, <1>5, <2>1, GotoFields, RespondFields DEF StatusWrite
<1>6. CASE StatusRefetch(r)
  <2>1. NoDeletion(<<StatusChanged(id, req[r].old, req[r].row.status)>>)
    BY OtherEvents
  <2>2. OthersKept(r) /\ (req'[r] = Idle \/ NoDeletion(req'[r].out))
    BY <1>6, <2>1, PublishFields, RespondFields DEF StatusRefetch
  <2> QED BY <1>1, <1>2, <1>6, <2>2 DEF StatusRefetch
<1>7. CASE FileUpload(r)
  <2>1. OthersKept(r) /\ (req'[r].out = req[r].out \/ req'[r] = Idle)
    BY <1>7, RespondFields DEF FileUpload, OthersKept, TInv, TypeOK, Request
  <2> QED BY <1>1, <1>2, <1>7, <2>1 DEF FileUpload
<1>8. CASE FileWrite(r)
  <2>1. \A j \in Ids : Exists(j)' => Exists(j)
    BY <1>2, <1>8, NoneCreated DEF FileWrite
  <2> QED BY <1>1, <1>8, <2>1, GotoFields, RespondFields DEF FileWrite
<1>9. CASE ParseClaim(r)
  <2>1. \A j \in Ids : Exists(j)' => Exists(j)
    <3>1. ASSUME Claimable(id), WriteStatus(id, "processing")
          PROVE  \A j \in Ids : Exists(j)' => Exists(j)
      BY <3>1 DEF Claimable, Parsable, WriteStatus, Exists, TInv, TypeOK
    <3> QED BY <1>2, <1>9, <3>1 DEF ParseClaim
  <2> DEFINE out == <<StatusChanged(id, req[r].old, "processing")>>
             h == [req[r] EXCEPT !.pc = "parse.run", !.row = LocalClaim(req[r].row), !.out = out]
  <2>2. req' = [req EXCEPT ![r] = h] \/ Respond(r)
    BY <1>9 DEF ParseClaim, TInv, TypeOK, Request
  <2>3. h.out = out
    BY DEF TInv, TypeOK, Request
  <2> HIDE DEF h
  <2>4. OthersKept(r) /\ (req'[r].out = out \/ req'[r] = Idle)
    BY <2>2, <2>3, RespondFields DEF OthersKept, TInv, TypeOK
  <2>5. NoDeletion(out)
    BY OtherEvents
  <2> HIDE DEF out
  <2> QED BY <1>1, <1>9, <2>1, <2>4, <2>5 DEF ParseClaim
<1>10. CASE ParseRun(r)
  <2>1. ASSUME NEW found, req' = [req EXCEPT ![r].pc = "parse.store",
                                      ![r].row.name = FillName(req[r].row.name, found.name),
                                      ![r].row.parsed = TRUE]
        PROVE  OthersKept(r) /\ req'[r].out = req[r].out
    BY <2>1 DEF OthersKept, TInv, TypeOK, Request, Row
  <2>2. OthersKept(r) /\ req'[r].out = req[r].out
    BY <1>10, <2>1, GotoFields DEF ParseRun
  <2> QED BY <1>1, <1>2, <1>10, <2>2 DEF ParseRun
<1>11. CASE ParseStore(r)
  <2>1. \A j \in Ids : Exists(j)' => Exists(j)
    BY <1>2, <1>11, NoneCreated DEF ParseStore
  <2> QED BY <1>1, <1>11, <2>1, GotoFields DEF ParseStore
<1>12. CASE ParseFinish(r)
  <2>1. \A j \in Ids : Exists(j)' => Exists(j)
    BY <1>2, <1>12, NoneCreated DEF ParseFinish
  <2>2. NoDeletion(<<StatusChanged(id, "processing", "parsed"), Parsed(id)>>)
    BY OtherEvents
  <2>3. OthersKept(r) /\ (req'[r].out = req[r].out \/ NoDeletion(req'[r].out))
    BY <1>12, <2>2, GotoFields, PublishFields DEF ParseFinish
  <2> QED BY <1>1, <1>12, <2>1, <2>3 DEF ParseFinish
<1>13. CASE ParseFail(r)
  <2>1. \A j \in Ids : Exists(j)' => Exists(j)
    BY <1>2, <1>13, NoneCreated DEF ParseFail
  <2>2. NoDeletion(<<StatusChanged(id, "processing", "failed")>>)
    BY OtherEvents
  <2>3. OthersKept(r) /\ NoDeletion(req'[r].out)
    BY <1>13, <2>2, PublishFields DEF ParseFail
  <2> QED BY <1>1, <1>13, <2>1, <2>3 DEF ParseFail
<1>14. CASE IngestInsert(r)
  <2>1. ASSUME NEW i \in Ids \ used, NEW row, Insert(i, row), ThenAnnounce(r, i, row)
        PROVE  FinalInv'
    <3>1. OthersKept(r) /\ NoDeletion(req'[r].out)
      BY <2>1, OtherEvents DEF ThenAnnounce, Handler, OthersKept, TInv, TypeOK
    <3>2. \A j \in Ids : Announced(j)' => Announced(j)
      BY <1>14, <3>1, AnnouncedKept DEF IngestInsert
    <3>3. used' = used \cup {i} /\ \A j \in Ids : Exists(j)' => Exists(j) \/ j = i
      BY <2>1 DEF Insert, Exists, TInv, TypeOK
    <3> QED BY <3>2, <3>3, FinalKept
  <2>2. ASSUME AfterFailedInsert(r), UNCHANGED <<rows, used>> PROVE FinalInv'
    BY <1>1, <1>2, <1>14, <2>2, GotoFields DEF AfterFailedInsert, IngestInsert
  <2> QED BY <1>14, <2>1, <2>2 DEF IngestInsert
<1>15. CASE IngestCleanup(r)
  BY <1>1, <1>2, <1>15, RespondFields DEF IngestCleanup
<1>16. CASE Publish(r)
  BY <1>16, FinalPublish
<1> QED BY <1>3, <1>4, <1>5, <1>6, <1>7, <1>8, <1>9, <1>10, <1>11, <1>12, <1>13, <1>14, <1>15,
           <1>16 DEF Step

LEMMA FinalArrivalLost ==
    ASSUME TInv, FinalInv, NEW r \in Slots, ArrivalLost(r)
    PROVE  FinalInv'
<1>1. \A i \in Ids : Announced(i)' => Announced(i)
  BY DEF ArrivalLost, Announced, Deletions
<1>2. CASE \E id \in Ids \ used : \E row : Insert(id, row)
  <2>1. PICK id \in Ids \ used : \E row : Insert(id, row)
    BY <1>2
  <2>2. used' = used \cup {id} /\ \A i \in Ids : Exists(i)' => Exists(i) \/ i = id
    BY <2>1 DEF Insert, Exists, TInv, TypeOK
  <2> QED BY <1>1, <2>2, FinalKept
<1>3. CASE (\E id \in Ids : DeleteRow(id)) /\ used' = used
  <2>1. \A i \in Ids : Exists(i)' => Exists(i)
    BY <1>3, IdleFields DEF DeleteRow, Exists, TInv, TypeOK
  <2> QED BY <1>1, <1>3, <2>1, FinalKept
<1>4. CASE rows' = rows /\ used' = used
  BY <1>1, <1>4, FinalKept DEF Exists
<1> QED BY <1>2, <1>3, <1>4 DEF ArrivalLost

LEMMA FinalReplyLost ==
    ASSUME TInv, FinalInv, NEW r \in Slots, ReplyLost(r)
    PROVE  FinalInv'
<1>1. OthersKept(r) /\ (req'[r].out = req[r].out \/ req'[r].out = << >>)
  BY LostGoto, GotoFields, RespondFields, IdleFields
<1>2. \A i \in Ids : Announced(i)' => Announced(i)
  BY <1>1, AnnouncedKept, OtherEvents DEF ReplyLost
<1>3. CASE \E id \in Ids \ used : \E row : Insert(id, row)
  <2>1. PICK id \in Ids \ used : \E row : Insert(id, row)
    BY <1>3
  <2>2. used' = used \cup {id} /\ \A i \in Ids : Exists(i)' => Exists(i) \/ i = id
    BY <2>1 DEF Insert, Exists, TInv, TypeOK
  <2> QED BY <1>2, <2>2, FinalKept
<1>4. CASE rows' = rows /\ used' = used
  BY <1>2, <1>4, FinalKept DEF Exists
<1>5. CASE /\ Exists(req[r].id) /\ used' = used
           /\ \E row, s : \/ WriteWholeRow(req[r].id, row) \/ WriteStatus(req[r].id, s)
                          \/ WriteFileURL(req[r].id, s)
  <2>1. \A j \in Ids : Exists(j)' => Exists(j)
    BY <1>5 DEF Exists, WriteWholeRow, WriteStatus, WriteFileURL, TInv, TypeOK
  <2> QED BY <1>2, <1>5, <2>1, FinalKept
<1> QED BY <1>3, <1>4, <1>5, LostWrite

LEMMA NextFinal ==
    ASSUME TInv, FinalInv, [Next]_vars
    PROVE  FinalInv'
<1>1. ASSUME NEW r \in Slots, Arrive(r) PROVE FinalInv'
  BY <1>1, FinalArrive
<1>2. ASSUME NEW r \in Slots, Step(r) PROVE FinalInv'
  BY <1>2, FinalStepInv
<1>3. ASSUME NEW r \in Slots, Cancel(r) PROVE FinalInv'
  <2>1. OthersKept(r) /\ req'[r].out = req[r].out
    BY <1>3 DEF Cancel, OthersKept, TInv, TypeOK, Request
  <2> QED BY <1>3, <2>1, AnnouncedKept, FinalKept DEF Cancel, Exists
<1>4. CASE Crash
  <2>1. \A s \in Slots : req'[s].out = << >>
    BY <1>4, IdleFields DEF Crash
  <2>2. \A id \in Ids : Announced(id)' => Announced(id)
    BY <1>4, <2>1 DEF Crash, Announced, Deletions
  <2> QED BY <1>4, <2>2, FinalKept DEF Crash, Exists
<1>5. CASE UNCHANGED vars
  BY <1>5 DEF vars, FinalInv, Exists, Announced, Deletions
<1> QED BY <1>1, <1>2, <1>3, <1>4, <1>5, FinalArrivalLost, FinalReplyLost DEF Next

LEMMA InitFinal == Init => FinalInv
BY IdleFields DEF Init, FinalInv, Exists, Announced, Deletions

(* Whatever update, parse or status write of the resume was under way when *)
(* it was deleted, it does not come back once its deletion is announced.   *)
THEOREM DeletionsFinal == Spec => []DeletedIsFinal
<1>1. TInv /\ FinalInv /\ [Next]_vars => FinalInv'
  BY NextFinal
<1> QED BY <1>1, InitFinal, FinalIsFinal, Types, PTL DEF Spec

=============================================================================
