------------------------ MODULE ResumeServiceClaims ------------------------
(***************************************************************************)
(* Promises of resume-service that hold under part of its workload, each   *)
(* for every number of resumes, files and requests:                        *)
(*   - a resume is parsed by one request at a time where clients write     *)
(*     neither statuses nor whole rows;                                    *)
(*   - statuses move along the table, a parse keeps names, and the stream  *)
(*     tells the table where requests come one after the other;            *)
(*   - uploads are undone where no file is replaced or removed and the     *)
(*     process lives.                                                      *)
(***************************************************************************)
EXTENDS ResumeServiceSafety

-----------------------------------------------------------------------------
(* Without the operations that write a status or a whole row on behalf of  *)
(* a client, the claim of ParseResume is exclusive: the table alone keeps  *)
(* two requests from parsing one resume, whatever fails on the way.        *)

ParsingPcs == {"parse.run", "parse.store", "parse.finish", "parse.fail"}

(* The writes that look neither at the status nor at a claim. *)
BlindPcs == {"update.write", "status.write", "status.refetch"}

(* A request that parses a resume finds "processing" in the table as long  *)
(* as the resume exists (or "parsed", which it wrote itself and was told   *)
(* that it had not), and writes it back until it is done.                  *)
ClaimHeld(r) ==
    /\ req[r].id \in used
    /\ req[r].row.status = "processing"
    /\ Exists(req[r].id) => rows[req[r].id].status \in {"processing", "parsed"}

ClaimInv ==
    /\ \A r \in Slots : req[r].pc \notin BlindPcs
    /\ \A r \in Slots : Parsing(r) => ClaimHeld(r)
    /\ ExclusiveParse

(* A step after which no request parses that did not before. *)
NoNewClaim ==
    \A s \in Slots :
        /\ req'[s].pc \notin BlindPcs
        /\ Parsing(s)' => /\ Parsing(s)
                          /\ req'[s].id = req[s].id
                          /\ req'[s].row.status = req[s].row.status

LEMMA PcParsing == \A r : Parsing(r) <=> req[r].pc \in ParsingPcs
BY DEF Parsing, ParsingPcs

LEMMA IdleParsesNothing == Idle.pc \notin ParsingPcs \cup BlindPcs
BY IdleFields DEF ParsingPcs, BlindPcs

LEMMA ClaimsKept ==
    ASSUME TInv, ClaimInv, NoNewClaim, used \subseteq used',
           \A s \in Slots : Parsing(s)' =>
               rows'[req[s].id].status
                   \in {rows[req[s].id].status, "absent", "processing", "parsed"}
    PROVE  ClaimInv'
<1>1. ASSUME NEW s \in Slots, Parsing(s)' PROVE ClaimHeld(s)'
  <2>1. ClaimHeld(s) /\ req'[s].id = req[s].id /\ req'[s].row.status = req[s].row.status
    BY <1>1 DEF NoNewClaim, ClaimInv
  <2> QED BY <1>1, <2>1 DEF ClaimHeld, Exists
<1>2. ExclusiveParse'
  BY DEF ExclusiveParse, NoNewClaim, ClaimInv
<1> QED BY <1>1, <1>2 DEF ClaimInv, NoNewClaim

(* A step of r that claims nothing. *)
LEMMA OneHandler ==
    ASSUME ClaimInv, NEW r \in Slots, OthersKept(r),
           req'[r].pc \notin BlindPcs,
           \/ req'[r].pc \notin ParsingPcs
           \/ /\ Parsing(r) /\ req'[r].id = req[r].id
              /\ req'[r].row.status = req[r].row.status
    PROVE  NoNewClaim
BY PcParsing DEF ClaimInv, NoNewClaim, OthersKept, Parsing, ParsingPcs

(* The rest of a request that neither claims nor changes a status. *)
LEMMA QuietStep ==
    ASSUME TInv, ClaimInv, NoNewClaim, UNCHANGED <<rows, used>>
    PROVE  ClaimInv'
BY ClaimsKept

(* INSERT of an id no request can hold. *)
LEMMA InsertStep ==
    ASSUME TInv, ClaimInv, NoNewClaim, NEW id \in Ids \ used, NEW row, Insert(id, row)
    PROVE  ClaimInv'
<1>1. ASSUME NEW s \in Slots, Parsing(s)'
      PROVE  rows'[req[s].id].status = rows[req[s].id].status
  <2>1. req[s].id # id
    BY <1>1 DEF NoNewClaim, ClaimInv, ClaimHeld
  <2> QED BY <2>1 DEF Insert, TInv, TypeOK
<1> QED BY <1>1, ClaimsKept DEF Insert

LEMMA ClaimArrive ==
    ASSUME Ops \cap {"update", "status"} = {}, TInv, ClaimInv, NEW r \in Slots, Arrive(r)
    PROVE  ClaimInv'
<1>1. ASSUME NEW pc, NEW id, NEW row, NEW old, NEW out,
             req' = [req EXCEPT ![r] = Handler(pc, id, row, old, out)],
             pc \notin BlindPcs \cup ParsingPcs
      PROVE  NoNewClaim
  <2>1. OthersKept(r) /\ req'[r].pc = pc
    BY <1>1 DEF Handler, OthersKept, TInv, TypeOK
  <2> QED BY <1>1, <2>1, OneHandler
<1>2. ASSUME NEW pc \in {"done", "file.upload", "parse.claim", "ingest.insert"}
      PROVE  pc \notin BlindPcs \cup ParsingPcs
  BY <1>2 DEF BlindPcs, ParsingPcs
<1>3. CASE Create(r)
  <2>1. PICK id \in Ids \ used : \E row :
          /\ Insert(id, row)
          /\ req' = [req EXCEPT ![r] = Handler("done", id, row, "absent", <<Created(id, row)>>)]
    BY <1>3 DEF Create
  <2>2. PICK row :
          /\ Insert(id, row)
          /\ req' = [req EXCEPT ![r] = Handler("done", id, row, "absent", <<Created(id, row)>>)]
    BY <2>1
  <2> QED BY <1>1, <1>2, <2>2, InsertStep
<1>4. CASE Delete(r)
  <2>1. PICK id \in Ids :
          /\ DeleteRow(id)
          /\ req' = [req EXCEPT ![r] = Handler("done", id, NoRow, "absent", <<Deleted(id)>>)]
    BY <1>4 DEF Delete
  <2>2. NoNewClaim
    BY <1>1, <1>2, <2>1
  <2>3. \A j : rows'[j].status \in {rows[j].status, "absent"} \/ j \notin Ids
    BY <2>1, IdleFields DEF DeleteRow, TInv, TypeOK
  <2>4. \A s \in Slots : Parsing(s) => req[s].id \in Ids
    BY DEF ClaimInv, ClaimHeld, TInv, TypeOK
  <2> QED BY <1>4, <2>2, <2>3, <2>4, ClaimsKept DEF Delete, NoNewClaim
<1>5. CASE UpdateRead(r) \/ StatusRead(r)
  BY <1>5 DEF UpdateRead, StatusRead, Accept
<1>6. CASE FileRead(r)
  BY <1>1, <1>2, <1>6, QuietStep DEF FileRead
<1>7. CASE ParseRead(r)
  BY <1>1, <1>2, <1>7, QuietStep DEF ParseRead
<1>8. CASE IngestUpload(r)
  BY <1>1, <1>2, <1>8, QuietStep DEF IngestUpload
<1> QED BY <1>3, <1>4, <1>5, <1>6, <1>7, <1>8 DEF Arrive

(* The UPDATEs that take a claim or hold one. *)
LEMMA ClaimTaken ==
    ASSUME TInv, FinalInv, ClaimInv, NEW r \in Slots, ParseClaim(r)
    PROVE  ClaimInv'
<1> DEFINE id == req[r].id
           h == [req[r] EXCEPT !.pc = "parse.run", !.row = LocalClaim(req[r].row),
                               !.out = <<StatusChanged(id, req[r].old, "processing")>>]
<1>1. CASE /\ Claimable(id)
           /\ WriteStatus(id, "processing")
           /\ req' = [req EXCEPT ![r] = h]
  <2>1. id \in Ids /\ req[r].pc = "parse.claim"
    BY DEF ParseClaim, At, TInv, HasId
  <2>2. h.pc = "parse.run" /\ h.id = id /\ h.row.status = "processing"
    BY DEF TInv, TypeOK, Request, Row, LocalClaim
  <2> HIDE DEF h
  <2>3. OthersKept(r) /\ req'[r] = h
    BY <1>1 DEF OthersKept, TInv, TypeOK
  <2>4. Exists(id) /\ id \in used /\ rows[id].status \notin {"processing", "parsed"}
    BY <1>1, <2>1 DEF Claimable, Parsable, Exists, FinalInv
  <2>5. \A j \in Ids : j # id => rows'[j] = rows[j]
    BY <1>1 DEF WriteStatus, TInv, TypeOK
  <2>6. rows'[id].status = "processing"
    BY <1>1, <2>1 DEF WriteStatus, TInv, TypeOK, Row
  <2>7. \A s \in Slots : Parsing(s) => req[s].id \in Ids /\ req[s].id # id
    BY <2>4 DEF ClaimInv, ClaimHeld, TInv, TypeOK
  <2>8. used' = used
    BY DEF ParseClaim
  <2>9. \A s \in Slots : s # r => (Parsing(s)' <=> Parsing(s)) /\ req'[s] = req[s]
    BY <2>3 DEF OthersKept, Parsing
  <2>10. ClaimHeld(r)'
    BY <2>2, <2>3, <2>4, <2>6, <2>8 DEF ClaimHeld
  <2>11. \A s \in Slots : s # r /\ Parsing(s) => ClaimHeld(s)'
    BY <2>5, <2>7, <2>8, <2>9 DEF ClaimInv, ClaimHeld, Exists
  <2>12. ExclusiveParse'
    BY <2>2, <2>3, <2>7, <2>9 DEF ClaimInv, ExclusiveParse
  <2>13. \A s \in Slots : req'[s].pc \notin BlindPcs
    BY <2>2, <2>3, <2>9 DEF ClaimInv, BlindPcs
  <2> QED BY <2>9, <2>10, <2>11, <2>12, <2>13 DEF ClaimInv
<1>2. CASE Respond(r) /\ UNCHANGED rows
  <2>1. NoNewClaim
    BY <1>2, RespondFields, IdleParsesNothing, OneHandler
  <2> QED BY <1>2, <2>1, QuietStep DEF ParseClaim
<1>3. \/ /\ Claimable(id)
         /\ WriteStatus(id, "processing")
         /\ req' = [req EXCEPT ![r] = h]
      \/ Respond(r) /\ UNCHANGED rows
  BY DEF ParseClaim, TInv, TypeOK, Request
<1> QED BY <1>1, <1>2, <1>3

LEMMA ClaimStep ==
    ASSUME TInv, FinalInv, ClaimInv, NEW r \in Slots, Step(r)
    PROVE  ClaimInv'
<1> DEFINE id == req[r].id
<1>0. /\ "refetch" \notin BlindPcs \cup ParsingPcs
      /\ "done" \notin BlindPcs \cup ParsingPcs
      /\ "file.write" \notin BlindPcs \cup ParsingPcs
      /\ "ingest.cleanup" \notin BlindPcs \cup ParsingPcs
      /\ ParsingPcs \cap BlindPcs = {}
      /\ {"parse.store", "parse.finish", "parse.fail"} \subseteq ParsingPcs
  BY DEF BlindPcs, ParsingPcs
(* The steps that end or leave the handler. *)
<1>1. ASSUME Respond(r) PROVE NoNewClaim
  BY <1>1, RespondFields, IdleParsesNothing, OneHandler
<1>2. ASSUME NEW out, ThenPublish(r, out) PROVE NoNewClaim
  BY <1>0, <1>2, PublishFields, OneHandler
<1>3. ASSUME NEW pc, Goto(r, pc), pc \notin BlindPcs, pc \in ParsingPcs => Parsing(r)
      PROVE  NoNewClaim
  BY <1>3, GotoFields, OneHandler
<1>4. CASE UpdateWrite(r) \/ StatusWrite(r) \/ StatusRefetch(r)
  BY <1>4 DEF UpdateWrite, StatusWrite, StatusRefetch, At, ClaimInv, BlindPcs
<1>5. CASE Refetch(r)
  BY <1>1, <1>2, <1>5, QuietStep DEF Refetch
<1>6. CASE FileUpload(r)
  <2>1. ASSUME NEW key, req' = [req EXCEPT ![r].pc = "file.write", ![r].row.file = key]
        PROVE  OthersKept(r) /\ req'[r].pc = "file.write"
    BY <2>1 DEF OthersKept, TInv, TypeOK, Request, Row
  <2>2. NoNewClaim
    BY <1>0, <1>1, <1>6, <2>1, OneHandler DEF FileUpload
  <2> QED BY <1>6, <2>2, QuietStep DEF FileUpload
<1>7. CASE FileWrite(r)
  <2>1. NoNewClaim
    BY <1>0, <1>1, <1>3, <1>7 DEF FileWrite
  <2>2. \A j \in Ids : rows'[j].status = rows[j].status
    BY <1>7 DEF FileWrite, WriteFileURL, TInv, TypeOK, Row
  <2>3. \A s \in Slots : Parsing(s) => req[s].id \in Ids
    BY DEF ClaimInv, ClaimHeld, TInv, TypeOK
  <2> QED BY <1>7, <2>1, <2>2, <2>3, ClaimsKept DEF FileWrite, NoNewClaim
<1>8. CASE ParseClaim(r)
  BY <1>8, ClaimTaken
<1>9. CASE ParseRun(r)
  <2>1. Parsing(r)
    BY <1>9 DEF ParseRun, At, Parsing
  <2>2. ASSUME NEW found, req' = [req EXCEPT ![r].pc = "parse.store",
                                      ![r].row.name = FillName(req[r].row.name, found.name),
                                      ![r].row.parsed = TRUE]
        PROVE  /\ OthersKept(r) /\ req'[r].pc = "parse.store" /\ req'[r].id = id
               /\ req'[r].row.status = req[r].row.status
    BY <2>2 DEF OthersKept, TInv, TypeOK, Request, Row
  <2>3. NoNewClaim
    BY <1>0, <1>3, <1>9, <2>1, <2>2, OneHandler DEF ParseRun
  <2> QED BY <1>9, <2>3, QuietStep DEF ParseRun
<1>10. CASE ParseStore(r)
  <2>1. Parsing(r)
    BY <1>10 DEF ParseStore, At, Parsing
  <2>2. NoNewClaim
    BY <1>0, <1>3, <1>10, <2>1 DEF ParseStore
  <2>3. \A j \in Ids : rows'[j].status \in {rows[j].status, "processing"}
    BY <1>10, <2>1 DEF ParseStore, WriteWholeRow, TInv, TypeOK, ClaimInv, ClaimHeld
  <2>4. \A s \in Slots : Parsing(s) => req[s].id \in Ids
    BY DEF ClaimInv, ClaimHeld, TInv, TypeOK
  <2> QED BY <1>10, <2>2, <2>3, <2>4, ClaimsKept DEF ParseStore, NoNewClaim
<1>11. ASSUME NEW status, NEW out, WriteStatus(id, status) \/ UNCHANGED rows,
              ThenPublish(r, out), Parsing(r), UNCHANGED used
       PROVE  ClaimInv'
  <2>1. NoNewClaim
    BY <1>2, <1>11
  <2>2. \A s \in Slots : Parsing(s)' => s # r /\ Parsing(s)
    BY <1>0, <1>11, <2>1, PublishFields, PcParsing DEF NoNewClaim, Parsing
  <2>3. \A s \in Slots : Parsing(s)' => req[s].id # id /\ req[s].id \in Ids
    BY <1>11, <2>2 DEF ClaimInv, ClaimHeld, ExclusiveParse, TInv, TypeOK
  <2>4. \A j \in Ids : j # id => rows'[j] = rows[j]
    BY <1>11 DEF WriteStatus, TInv, TypeOK
  <2> QED BY <1>11, <2>1, <2>3, <2>4, ClaimsKept
<1>12. CASE ParseFinish(r)
  <2>1. Parsing(r)
    BY <1>12 DEF ParseFinish, At, Parsing
  <2>2. CASE Goto(r, "parse.fail") /\ UNCHANGED rows
    BY <1>0, <1>3, <1>12, <2>1, <2>2, QuietStep DEF ParseFinish
  <2> QED BY <1>11, <1>12, <2>1, <2>2 DEF ParseFinish
<1>13. CASE ParseFail(r)
  <2>1. Parsing(r)
    BY <1>13 DEF ParseFail, At, Parsing
  <2> QED BY <1>11, <1>13, <2>1 DEF ParseFail
<1>14. CASE IngestInsert(r)
  <2>1. ASSUME NEW i \in Ids \ used, NEW row, Insert(i, row), ThenAnnounce(r, i, row)
        PROVE  ClaimInv'
    <3>1. OthersKept(r) /\ req'[r].pc = "done"
      BY <2>1 DEF ThenAnnounce, Handler, OthersKept, TInv, TypeOK
    <3> QED BY <1>0, <2>1, <3>1, OneHandler, InsertStep
  <2>2. ASSUME AfterFailedInsert(r), UNCHANGED <<rows, used>> PROVE ClaimInv'
    BY <1>0, <1>3, <2>2, QuietStep DEF AfterFailedInsert
  <2> QED BY <1>14, <2>1, <2>2 DEF IngestInsert
<1>15. CASE IngestCleanup(r)
  BY <1>1, <1>15, QuietStep DEF IngestCleanup
<1>16. CASE Publish(r)
  <2>1. HandlersKept /\ UNCHANGED <<rows, used>>
    BY <1>16, KeepingSteps
  <2>2. NoNewClaim
    BY <2>1, IdleParsesNothing, PcParsing DEF HandlersKept, NoNewClaim, ClaimInv, Parsing, ParsingPcs
  <2> QED BY <2>1, <2>2, QuietStep
<1> QED BY <1>4, <1>5, <1>6, <1>7, <1>8, <1>9, <1>10, <1>12, <1>13, <1>14, <1>15, <1>16 DEF Step

LEMMA ClaimArrivalLost ==
    ASSUME TInv, ClaimInv, NEW r \in Slots, ArrivalLost(r)
    PROVE  ClaimInv'
<1>1. NoNewClaim
  BY DEF ArrivalLost, NoNewClaim, ClaimInv, Parsing
<1>2. CASE \E id \in Ids \ used : \E row : Insert(id, row)
  BY <1>1, <1>2, InsertStep
<1>3. CASE (\E id \in Ids : DeleteRow(id)) /\ used' = used
  <2>1. \A j \in Ids : rows'[j].status \in {rows[j].status, "absent"}
    BY <1>3, IdleFields DEF DeleteRow, TInv, TypeOK
  <2>2. \A s \in Slots : Parsing(s) => req[s].id \in Ids
    BY DEF ClaimInv, ClaimHeld, TInv, TypeOK
  <2> QED BY <1>1, <1>3, <2>1, <2>2, ClaimsKept DEF NoNewClaim
<1>4. CASE rows' = rows /\ used' = used
  BY <1>1, <1>4, QuietStep
<1> QED BY <1>2, <1>3, <1>4 DEF ArrivalLost

LEMMA ClaimReplyLost ==
    ASSUME TInv, ClaimInv, NEW r \in Slots, ReplyLost(r)
    PROVE  ClaimInv'
<1> DEFINE id == req[r].id
<1>1. NoNewClaim
  <2>1. CASE Respond(r)
    BY <2>1, RespondFields, IdleParsesNothing, OneHandler
  <2>2. CASE req[r].pc \in {"parse.store", "parse.finish"} /\ Goto(r, "parse.fail")
    BY <2>2, GotoFields, OneHandler DEF Parsing, BlindPcs
  <2>3. CASE Goto(r, "ingest.cleanup")
    BY <2>3, GotoFields, OneHandler DEF ParsingPcs, BlindPcs
  <2> QED BY <2>1, <2>2, <2>3, LostGoto
<1>2. \A s \in Slots : Parsing(s) => req[s].id \in Ids
  BY DEF ClaimInv, ClaimHeld, TInv, TypeOK
<1>3. ASSUME \A j \in Ids : rows'[j].status \in {rows[j].status, "processing", "parsed"},
             used' = used
      PROVE  ClaimInv'
  BY <1>1, <1>2, <1>3, ClaimsKept DEF NoNewClaim
<1>4. CASE \E i \in Ids \ used : \E row : Insert(i, row)
  BY <1>1, <1>4, InsertStep
<1>5. CASE rows' = rows /\ used' = used
  BY <1>1, <1>5, QuietStep
<1>6. CASE used' = used /\ (WriteStatus(id, "processing") \/ WriteStatus(id, "parsed"))
  <2>1. \A j \in Ids : rows'[j].status \in {rows[j].status, "processing", "parsed"}
    BY <1>6 DEF WriteStatus, TInv, TypeOK, Row
  <2> QED BY <1>3, <1>6, <2>1
<1>7. CASE used' = used /\ WriteFileURL(id, req[r].row.file)
  <2>1. \A j \in Ids : rows'[j].status = rows[j].status
    BY <1>7 DEF WriteFileURL, TInv, TypeOK, Row
  <2> QED BY <1>3, <1>7, <2>1
<1>8. CASE req[r].pc = "parse.store" /\ used' = used /\ WriteWholeRow(id, req[r].row)
  <2>1. req[r].row.status = "processing"
    BY <1>8 DEF ClaimInv, ClaimHeld, Parsing
  <2>2. \A j \in Ids : rows'[j].status \in {rows[j].status, "processing"}
    BY <1>8, <2>1 DEF WriteWholeRow, TInv, TypeOK
  <2> QED BY <1>3, <1>8, <2>2
<1>9. req[r].pc \notin {"update.write", "status.write"}
  BY DEF ClaimInv, BlindPcs
<1> QED BY <1>4, <1>5, <1>6, <1>7, <1>8, <1>9 DEF ReplyLost

LEMMA NextClaim ==
    ASSUME Ops \cap {"update", "status"} = {}, TInv, FinalInv, ClaimInv, [Next]_vars
    PROVE  ClaimInv'
<1>1. ASSUME NEW r \in Slots, Arrive(r) PROVE ClaimInv'
  BY <1>1, ClaimArrive
<1>2. ASSUME NEW r \in Slots, Step(r) PROVE ClaimInv'
  BY <1>2, ClaimStep
<1>3. CASE (\E r \in Slots : Cancel(r)) \/ Crash \/ UNCHANGED vars
  <2>1. HandlersKept /\ UNCHANGED <<rows, used>>
    BY <1>3, KeepingSteps
  <2>2. NoNewClaim
    BY <2>1, IdleParsesNothing, PcParsing DEF HandlersKept, NoNewClaim, ClaimInv, Parsing, ParsingPcs
  <2> QED BY <2>1, <2>2, QuietStep
<1> QED BY <1>1, <1>2, <1>3, ClaimArrivalLost, ClaimReplyLost DEF Next

LEMMA InitClaim == Init => ClaimInv
BY IdleParsesNothing, PcParsing DEF Init, ClaimInv, ExclusiveParse, Parsing, ParsingPcs

(* Where clients neither update a resume nor set its status, a resume is   *)
(* parsed by one request at a time, whatever calls fail, whoever cancels   *)
(* and whenever the process dies.                                          *)
THEOREM ExclusiveClaim ==
    ASSUME Ops \cap {"update", "status"} = {}
    PROVE  Spec => []ExclusiveParse
<1>1. TInv /\ FinalInv /\ [Next]_vars => FinalInv'
  BY NextFinal
<1>2. TInv /\ FinalInv /\ ClaimInv /\ [Next]_vars => ClaimInv'
  BY NextClaim
<1>3. ClaimInv => ExclusiveParse
  BY DEF ClaimInv
<1> QED BY <1>1, <1>2, <1>3, InitFinal, InitClaim, Types, PTL DEF Spec

-----------------------------------------------------------------------------
(* Requests one after the other.  A handler that is alone finds the row it *)
(* read as it left it.                                                     *)

OneClient == \A r, s \in Slots : r = s

(* Where a handler works on a row that it found. *)
OnRow == {"update.write", "refetch", "status.write", "status.refetch",
          "file.upload", "file.write", "parse.claim"} \cup ParsingPcs

(* The last UPDATE of a parse was told that it failed, and did not.        *)
Miswritten(pc, row) == "lost" \in Faults /\ pc = "parse.fail" /\ row.status = "parsed"

Unshared(r) ==
    LET h == req[r]
        row == rows[h.id]
    IN  /\ Exists(h.id)
        /\ h.pc \in {"update.write", "file.upload", "parse.claim"} => h.row = row
        /\ h.pc = "status.write" => CanTransitionTo(row.status, h.row.status)
        /\ h.pc = "status.refetch" => row.status = h.row.status
        /\ Parsing(r) => /\ h.row.status = "processing"
                         /\ row.status = "processing" \/ Miswritten(h.pc, row)
                         /\ row.name # NoName => h.row.name = row.name

AloneInv == \A r \in Slots : req[r].pc \in OnRow => Unshared(r)

LEMMA AloneKept ==
    ASSUME OneClient, NEW r \in Slots, req'[r].pc \in OnRow => Unshared(r)'
    PROVE  AloneInv'
BY DEF AloneInv, OneClient

LEMMA EndsAlone ==
    ASSUME OneClient, NEW r \in Slots,
           req'[r] = Idle \/ req'[r].pc \in {"done", "ingest.insert", "ingest.cleanup"}
    PROVE  AloneInv'
BY AloneKept, IdleFields DEF OnRow, ParsingPcs

LEMMA AloneArrive ==
    ASSUME OneClient, TInv, NEW r \in Slots, Arrive(r)
    PROVE  AloneInv'
<1>1. ASSUME NEW pc, NEW id, NEW row, NEW old, NEW out,
             req' = [req EXCEPT ![r] = Handler(pc, id, row, old, out)]
      PROVE  req'[r].pc = pc /\ req'[r].id = id /\ req'[r].row = row /\ req'[r].old = old
  BY <1>1 DEF Handler, TInv, TypeOK
<1>2. ASSUME NEW pc \in {"done", "ingest.insert"}, NEW id, NEW row, NEW old, NEW out,
             req' = [req EXCEPT ![r] = Handler(pc, id, row, old, out)]
      PROVE  AloneInv'
  BY <1>1, <1>2, EndsAlone
<1>3. CASE Create(r)
  BY <1>2, <1>3 DEF Create
<1>9. CASE Delete(r)
  BY <1>2, <1>9 DEF Delete
<1>10. CASE IngestUpload(r)
  BY <1>2, <1>10 DEF IngestUpload
<1>4. ASSUME NEW pc \in {"update.write", "file.upload", "parse.claim"}, NEW id \in Ids, NEW old,
             req' = [req EXCEPT ![r] = Handler(pc, id, rows[id], old, << >>)],
             Exists(id), rows' = rows
      PROVE  AloneInv'
  <2>0. req'[r].pc = pc /\ req'[r].id = id /\ req'[r].row = rows[id]
    BY <1>1, <1>4
  <2>1. Unshared(r)'
    BY <1>4, <2>0 DEF Unshared, Exists, Parsing
  <2> QED BY <2>1, AloneKept
<1>5. CASE UpdateRead(r)
  BY <1>4, <1>5 DEF UpdateRead
<1>6. CASE FileRead(r)
  BY <1>4, <1>6 DEF FileRead
<1>7. CASE ParseRead(r)
  BY <1>4, <1>7 DEF ParseRead
<1>8. CASE StatusRead(r)
  <2>1. PICK id \in Ids, to \in Statuses \cup {"unknown"} :
          /\ Exists(id)
          /\ CanTransitionTo(rows[id].status, to)
          /\ req' = [req EXCEPT ![r] = Handler("status.write", id, [rows[id] EXCEPT !.status = to],
                                               rows[id].status, << >>)]
    BY <1>8 DEF StatusRead
  <2>2. rows[id] \in Row /\ [rows[id] EXCEPT !.status = to].status = to
    BY DEF TInv, TypeOK, Row
  <2>3. /\ req'[r].pc = "status.write" /\ req'[r].id = id
        /\ req'[r].row.status = to /\ rows' = rows
    <3> DEFINE row == [rows[id] EXCEPT !.status = to]
    <3>1. /\ req' = [req EXCEPT ![r] = Handler("status.write", id, row, rows[id].status, << >>)]
          /\ row.status = to /\ rows' = rows
      BY <1>8, <2>1, <2>2 DEF StatusRead
    <3> HIDE DEF row
    <3> QED BY <1>1, <3>1
  <2>4. Unshared(r)'
    BY <2>1, <2>3 DEF Unshared, Exists, Parsing
  <2> QED BY <2>4, AloneKept
<1> QED BY <1>3, <1>5, <1>6, <1>7, <1>8, <1>9, <1>10 DEF Arrive

(* What the UPDATEs by id leave in the table. *)
LEMMA Written ==
    ASSUME TInv, NEW id \in Ids, NEW row, NEW s
    PROVE  /\ WriteWholeRow(id, row) => rows'[id] = row
           /\ WriteStatus(id, s) => rows'[id].status = s /\ rows'[id].name = rows[id].name
           /\ WriteFileURL(id, s) => /\ rows'[id].status = rows[id].status
                                     /\ rows'[id].name = rows[id].name
           /\ (WriteWholeRow(id, row) \/ WriteStatus(id, s) \/ WriteFileURL(id, s)) =>
                \A j \in Ids \ {id} : rows'[j] = rows[j]
BY DEF WriteWholeRow, WriteStatus, WriteFileURL, TInv, TypeOK, Row

LEMMA AloneStep ==
    ASSUME OneClient, TInv, AloneInv, NEW r \in Slots, Step(r)
    PROVE  AloneInv'
<1> DEFINE id == req[r].id
<1>0. /\ req[r].pc \in OnRow => id \in Ids /\ Unshared(r)
      /\ req[r] \in Request /\ req[r].row \in Row
  <2>1. {"idle", "ingest.insert", "ingest.cleanup"} \cap OnRow = {}
    BY DEF OnRow, ParsingPcs
  <2> QED BY <2>1 DEF AloneInv, TInv, TypeOK, HasId, Request
(* The handler goes on, or ends. *)
<1>1. ASSUME Respond(r) PROVE AloneInv'
  BY <1>1, RespondFields, EndsAlone
<1>2. ASSUME NEW out, ThenPublish(r, out) PROVE AloneInv'
  BY <1>2, PublishFields, EndsAlone
<1>3. ASSUME NEW pc \in {"refetch", "file.write"}, req'[r].pc = pc, req'[r].id = id, id \in Ids,
             rows'[id].status # "absent"
      PROVE  AloneInv'
  <2>1. Unshared(r)'
    BY <1>3 DEF Unshared, Exists, Parsing
  <2> QED BY <2>1, AloneKept
<1>4. ASSUME NEW pc \in ParsingPcs, req'[r].pc = pc, req'[r].id = id, id \in Ids,
             rows'[id].status = "processing", req'[r].row.status = "processing",
             rows'[id].name # NoName => req'[r].row.name = rows'[id].name
      PROVE  AloneInv'
  <2>1. Unshared(r)'
    BY <1>4 DEF Unshared, Exists, ParsingPcs
  <2> QED BY <2>1, AloneKept
<1>5. ASSUME NEW pc \in ParsingPcs, Goto(r, pc), Parsing(r), req[r].pc # "parse.fail",
             rows' = rows \/ rows'[id] = req[r].row
      PROVE  AloneInv'
  <2>1. Unshared(r) /\ id \in Ids
    BY <1>0, <1>5, PcParsing DEF OnRow
  <2>2. req'[r].pc = pc /\ req'[r].id = id /\ req'[r].row = req[r].row
    BY <1>5, GotoFields
  <2> QED BY <1>4, <1>5, <2>1, <2>2 DEF Unshared, Miswritten
<1>6. CASE UpdateWrite(r)
  <2>1. Unshared(r) /\ id \in Ids /\ req[r].row = rows[id]
    BY <1>0, <1>6 DEF UpdateWrite, At, OnRow, Unshared
  <2>2. ASSUME NEW name, WriteWholeRow(id, [req[r].row EXCEPT !.name = name]), Goto(r, "refetch")
        PROVE  AloneInv'
    <3>1. rows'[id].status = rows[id].status
      BY <1>0, <2>1, <2>2, Written DEF Row
    <3> QED BY <1>3, <2>1, <2>2, <3>1, GotoFields DEF Unshared, Exists
  <2> QED BY <1>1, <1>6, <2>2 DEF UpdateWrite
<1>7. CASE Refetch(r)
  BY <1>1, <1>2, <1>7 DEF Refetch
<1>8. CASE StatusWrite(r)
  <2>1. Unshared(r) /\ id \in Ids /\ CanTransitionTo(rows[id].status, req[r].row.status)
    BY <1>0, <1>8 DEF StatusWrite, At, OnRow, Unshared
  <2>2. ASSUME WriteStatus(id, req[r].row.status), Goto(r, "status.refetch")
        PROVE  AloneInv'
    <3>1. rows'[id].status = req[r].row.status /\ req[r].row.status # "absent"
      BY <2>1, <2>2, Written DEF CanTransitionTo, validStatusTransitions
    <3>2. req'[r].pc = "status.refetch" /\ req'[r].id = id /\ req'[r].row = req[r].row
      BY <2>2, GotoFields
    <3>3. Unshared(r)'
      BY <3>1, <3>2 DEF Unshared, Exists, Parsing
    <3> QED BY <3>3, AloneKept
  <2> QED BY <1>1, <1>8, <2>2 DEF StatusWrite
<1>9. CASE StatusRefetch(r)
  BY <1>1, <1>2, <1>9 DEF StatusRefetch
<1>10. CASE FileUpload(r)
  <2>1. Unshared(r) /\ id \in Ids
    BY <1>0, <1>10 DEF FileUpload, At, OnRow
  <2>2. ASSUME NEW key, req' = [req EXCEPT ![r].pc = "file.write", ![r].row.file = key]
        PROVE  AloneInv'
    <3>1. req'[r].pc = "file.write" /\ req'[r].id = id
      BY <1>0, <2>2 DEF TInv, TypeOK, Request, Row
    <3>2. rows' = rows
      BY <1>10 DEF FileUpload
    <3> QED BY <1>3, <2>1, <3>1, <3>2 DEF Unshared, Exists
  <2> QED BY <1>1, <1>10, <2>2 DEF FileUpload
<1>11. CASE FileWrite(r)
  <2>1. Unshared(r) /\ id \in Ids
    BY <1>0, <1>11 DEF FileWrite, At, OnRow
  <2>2. ASSUME WriteFileURL(id, req[r].row.file), Goto(r, "refetch") PROVE AloneInv'
    BY <1>3, <2>1, <2>2, Written, GotoFields DEF Unshared, Exists
  <2> QED BY <1>1, <1>11, <2>2 DEF FileWrite
<1>12. CASE ParseClaim(r)
  <2>1. Unshared(r) /\ id \in Ids /\ req[r].row = rows[id]
    BY <1>0, <1>12 DEF ParseClaim, At, OnRow, Unshared
  <2>2. ASSUME NEW out, WriteStatus(id, "processing"),
               req' = [req EXCEPT ![r].pc = "parse.run", ![r].row = LocalClaim(req[r].row),
                                  ![r].out = out]
        PROVE  AloneInv'
    <3>1. /\ req'[r].pc = "parse.run" /\ req'[r].id = id
          /\ req'[r].row.status = "processing" /\ req'[r].row.name = req[r].row.name
      BY <1>0, <2>2 DEF TInv, TypeOK, Request, Row, LocalClaim
    <3> QED BY <1>4, <2>1, <2>2, <3>1, Written DEF ParsingPcs
  <2> QED BY <1>1, <1>12, <2>2 DEF ParseClaim
<1>13. CASE ParseRun(r)
  <2>1. /\ Unshared(r) /\ id \in Ids /\ Parsing(r) /\ rows' = rows
        /\ req[r].pc = "parse.run"
    BY <1>0, <1>13 DEF ParseRun, At, OnRow, ParsingPcs, Parsing
  <2>2. ASSUME NEW found, req' = [req EXCEPT ![r].pc = "parse.store",
                                      ![r].row.name = FillName(req[r].row.name, found.name),
                                      ![r].row.parsed = TRUE]
        PROVE  AloneInv'
    <3>1. /\ req'[r].pc = "parse.store" /\ req'[r].id = id
          /\ req'[r].row.status = req[r].row.status
          /\ req'[r].row.name = FillName(req[r].row.name, found.name)
      BY <1>0, <2>2 DEF TInv, TypeOK, Request, Row
    <3> QED BY <1>4, <2>1, <3>1 DEF Unshared, Miswritten, FillName, ParsingPcs
  <2> QED BY <1>5, <1>13, <2>1, <2>2 DEF ParseRun, ParsingPcs
<1>14. CASE ParseStore(r)
  <2>1. Parsing(r) /\ id \in Ids /\ req[r].pc # "parse.fail"
    BY <1>0, <1>14 DEF ParseStore, At, Parsing, OnRow, ParsingPcs
  <2> QED BY <1>5, <1>14, <2>1, Written DEF ParseStore, ParsingPcs
<1>15. CASE ParseFinish(r)
  <2>1. Parsing(r) /\ req[r].pc # "parse.fail"
    BY <1>15 DEF ParseFinish, At, Parsing
  <2> QED BY <1>2, <1>5, <1>15, <2>1 DEF ParseFinish, ParsingPcs
<1>16. CASE ParseFail(r)
  BY <1>2, <1>16 DEF ParseFail
<1>17. CASE IngestInsert(r)
  <2>1. ASSUME NEW i, NEW row, ThenAnnounce(r, i, row) PROVE AloneInv'
    <3>1. req'[r].pc = "done"
      BY <2>1 DEF ThenAnnounce, Handler, TInv, TypeOK
    <3> QED BY <3>1, EndsAlone
  <2>2. ASSUME AfterFailedInsert(r) PROVE AloneInv'
    BY <2>2, GotoFields, EndsAlone DEF AfterFailedInsert
  <2> QED BY <1>17, <2>1, <2>2 DEF IngestInsert
<1>18. CASE IngestCleanup(r)
  BY <1>1, <1>18 DEF IngestCleanup
<1>19. CASE Publish(r)
  <2>1. HandlersKept /\ rows' = rows
    BY <1>19, KeepingSteps
  <2>2. CASE req'[r] = Idle
    BY <2>2, EndsAlone
  <2>3. CASE req'[r].pc = req[r].pc /\ req'[r].id = req[r].id /\ req'[r].row = req[r].row
    <3>1. req'[r].pc \in OnRow => Unshared(r)'
      BY <1>0, <2>1, <2>3 DEF Unshared, Exists, Parsing
    <3> QED BY <3>1, AloneKept
  <2> QED BY <2>1, <2>2, <2>3 DEF HandlersKept
<1> QED BY <1>6, <1>7, <1>8, <1>9, <1>10, <1>11, <1>12, <1>13, <1>14, <1>15, <1>16, <1>17, <1>18,
           <1>19 DEF Step

LEMMA AloneLost ==
    ASSUME OneClient, TInv, AloneInv, NEW r \in Slots, ArrivalLost(r) \/ ReplyLost(r)
    PROVE  AloneInv'
<1> DEFINE id == req[r].id
<1>1. CASE ArrivalLost(r)
  BY <1>1, EndsAlone DEF ArrivalLost, Accept
<1>2. CASE ReplyLost(r) /\ req[r].pc \in {"parse.store", "parse.finish"}
  <2>1. /\ Unshared(r) /\ id \in Ids /\ "lost" \in Faults /\ Exists(id) /\ Parsing(r)
    BY <1>2 DEF AloneInv, OnRow, ParsingPcs, ReplyLost, Spend, Unshared, Parsing
  <2>2. req'[r].pc = "parse.fail" /\ req'[r].id = id /\ req'[r].row = req[r].row
    BY <1>2, GotoFields DEF ReplyLost
  <2>3. CASE WriteWholeRow(id, req[r].row)
    <3>1. rows'[id] = req[r].row /\ req[r].row.status = "processing"
      BY <2>1, <2>3, Written DEF Unshared
    <3>2. Unshared(r)'
      BY <2>1, <2>2, <3>1 DEF Unshared, Exists, Parsing
    <3> QED BY <3>2, AloneKept
  <2>4. CASE WriteStatus(id, "parsed")
    <3>1. rows'[id].status = "parsed" /\ rows'[id].name = rows[id].name
      BY <2>1, <2>4, Written
    <3>2. Unshared(r)'
      BY <2>1, <2>2, <3>1 DEF Unshared, Miswritten, Exists, Parsing
    <3> QED BY <3>2, AloneKept
  <2> QED BY <1>2, <2>3, <2>4 DEF ReplyLost
<1>3. CASE ReplyLost(r) /\ req[r].pc \notin {"parse.store", "parse.finish"}
  BY <1>3, LostGoto, RespondFields, GotoFields, EndsAlone
<1> QED BY <1>1, <1>2, <1>3

LEMMA NextAlone ==
    ASSUME OneClient, TInv, AloneInv, [Next]_vars
    PROVE  AloneInv'
<1>1. ASSUME NEW r \in Slots, Arrive(r) PROVE AloneInv'
  BY <1>1, AloneArrive
<1>2. ASSUME NEW r \in Slots, Step(r) PROVE AloneInv'
  BY <1>2, AloneStep
<1>3. CASE (\E r \in Slots : Cancel(r)) \/ Crash \/ UNCHANGED vars
  <2>1. HandlersKept /\ rows' = rows
    BY <1>3, KeepingSteps
  <2>2. Idle.pc \notin OnRow
    BY IdleFields DEF OnRow, ParsingPcs
  <2> QED BY <2>1, <2>2 DEF HandlersKept, AloneInv, Unshared, Exists, Parsing
<1> QED BY <1>1, <1>2, <1>3, AloneLost DEF Next

LEMMA InitAlone == Init => AloneInv
BY IdleFields DEF Init, AloneInv, OnRow, ParsingPcs

(* What a step may make of a row that is there before and after it. *)
Progress(row, next) ==
    /\ Moves(row.status, next.status)
    /\ row.name # NoName /\ next.name # row.name => \E r \in Slots : req[r].pc = "update.write"

LEMMA SameProgress ==
    ASSUME NEW row, NEW next, next.status = row.status, next.name = row.name
    PROVE  Progress(row, next)
BY DEF Progress, Moves

(* An INSERT finds no row under its id. *)
LEMMA InsertProgress ==
    ASSUME TInv, FinalInv, NEW id \in Ids \ used, NEW row, Insert(id, row)
    PROVE  \A j \in Ids : Exists(j) => rows'[j] = rows[j]
BY DEF Insert, FinalInv, TInv, TypeOK

LEMMA ArriveProgress ==
    ASSUME TInv, FinalInv, NEW r \in Slots, Arrive(r), NEW j \in Ids, Exists(j), Exists(j)'
    PROVE  Progress(rows[j], rows'[j])
<1>1. CASE rows' = rows
  BY <1>1, SameProgress
<1>2. CASE Create(r)
  <2>1. \E id \in Ids \ used : \E row : Insert(id, row)
    BY <1>2 DEF Create
  <2> QED BY <2>1, InsertProgress, SameProgress
<1>3. CASE Delete(r)
  <2>1. PICK id \in Ids : DeleteRow(id)
    BY <1>3 DEF Delete
  <2>2. j # id /\ rows'[j] = rows[j]
    BY <2>1, IdleFields DEF DeleteRow, Exists, TInv, TypeOK
  <2> QED BY <2>2, SameProgress
<1> QED BY <1>1, <1>2, <1>3
        DEF Arrive, UpdateRead, StatusRead, FileRead, ParseRead, IngestUpload

LEMMA StepProgress ==
    ASSUME OneClient, "lost" \notin Faults, TInv, FinalInv, AloneInv, NEW r \in Slots, Step(r),
           NEW j \in Ids, Exists(j), Exists(j)'
    PROVE  Progress(rows[j], rows'[j])
<1> DEFINE id == req[r].id
<1>0. req[r].pc \in OnRow => id \in Ids /\ Unshared(r)
  <2>1. {"idle", "ingest.insert", "ingest.cleanup"} \cap OnRow = {}
    BY DEF OnRow, ParsingPcs
  <2> QED BY <2>1 DEF AloneInv, TInv, HasId
<1>1. CASE rows' = rows
  BY <1>1, SameProgress
(* One row is written, and becomes what it may. *)
<1>2. ASSUME NEW row, NEW s, id \in Ids,
             WriteWholeRow(id, row) \/ WriteStatus(id, s) \/ WriteFileURL(id, s),
             Progress(rows[id], rows'[id])
      PROVE  Progress(rows[j], rows'[j])
  <2>1. CASE j = id
    BY <1>2, <2>1
  <2>2. CASE j # id
    BY <1>2, <2>2, Written, SameProgress
  <2> QED BY <2>1, <2>2
<1>3. ASSUME NEW s, WriteStatus(id, s), id \in Ids, Moves(rows[id].status, s)
      PROVE  Progress(rows[j], rows'[j])
  BY <1>2, <1>3, Written DEF Progress
<1>4. CASE UpdateWrite(r)
  <2>1. Unshared(r) /\ id \in Ids /\ req[r].row = rows[id] /\ req[r].pc = "update.write"
    BY <1>0, <1>4 DEF UpdateWrite, At, OnRow, Unshared
  <2>2. ASSUME NEW name, WriteWholeRow(id, [req[r].row EXCEPT !.name = name])
        PROVE  Progress(rows[j], rows'[j])
    <3>1. [req[r].row EXCEPT !.name = name].status = rows[id].status
      BY <2>1 DEF TInv, TypeOK, Row
    <3>3. rows'[id].status = rows[id].status
      BY <2>1, <2>2, <3>1, Written
    <3>2. Progress(rows[id], rows'[id])
      BY <2>1, <3>3 DEF Progress, Moves
    <3> QED BY <1>2, <2>1, <2>2, <3>2
  <2> QED BY <1>1, <1>4, <2>2 DEF UpdateWrite
<1>5. CASE StatusWrite(r)
  <2>1. id \in Ids /\ Moves(rows[id].status, req[r].row.status)
    BY <1>0, <1>5 DEF StatusWrite, At, OnRow, Unshared, CanTransitionTo, Moves
  <2> QED BY <1>1, <1>3, <1>5, <2>1 DEF StatusWrite
<1>6. CASE FileWrite(r)
  <2>1. id \in Ids
    BY <1>0, <1>6 DEF FileWrite, At, OnRow
  <2>2. ASSUME WriteFileURL(id, req[r].row.file) PROVE Progress(rows[j], rows'[j])
    <3>1. /\ rows'[id].status = rows[id].status /\ rows'[id].name = rows[id].name
          /\ \A k \in Ids \ {id} : rows'[k] = rows[k]
      BY <2>1, <2>2, Written
    <3> QED BY <3>1, SameProgress
  <2> QED BY <1>1, <1>6, <2>2 DEF FileWrite
<1>7. CASE ParseClaim(r)
  <2>1. id \in Ids
    BY <1>0, <1>7 DEF ParseClaim, At, OnRow
  <2>2. Claimable(id) => Moves(rows[id].status, "processing")
    BY DEF Claimable, Parsable, Moves, validStatusTransitions
  <2> QED BY <1>1, <1>3, <1>7, <2>1, <2>2 DEF ParseClaim
<1>8. CASE ParseStore(r)
  <2>1. Unshared(r) /\ id \in Ids /\ Parsing(r)
    BY <1>0, <1>8 DEF ParseStore, At, OnRow, ParsingPcs, Parsing
  <2>2. WriteWholeRow(id, req[r].row) => Progress(rows[id], rows'[id])
    BY <2>1, Written DEF Unshared, Miswritten, Progress, Moves
  <2> QED BY <1>1, <1>2, <1>8, <2>1, <2>2 DEF ParseStore
<1>9. CASE ParseFinish(r)
  <2>1. id \in Ids /\ Moves(rows[id].status, "parsed")
    BY <1>0, <1>9 DEF ParseFinish, At, OnRow, ParsingPcs, Parsing, Unshared, Miswritten, Moves,
                      validStatusTransitions
  <2> QED BY <1>1, <1>3, <1>9, <2>1 DEF ParseFinish
<1>10. CASE ParseFail(r)
  <2>1. id \in Ids /\ Moves(rows[id].status, "failed")
    BY <1>0, <1>10 DEF ParseFail, At, OnRow, ParsingPcs, Parsing, Unshared, Miswritten, Moves,
                       validStatusTransitions
  <2> QED BY <1>1, <1>3, <1>10, <2>1 DEF ParseFail
<1>11. CASE IngestInsert(r)
  <2>1. rows' = rows \/ \E i \in Ids \ used : \E row : Insert(i, row)
    BY <1>11 DEF IngestInsert
  <2> QED BY <1>1, <2>1, InsertProgress, SameProgress
<1> QED BY <1>1, <1>4, <1>5, <1>6, <1>7, <1>8, <1>9, <1>10, <1>11
        DEF Step, Refetch, StatusRefetch, FileUpload, ParseRun, IngestCleanup, Publish

LEMMA NextProgress ==
    ASSUME OneClient, "lost" \notin Faults, TInv, FinalInv, AloneInv, [Next]_vars
    PROVE  \A j \in Ids : Exists(j) /\ Exists(j)' => Progress(rows[j], rows'[j])
<1>1. CASE rows' = rows
  BY <1>1, SameProgress
<1>2. ASSUME NEW r \in Slots, Arrive(r) \/ Step(r)
      PROVE  \A j \in Ids : Exists(j) /\ Exists(j)' => Progress(rows[j], rows'[j])
  BY <1>2, ArriveProgress, StepProgress
<1> QED BY <1>1, <1>2, NoneLost DEF Next, Cancel, Crash, vars

LEMMA AloneBehaviour ==
    ASSUME OneClient
    PROVE  Spec => [](TInv /\ FinalInv /\ AloneInv)
<1>1. TInv /\ FinalInv /\ [Next]_vars => FinalInv'
  BY NextFinal
<1>2. TInv /\ AloneInv /\ [Next]_vars => AloneInv'
  BY NextAlone
<1> QED BY <1>1, <1>2, InitFinal, InitAlone, Types, PTL DEF Spec

(* Served one after the other, requests move each status along the table   *)
(* of transitions, or from failed back to processing, whatever calls fail, *)
(* whoever cancels and whenever the process dies: a check of the table on  *)
(* the row that was read is a check on the row that is written.  (Where    *)
(* the reply to its last UPDATE is lost, a parse takes parsed to failed.)  *)
THEOREM OrderlyMoves ==
    ASSUME OneClient, "lost" \notin Faults
    PROVE  Spec => SequentialMoves
<1>1. TInv /\ FinalInv /\ AloneInv /\ [Next]_vars =>
        [\A id \in Ids : Exists(id) /\ Exists(id)' => Moves(rows[id].status, rows'[id].status)]_rows
  BY NextProgress DEF Progress
<1> QED BY <1>1, AloneBehaviour, PTL DEF Spec, SequentialMoves

(* Served one after the other, a ParseResume never replaces a name that is *)
(* in the table: the row it writes back has it, or was completed where the *)
(* row had none.                                                           *)
THEOREM NamesKept ==
    ASSUME OneClient, "lost" \notin Faults
    PROVE  Spec => ParseKeepsNames
<1>1. TInv /\ FinalInv /\ AloneInv /\ [Next]_vars =>
        [\A id \in Ids :
           Exists(id) /\ Exists(id)' /\ rows[id].name # NoName /\ rows'[id].name # rows[id].name
               => \E r \in Slots : req[r].pc = "update.write"]_rows
  BY NextProgress DEF Progress
<1> QED BY <1>1, AloneBehaviour, PTL DEF Spec, ParseKeepsNames

-----------------------------------------------------------------------------
(* The stream tells the table.                                             *)

(* The last event about id in s that carries a status carries this one. *)
LastIn(s, id, status) ==
    \E i \in DOMAIN s :
        /\ s[i].id = id /\ s[i].action # "parsed" /\ s[i].new = status
        /\ \A j \in DOMAIN s : j > i /\ s[j].id = id => s[j].action = "parsed"

Silent(s, id) == \A i \in DOMAIN s : s[i].id = id => s[i].action = "parsed"

About(s, id) == \A i \in DOMAIN s : s[i].id = id

(* Only between the UPDATE and the re-fetch of UpdateStatus does neither   *)
(* the stream nor what is about to be published tell the status of id.     *)
Unannounced(r, id) == req[r].pc = "status.refetch" /\ req[r].id = id

Told(id) ==
    \/ \E r \in Slots : Unannounced(r, id) \/ LastIn(req[r].out, id, rows[id].status)
    \/ /\ \A r \in Slots : Silent(req[r].out, id)
       /\ LastIn(stream, id, rows[id].status)

LogInv ==
    /\ publisher
    /\ \A r \in Slots : req[r].live
    /\ \A id \in used : Told(id)

LEMMA NothingTold ==
    ASSUME NEW id, NEW status
    PROVE  Silent(<< >>, id) /\ ~LastIn(<< >>, id, status)
BY DEF Silent, LastIn

LEMMA ThreeEvents ==
    ASSUME NEW S, NEW a \in S, NEW b \in S, NEW c \in S
    PROVE  /\ DOMAIN (<<a, b>> \o <<c>>) = 1..3
           /\ (<<a, b>> \o <<c>>)[1] = a
           /\ (<<a, b>> \o <<c>>)[2] = b
           /\ (<<a, b>> \o <<c>>)[3] = c
<1> DEFINE s == <<a, b>>
           t == <<c>>
<1>1. s \in Seq(S) /\ t \in Seq(S) /\ Len(s) = 2 /\ Len(t) = 1
  OBVIOUS
<1>2. s[1] = a /\ s[2] = b /\ t[1] = c
  OBVIOUS
<1> HIDE DEF s, t
<1>3. /\ s \o t \in Seq(S) /\ Len(s \o t) = Len(s) + Len(t)
      /\ \A i \in 1 .. Len(s) + Len(t) :
           (s \o t)[i] = IF i <= Len(s) THEN s[i] ELSE t[i - Len(s)]
  BY <1>1, ConcatProperties, Zenon
<1>4. DOMAIN (s \o t) = 1..3 /\ 1 .. Len(s) + Len(t) = 1..3
  BY <1>1, <1>3
<1>5. \A i \in 1..3 : (s \o t)[i] = IF i <= 2 THEN s[i] ELSE t[i - 2]
  BY <1>1, <1>3, <1>4, Zenon
<1>6. \A i \in 1..2 : (s \o t)[i] = s[i]
  <2>1. \A i \in 1..2 : i \in 1..3 /\ i <= 2
    OBVIOUS
  <2> QED BY <1>5, <2>1, Zenon
<1>7. (s \o t)[1] = s[1] /\ (s \o t)[2] = s[2]
  <2>1. 1 \in 1..2 /\ 2 \in 1..2
    OBVIOUS
  <2> QED BY <1>6, <2>1, Zenon
<1>8. (s \o t)[3] = t[1]
  <2>1. 3 \in 1..3 /\ ~(3 <= 2)
    OBVIOUS
  <2>2. (s \o t)[3] = t[3 - 2]
    BY <1>5, <2>1, Zenon
  <2>3. 3 - 2 = 1
    OBVIOUS
  <2> QED BY <2>2, <2>3
<1> QED BY <1>2, <1>4, <1>7, <1>8 DEF s, t

(* What the handlers publish tells the status they leave. *)
LEMMA Announcements ==
    ASSUME NEW id, NEW row, NEW old, NEW new
    PROVE  /\ About(<<Created(id, row)>>, id) /\ LastIn(<<Created(id, row)>>, id, row.status)
           /\ About(<<Updated(id, row)>>, id) /\ LastIn(<<Updated(id, row)>>, id, row.status)
           /\ About(<<Deleted(id)>>, id) /\ LastIn(<<Deleted(id)>>, id, "absent")
           /\ About(<<StatusChanged(id, old, new)>>, id)
           /\ LastIn(<<StatusChanged(id, old, new)>>, id, new)
           /\ About(<<StatusChanged(id, old, new), Parsed(id)>>, id)
           /\ LastIn(<<StatusChanged(id, old, new), Parsed(id)>>, id, new)
<1>1. /\ Created(id, row).id = id /\ Created(id, row).action = "created"
      /\ Created(id, row).new = row.status
      /\ Updated(id, row).id = id /\ Updated(id, row).action = "updated"
      /\ Updated(id, row).new = row.status
      /\ Deleted(id).id = id /\ Deleted(id).action = "deleted" /\ Deleted(id).new = "absent"
      /\ Parsed(id).id = id /\ Parsed(id).action = "parsed"
      /\ StatusChanged(id, old, new).id = id /\ StatusChanged(id, old, new).new = new
      /\ StatusChanged(id, old, new).action = "status_changed"
  BY DEF Created, Updated, Deleted, Parsed, StatusChanged, buildResumeEventPayload, NoRow
<1>2. ASSUME NEW e, e.id = id, e.action # "parsed"
      PROVE  About(<<e>>, id) /\ LastIn(<<e>>, id, e.new)
  BY <1>2 DEF About, LastIn
<1>3. ASSUME NEW e, e.id = id, e.action # "parsed", NEW f, f.id = id, f.action = "parsed"
      PROVE  About(<<e, f>>, id) /\ LastIn(<<e, f>>, id, e.new)
  BY <1>3 DEF About, LastIn
<1>4. /\ About(<<Created(id, row)>>, id) /\ LastIn(<<Created(id, row)>>, id, row.status)
      /\ About(<<Updated(id, row)>>, id) /\ LastIn(<<Updated(id, row)>>, id, row.status)
      /\ About(<<Deleted(id)>>, id) /\ LastIn(<<Deleted(id)>>, id, "absent")
      /\ About(<<StatusChanged(id, old, new)>>, id)
      /\ LastIn(<<StatusChanged(id, old, new)>>, id, new)
  BY <1>1, <1>2
<1> QED BY <1>1, <1>3, <1>4

LEMMA IngestAnnouncements ==
    ASSUME NEW id, NEW row, NEW old, NEW new
    PROVE  LET two == <<Created(id, row), StatusChanged(id, old, new)>>
           IN  /\ About(two \o << >>, id) /\ LastIn(two \o << >>, id, new)
               /\ About(two \o <<Parsed(id)>>, id) /\ LastIn(two \o <<Parsed(id)>>, id, new)
<1> DEFINE a == Created(id, row)
           b == StatusChanged(id, old, new)
           c == Parsed(id)
<1>1. /\ a.id = id /\ b.id = id /\ c.id = id /\ c.action = "parsed"
      /\ b.action # "parsed" /\ b.new = new
  BY DEF Created, Parsed, StatusChanged, buildResumeEventPayload
<1>2. a \in {a, b, c} /\ b \in {a, b, c} /\ c \in {a, b, c}
  OBVIOUS
<1> HIDE DEF a, b, c
<1>3. <<a, b>> \o << >> = <<a, b>>
  BY <1>2, ShortConcat
<1>4. About(<<a, b>>, id) /\ LastIn(<<a, b>>, id, new)
  BY <1>1 DEF About, LastIn
<1> DEFINE three == <<a, b>> \o <<c>>
<1>5. DOMAIN three = 1..3 /\ three[1] = a /\ three[2] = b /\ three[3] = c
  BY <1>2, ThreeEvents
<1> HIDE DEF three
<1>6. About(three, id) /\ LastIn(three, id, new)
  BY <1>1, <1>5 DEF About, LastIn
<1> QED BY <1>3, <1>4, <1>6 DEF a, b, c, three

(* A step that publishes nothing and announces nothing: each status is as  *)
(* it was, or to be announced after the re-fetch.                          *)
LEMMA ToldKept ==
    ASSUME OneClient, LogInv, NEW r \in Slots, UNCHANGED <<used, stream, publisher>>,
           req'[r].live, req[r].out = << >>, req'[r].out = << >>,
           \A j \in used : \/ req'[r].pc = "status.refetch" /\ req'[r].id = j
                           \/ ~Unannounced(r, j) /\ rows'[j].status = rows[j].status
    PROVE  LogInv'
<1>1. ASSUME NEW j \in used PROVE Told(j)'
  <2>1. CASE req'[r].pc = "status.refetch" /\ req'[r].id = j
    BY <2>1 DEF Told, Unannounced
  <2>2. CASE ~Unannounced(r, j) /\ rows'[j].status = rows[j].status
    <3>1. Told(j) /\ \A s \in Slots : s = r
      BY DEF LogInv, OneClient
    <3>2. LastIn(stream, j, rows[j].status)
      BY <2>2, <3>1, NothingTold DEF Told
    <3>3. \A s \in Slots : Silent(req'[s].out, j)
      BY <3>1, NothingTold
    <3> QED BY <2>2, <3>2, <3>3 DEF Told
  <2> QED BY <2>1, <2>2
<1> QED BY <1>1 DEF LogInv, OneClient

(* A step that leaves the status of id to events about id alone. *)
LEMMA Announces ==
    ASSUME OneClient, LogInv, NEW r \in Slots, UNCHANGED <<stream, publisher>>,
           req'[r].live, req[r].out = << >>, NEW id,
           About(req'[r].out, id), LastIn(req'[r].out, id, rows'[id].status),
           used' \subseteq used \cup {id},
           \A j \in used \ {id} : ~Unannounced(r, j) /\ rows'[j].status = rows[j].status
    PROVE  LogInv'
<1>1. ASSUME NEW j \in used', j # id PROVE Told(j)'
  <2>1. /\ j \in used /\ Told(j) /\ ~Unannounced(r, j) /\ rows'[j].status = rows[j].status
        /\ \A s \in Slots : s = r
    BY <1>1 DEF LogInv, OneClient
  <2>2. LastIn(stream, j, rows[j].status)
    BY <2>1, NothingTold DEF Told
  <2>3. \A s \in Slots : Silent(req'[s].out, j)
    BY <1>1, <2>1 DEF About, Silent
  <2> QED BY <2>1, <2>2, <2>3 DEF Told
<1>2. Told(id)'
  BY DEF Told
<1> QED BY <1>1, <1>2 DEF LogInv, OneClient

(* An event that goes from the handler to the stream, once or twice. *)
LEMMA HandedOver ==
    ASSUME NEW out \in Seq(Event), out # << >>, NEW s \in Seq(Event), NEW t \in Seq(Event),
           Len(t) > Len(s), \A i \in 1..Len(s) : t[i] = s[i],
           \A i \in Len(s) + 1 .. Len(t) : t[i] = Head(out),
           NEW id, NEW status,
           LastIn(out, id, status) \/ (Silent(out, id) /\ LastIn(s, id, status))
    PROVE  \/ LastIn(Tail(out), id, status)
           \/ Silent(Tail(out), id) /\ LastIn(t, id, status)
<1>1. /\ Len(out) \in Nat \ {0} /\ Len(s) \in Nat /\ Len(t) \in Nat
      /\ DOMAIN out = 1..Len(out) /\ DOMAIN s = 1..Len(s) /\ DOMAIN t = 1..Len(t)
      /\ Head(out) = out[1]
      /\ DOMAIN Tail(out) = 1 .. Len(out) - 1
      /\ \A i \in 1 .. Len(out) - 1 : Tail(out)[i] = out[i + 1]
  <2>1. Tail(out) \in Seq(Event) /\ Len(Tail(out)) = Len(out) - 1
    OBVIOUS
  <2> QED BY <2>1
<1>2. ASSUME NEW i \in DOMAIN out, out[i].id = id, out[i].action # "parsed", out[i].new = status,
             \A j \in DOMAIN out : j > i /\ out[j].id = id => out[j].action = "parsed"
      PROVE  \/ LastIn(Tail(out), id, status)
             \/ Silent(Tail(out), id) /\ LastIn(t, id, status)
  <2>1. CASE i = 1
    <3>1. Silent(Tail(out), id)
      BY <1>1, <1>2, <2>1 DEF Silent
    <3>2. t[Len(t)] = out[1] /\ Len(t) \in DOMAIN t
      BY <1>1
    <3>3. LastIn(t, id, status)
      BY <1>1, <1>2, <2>1, <3>2 DEF LastIn
    <3> QED BY <3>1, <3>3
  <2>2. CASE i # 1
    <3>1. i - 1 \in DOMAIN Tail(out) /\ Tail(out)[i - 1] = out[i]
      BY <1>1, <1>2, <2>2
    <3>2. \A j \in DOMAIN Tail(out) : j > i - 1 /\ Tail(out)[j].id = id => Tail(out)[j].action = "parsed"
      BY <1>1, <1>2, <2>2
    <3> QED BY <1>2, <3>1, <3>2 DEF LastIn
  <2> QED BY <2>1, <2>2
<1>3. ASSUME Silent(out, id), NEW i \in DOMAIN s, s[i].id = id, s[i].action # "parsed",
             s[i].new = status,
             \A j \in DOMAIN s : j > i /\ s[j].id = id => s[j].action = "parsed"
      PROVE  Silent(Tail(out), id) /\ LastIn(t, id, status)
  <2>1. Silent(Tail(out), id)
    BY <1>1, <1>3 DEF Silent
  <2>2. i \in DOMAIN t /\ t[i] = s[i]
    BY <1>1, <1>3
  <2>3. Head(out).id = id => Head(out).action = "parsed"
    BY <1>1, <1>3 DEF Silent
  <2>4. ASSUME NEW j \in DOMAIN t, j > i, t[j].id = id PROVE t[j].action = "parsed"
    <3>1. CASE j <= Len(s)
      BY <1>1, <1>3, <2>4, <3>1
    <3>2. CASE j > Len(s)
      BY <1>1, <2>3, <2>4, <3>2
    <3> QED BY <1>1, <3>1, <3>2
  <2> QED BY <1>3, <2>1, <2>2, <2>4 DEF LastIn
<1> QED BY <1>2, <1>3 DEF LastIn

(* Nothing but a cancellation takes a handler's context away. *)
LEMMA StepLive ==
    ASSUME TInv, NEW r \in Slots, Step(r), req[r].live
    PROVE  publisher' = publisher /\ req'[r].live
<1>0. Idle.live /\ req[r] \in Request
  BY DEF Idle, Handler, TInv, TypeOK
<1>1. ASSUME Respond(r) PROVE req'[r].live
  BY <1>0, <1>1, RespondFields
<1>2. ASSUME NEW out, ThenPublish(r, out) PROVE req'[r].live
  BY <1>0, <1>2 DEF ThenPublish, TInv, TypeOK, Request
<1>3. ASSUME NEW pc, Goto(r, pc) PROVE req'[r].live
  BY <1>0, <1>3 DEF Goto, TInv, TypeOK, Request
<1>4. CASE UpdateWrite(r)
  BY <1>1, <1>3, <1>4 DEF UpdateWrite
<1>5. CASE Refetch(r)
  BY <1>1, <1>2, <1>5 DEF Refetch
<1>6. CASE StatusWrite(r)
  BY <1>1, <1>3, <1>6 DEF StatusWrite
<1>7. CASE StatusRefetch(r)
  BY <1>1, <1>2, <1>7 DEF StatusRefetch
<1>8. CASE FileUpload(r)
  <2>1. ASSUME NEW key, req' = [req EXCEPT ![r].pc = "file.write", ![r].row.file = key]
        PROVE  req'[r].live
    BY <1>0, <2>1 DEF TInv, TypeOK, Request
  <2> QED BY <1>1, <1>8, <2>1 DEF FileUpload
<1>9. CASE FileWrite(r)
  BY <1>1, <1>3, <1>9 DEF FileWrite
<1>10. CASE ParseClaim(r)
  <2>1. ASSUME NEW out, req' = [req EXCEPT ![r].pc = "parse.run",
                                           ![r].row = LocalClaim(req[r].row), ![r].out = out]
        PROVE  req'[r].live
    BY <1>0, <2>1 DEF TInv, TypeOK, Request
  <2> QED BY <1>1, <1>10, <2>1 DEF ParseClaim
<1>11. CASE ParseRun(r)
  <2>1. ASSUME NEW name, req' = [req EXCEPT ![r].pc = "parse.store", ![r].row.name = name,
                                            ![r].row.parsed = TRUE]
        PROVE  req'[r].live
    BY <1>0, <2>1 DEF TInv, TypeOK, Request
  <2> QED BY <1>3, <1>11, <2>1 DEF ParseRun
<1>12. CASE ParseStore(r)
  BY <1>3, <1>12 DEF ParseStore
<1>13. CASE ParseFinish(r)
  BY <1>2, <1>3, <1>13 DEF ParseFinish
<1>14. CASE ParseFail(r)
  BY <1>2, <1>14 DEF ParseFail
<1>15. CASE IngestInsert(r)
  <2>1. ASSUME NEW id, NEW row, ThenAnnounce(r, id, row) PROVE req'[r].live
    BY <2>1 DEF ThenAnnounce, Handler, TInv, TypeOK
  <2> QED BY <1>3, <1>15, <2>1 DEF IngestInsert, AfterFailedInsert
<1>16. CASE IngestCleanup(r)
  BY <1>1, <1>16 DEF IngestCleanup
<1>17. CASE Publish(r)
  <2>1. [req[r] EXCEPT !.out = Tail(req[r].out)].live = req[r].live
    BY <1>0 DEF Request
  <2> DEFINE q == [req[r] EXCEPT !.out = Tail(req[r].out)]
  <2>2. req'[r] = Idle \/ req'[r] = q
    BY <1>17 DEF Publish, TInv, TypeOK
  <2> HIDE DEF q
  <2> QED BY <1>0, <1>17, <2>1, <2>2 DEF Publish, q
<1> QED BY <1>4, <1>5, <1>6, <1>7, <1>8, <1>9, <1>10, <1>11, <1>12, <1>13, <1>14, <1>15, <1>16,
           <1>17 DEF Step

(* The step is no fault, unless an XADD is repeated. *)
OnlyRepeats == \A kind \in AllFaults \ {"repeat"} : ~Spend(kind)

(* Where only XADDs are repeated, every call of the handlers succeeds, and *)
(* finds the row when it is there.                                         *)
LEMMA NoFailure ==
    ASSUME OnlyRepeats, NEW r \in Slots, req[r].live
    PROVE  ~Fails(r) /\ (Exists(req[r].id) => ~Misses(r))
BY DEF OnlyRepeats, AllFaults, Fails, Misses, Affects

(* What one XADD and its repetition add to the stream. *)
LEMMA Appended ==
    ASSUME NEW s \in Seq(Event), NEW e \in Event, NEW t,
           t = Append(s, e) \/ t = s \o <<e, e>>
    PROVE  /\ t \in Seq(Event) /\ Len(t) \in {Len(s) + 1, Len(s) + 2} /\ Len(t) > Len(s)
           /\ \A i \in 1..Len(s) : t[i] = s[i]
           /\ \A i \in Len(s) + 1 .. Len(t) : t[i] = e
<1>1. CASE t = Append(s, e)
  BY <1>1
<1>2. CASE t = s \o <<e, e>>
  <2> DEFINE two == <<e, e>>
  <2>1. two \in Seq(Event) /\ Len(two) = 2 /\ two[1] = e /\ two[2] = e
    OBVIOUS
  <2> HIDE DEF two
  <2>2. /\ s \o two \in Seq(Event) /\ Len(s \o two) = Len(s) + Len(two)
        /\ \A i \in 1 .. Len(s) + Len(two) :
             (s \o two)[i] = IF i <= Len(s) THEN s[i] ELSE two[i - Len(s)]
    BY <2>1, ConcatProperties, Zenon
  <2>3. t = s \o two /\ Len(s) \in Nat
    BY <1>2 DEF two
  <2>4. \A i \in 1 .. Len(s) + 2 : t[i] = IF i <= Len(s) THEN s[i] ELSE two[i - Len(s)]
    BY <2>1, <2>2, <2>3, Zenon
  <2>5. ASSUME NEW i \in 1..Len(s) PROVE t[i] = s[i]
    <3>1. i \in 1 .. Len(s) + 2 /\ i <= Len(s)
      BY <2>3
    <3> QED BY <2>4, <3>1, Zenon
  <2>6. ASSUME NEW i \in Len(s) + 1 .. Len(s) + 2 PROVE t[i] = e
    <3>1. i \in 1 .. Len(s) + 2 /\ ~(i <= Len(s)) /\ (i - Len(s) = 1 \/ i - Len(s) = 2)
      BY <2>3
    <3>2. t[i] = two[i - Len(s)]
      BY <2>4, <3>1, Zenon
    <3> QED BY <2>1, <3>1, <3>2
  <2>7. Len(t) = Len(s) + 2
    BY <2>1, <2>2, <2>3
  <2> QED BY <2>2, <2>3, <2>5, <2>6, <2>7
<1> QED BY <1>1, <1>2

(* t is s with copies of e at its end. *)
Lengthens(s, t, e) ==
    /\ t \in Seq(Event) /\ Len(t) > Len(s)
    /\ \A i \in 1..Len(s) : t[i] = s[i]
    /\ \A i \in Len(s) + 1 .. Len(t) : t[i] = e

LEMMA Lengthened ==
    ASSUME NEW s \in Seq(Event), NEW e \in Event
    PROVE  Lengthens(s, Append(s, e), e) /\ Lengthens(s, s \o <<e, e>>, e)
<1>1. ASSUME NEW t, t = Append(s, e) \/ t = s \o <<e, e>>
      PROVE  Lengthens(s, t, e)
  <2>1. t \in Seq(Event) /\ Len(t) > Len(s)
    BY <1>1, Appended, SMTT(30)
  <2>2. \A i \in 1..Len(s) : t[i] = s[i]
    BY <1>1, Appended, SMTT(30)
  <2>3. \A i \in Len(s) + 1 .. Len(t) : t[i] = e
    BY <1>1, Appended, SMTT(30)
  <2> QED BY <2>1, <2>2, <2>3 DEF Lengthens
<1> QED BY <1>1, Zenon

LEMMA EntriesAdded ==
    ASSUME TInv, NEW e \in Event, stream' = Append(stream, e) \/ stream' = stream \o <<e, e>>
    PROVE  /\ stream' \in Seq(Event) /\ Len(stream') > Len(stream)
           /\ \A i \in 1..Len(stream) : stream'[i] = stream[i]
           /\ \A i \in Len(stream) + 1 .. Len(stream') : stream'[i] = e
<1>1. stream \in Seq(Event)
  BY DEF TInv, TypeOK
<1>2. Lengthens(stream, stream', e)
  BY <1>1, Lengthened, Zenon
<1> QED BY <1>2 DEF Lengthens

LEMMA PublishTold ==
    ASSUME OneClient, OnlyRepeats, TInv, LogInv, NEW r \in Slots, Publish(r)
    PROVE  LogInv'
<1> DEFINE out == req[r].out
<1>1. /\ out \in Seq(Event) /\ out # << >> /\ stream \in Seq(Event) /\ Head(out) \in Event
      /\ publisher /\ req[r].live /\ UNCHANGED <<rows, used, publisher>>
  BY DEF Publish, TInv, TypeOK, Request, LogInv
<1>2. stream' = Append(stream, Head(out)) \/ stream' = stream \o <<Head(out), Head(out)>>
  BY <1>1, NoFailure DEF Publish
<1>3. /\ stream' \in Seq(Event) /\ Len(stream') > Len(stream)
      /\ \A i \in 1..Len(stream) : stream'[i] = stream[i]
      /\ \A i \in Len(stream) + 1 .. Len(stream') : stream'[i] = Head(out)
  <2> DEFINE e == Head(out)
  <2>1. e \in Event /\ (stream' = Append(stream, e) \/ stream' = stream \o <<e, e>>)
    BY <1>1, <1>2
  <2> HIDE DEF e
  <2>2. /\ stream' \in Seq(Event) /\ Len(stream') > Len(stream)
        /\ \A i \in 1..Len(stream) : stream'[i] = stream[i]
        /\ \A i \in Len(stream) + 1 .. Len(stream') : stream'[i] = e
    BY <2>1, EntriesAdded
  <2> QED BY <2>2 DEF e
<1>4. /\ req'[r].out = Tail(out)
      /\ \A j : Unannounced(r, j) => Unannounced(r, j)'
  <2> DEFINE q == [req[r] EXCEPT !.out = Tail(out)]
  <2>1. q.out = Tail(out) /\ q.pc = req[r].pc /\ q.id = req[r].id
    BY DEF TInv, TypeOK, Request
  <2>2. \/ req'[r] = Idle /\ req[r].pc = "done" /\ Tail(out) = << >>
        \/ req'[r] = q
    BY DEF Publish, TInv, TypeOK
  <2> HIDE DEF q, out
  <2> QED BY <2>1, <2>2, IdleFields DEF Unannounced
<1>5. ASSUME NEW j \in used PROVE Told(j)'
  <2>1. Told(j) /\ \A s \in Slots : s = r
    BY <1>5 DEF LogInv, OneClient
  <2>2. CASE Unannounced(r, j)
    BY <1>4, <2>2 DEF Told
  <2>3. CASE LastIn(out, j, rows[j].status) \/ (Silent(out, j) /\ LastIn(stream, j, rows[j].status))
    <3>1. \/ LastIn(Tail(out), j, rows[j].status)
          \/ Silent(Tail(out), j) /\ LastIn(stream', j, rows[j].status)
      <4> HIDE DEF out
      <4> QED BY <1>1, <1>3, <2>3, HandedOver
    <3> QED BY <1>1, <1>4, <2>1, <3>1 DEF Told
  <2> QED BY <2>1, <2>2, <2>3 DEF Told
<1>6. Step(r)
  BY DEF Step
<1> QED BY <1>1, <1>5, <1>6, StepLive DEF LogInv, OneClient

LEMMA LogArrive ==
    ASSUME OneClient, TInv, FinalInv, LogInv, NEW r \in Slots, Arrive(r)
    PROVE  LogInv'
<1>0. /\ req[r].out = << >> /\ req[r].pc = "idle" /\ publisher' = publisher /\ stream' = stream
      /\ \A j : ~Unannounced(r, j)
  BY IdleFields DEF Arrive, Create, Delete, UpdateRead, StatusRead, FileRead, ParseRead,
                    IngestUpload, Accept, Unannounced
<1>1. ASSUME NEW pc, NEW id, NEW row, NEW old, NEW out,
             req' = [req EXCEPT ![r] = Handler(pc, id, row, old, out)]
      PROVE  req'[r].out = out /\ req'[r].live
  BY <1>1 DEF Handler, TInv, TypeOK
<1>2. ASSUME NEW pc, NEW id, NEW row, NEW old,
             req' = [req EXCEPT ![r] = Handler(pc, id, row, old, << >>)], UNCHANGED <<rows, used>>
      PROVE  LogInv'
  <2>1. req'[r].out = << >> /\ req'[r].live
    BY <1>1, <1>2
  <2>2. \A j \in used : ~Unannounced(r, j) /\ rows'[j].status = rows[j].status
    BY <1>0, <1>2
  <2> QED BY <1>0, <1>2, <2>1, <2>2, ToldKept
<1>3. CASE Create(r)
  <2>1. PICK id \in Ids \ used, name \in Names,
             file \in {NoFile, Foreign} \cup {rows[i].file : i \in Ids} :
          LET row == [status |-> "pending", name |-> name, file |-> file, parsed |-> FALSE]
          IN  /\ Insert(id, row)
              /\ req' = [req EXCEPT ![r] = Handler("done", id, row, "absent", <<Created(id, row)>>)]
    BY <1>3 DEF Create
  <2>2. PICK row : /\ Insert(id, row)
                   /\ req' = [req EXCEPT ![r] = Handler("done", id, row, "absent", <<Created(id, row)>>)]
    BY <2>1
  <2>3. req'[r].out = <<Created(id, row)>> /\ req'[r].live
    BY <1>1, <2>2
  <2>4. /\ used' = used \cup {id} /\ rows'[id] = row
        /\ \A j \in Ids \ {id} : rows'[j] = rows[j]
    BY <2>2 DEF Insert, TInv, TypeOK
  <2>5. About(req'[r].out, id) /\ LastIn(req'[r].out, id, rows'[id].status)
    BY <2>3, <2>4, Announcements
  <2>6. /\ used' \subseteq used \cup {id}
        /\ \A j \in used \ {id} : ~Unannounced(r, j) /\ rows'[j].status = rows[j].status
    BY <1>0, <2>4 DEF TInv, TypeOK
  <2> QED BY <1>0, <2>3, <2>5, <2>6, Announces
<1>4. CASE Delete(r)
  <2>1. PICK id \in Ids :
          DeleteRow(id) /\ req' = [req EXCEPT ![r] = Handler("done", id, NoRow, "absent", <<Deleted(id)>>)]
    BY <1>4 DEF Delete
  <2>2. req'[r].out = <<Deleted(id)>> /\ req'[r].live
    BY <1>1, <2>1
  <2>3. used' = used /\ rows'[id].status = "absent" /\ \A j \in Ids \ {id} : rows'[j] = rows[j]
    BY <1>4, <2>1, IdleFields DEF Delete, DeleteRow, TInv, TypeOK
  <2>4. About(req'[r].out, id) /\ LastIn(req'[r].out, id, rows'[id].status)
    BY <2>2, <2>3, Announcements
  <2>5. /\ used' \subseteq used \cup {id}
        /\ \A j \in used \ {id} : ~Unannounced(r, j) /\ rows'[j].status = rows[j].status
    BY <1>0, <2>3 DEF TInv, TypeOK
  <2> QED BY <1>0, <2>2, <2>4, <2>5, Announces
<1>5. CASE UpdateRead(r)
  BY <1>2, <1>5 DEF UpdateRead
<1>6. CASE StatusRead(r)
  BY <1>2, <1>6 DEF StatusRead
<1>7. CASE FileRead(r)
  BY <1>2, <1>7 DEF FileRead
<1>8. CASE ParseRead(r)
  BY <1>2, <1>8 DEF ParseRead
<1>9. CASE IngestUpload(r)
  BY <1>2, <1>9 DEF IngestUpload
<1> QED BY <1>3, <1>4, <1>5, <1>6, <1>7, <1>8, <1>9 DEF Arrive

LEMMA LogStep ==
    ASSUME OneClient, OnlyRepeats, TInv, FinalInv, AloneInv, LogInv,
           NEW r \in Slots, Step(r)
    PROVE  LogInv'
<1> DEFINE id == req[r].id
<1>0. /\ req[r].pc \in OnRow => id \in Ids /\ Unshared(r) /\ ~Misses(r)
      /\ req[r].live /\ req'[r].live /\ publisher' = publisher /\ ~Fails(r)
      /\ used \subseteq Ids
  <2>1. {"idle", "ingest.insert", "ingest.cleanup"} \cap OnRow = {}
    BY DEF OnRow, ParsingPcs
  <2>2. req[r].live
    BY DEF LogInv
  <2> QED BY <2>1, <2>2, NoFailure, StepLive DEF AloneInv, TInv, TypeOK, HasId, Unshared
<1>1. ASSUME NEW pc, pc # "status.refetch", req[r].pc = pc PROVE \A j : ~Unannounced(r, j)
  BY <1>1 DEF Unannounced
(* Silent steps. *)
<1>2. ASSUME req[r].out = << >>, req'[r].out = << >>, UNCHANGED <<used, stream>>,
             \A j : ~Unannounced(r, j), \A j \in Ids : rows'[j].status = rows[j].status
      PROVE  LogInv'
  BY <1>0, <1>2, ToldKept
(* The status of one row changes, if any, and is announced. *)
<1>3. ASSUME NEW i \in Ids, NEW out, req[r].out = << >>, req'[r].out = out,
             About(out, i), LastIn(out, i, rows'[i].status),
             UNCHANGED stream, used' \subseteq used \cup {i},
             \A j \in Ids \ {i} : ~Unannounced(r, j) /\ rows'[j].status = rows[j].status
      PROVE  LogInv'
  BY <1>0, <1>3, Announces
<1>4. CASE UpdateWrite(r)
  <2>1. /\ At(r, "update.write") /\ id \in Ids /\ req[r].row = rows[id] /\ ~Misses(r)
        /\ UNCHANGED <<used, stream>>
    BY <1>0, <1>4 DEF UpdateWrite, At, OnRow, Unshared
  <2>2. PICK name : WriteWholeRow(id, [req[r].row EXCEPT !.name = name]) /\ Goto(r, "refetch")
    BY <1>4, <2>1 DEF UpdateWrite
  <2>3. [req[r].row EXCEPT !.name = name].status = rows[id].status
    BY <2>1 DEF TInv, TypeOK, Row
  <2>4. \A j \in Ids : rows'[j].status = rows[j].status
    <3> DEFINE row == [req[r].row EXCEPT !.name = name]
    <3>1. row.status = rows[id].status /\ WriteWholeRow(id, row)
      BY <2>2, <2>3
    <3> HIDE DEF row
    <3>2. rows'[id] = row /\ \A j \in Ids \ {id} : rows'[j] = rows[j]
      BY <2>1, <3>1, Written
    <3> QED BY <3>1, <3>2
  <2> QED BY <1>1, <1>2, <2>1, <2>2, <2>4, GotoFields DEF At
<1>5. CASE Refetch(r)
  <2>1. /\ At(r, "refetch") /\ id \in Ids /\ ThenPublish(r, <<Updated(id, rows[id])>>)
        /\ UNCHANGED <<used, stream, rows>>
    BY <1>0, <1>5 DEF Refetch, At, OnRow
  <2>2. req[r].out = << >> /\ req'[r].out = <<Updated(id, rows[id])>> /\ \A j : ~Unannounced(r, j)
    BY <1>1, <2>1, PublishFields DEF At
  <2>3. About(req'[r].out, id) /\ LastIn(req'[r].out, id, rows'[id].status)
    BY <2>1, <2>2, Announcements
  <2> QED BY <1>3, <2>1, <2>2, <2>3
<1>6. CASE StatusWrite(r)
  <2>1. /\ At(r, "status.write") /\ id \in Ids /\ UNCHANGED <<used, stream>>
        /\ WriteStatus(id, req[r].row.status) /\ Goto(r, "status.refetch")
    BY <1>0, <1>6 DEF StatusWrite, At, OnRow
  <2>2. /\ req'[r].pc = "status.refetch" /\ req'[r].id = id /\ req'[r].out = << >>
        /\ req[r].out = << >> /\ \A j : ~Unannounced(r, j)
    BY <1>1, <2>1, GotoFields DEF At
  <2>3. \A j \in used : j = id \/ rows'[j].status = rows[j].status
    BY <1>0, <2>1, Written
  <2> QED BY <1>0, <2>1, <2>2, <2>3, ToldKept
<1>7. CASE StatusRefetch(r)
  <2>1. /\ At(r, "status.refetch") /\ id \in Ids /\ rows[id].status = req[r].row.status
        /\ ThenPublish(r, <<StatusChanged(id, req[r].old, req[r].row.status)>>)
        /\ UNCHANGED <<used, stream, rows>>
    BY <1>0, <1>7 DEF StatusRefetch, At, OnRow, Unshared
  <2>2. \A j \in Ids \ {id} : ~Unannounced(r, j)
    BY DEF Unannounced
  <2>3. /\ req[r].out = << >>
        /\ req'[r].out = <<StatusChanged(id, req[r].old, req[r].row.status)>>
    BY <2>1, PublishFields DEF At
  <2>4. About(req'[r].out, id) /\ LastIn(req'[r].out, id, rows'[id].status)
    BY <2>1, <2>3, Announcements
  <2> QED BY <1>3, <2>1, <2>2, <2>3, <2>4
<1>8. CASE FileUpload(r)
  <2>1. PICK key : req' = [req EXCEPT ![r].pc = "file.write", ![r].row.file = key]
    BY <1>0, <1>8 DEF FileUpload
  <2>2. req'[r].out = req[r].out /\ At(r, "file.upload") /\ UNCHANGED <<used, stream, rows>>
    BY <1>8, <2>1 DEF FileUpload, TInv, TypeOK, Request
  <2> QED BY <1>1, <1>2, <2>2 DEF At
<1>9. CASE FileWrite(r)
  <2>1. /\ At(r, "file.write") /\ id \in Ids /\ UNCHANGED <<used, stream>>
        /\ WriteFileURL(id, req[r].row.file) /\ Goto(r, "refetch")
    BY <1>0, <1>9 DEF FileWrite, At, OnRow
  <2>2. \A j \in Ids : rows'[j].status = rows[j].status
    BY <2>1, Written
  <2> QED BY <1>1, <1>2, <2>1, <2>2, GotoFields DEF At
<1>10. CASE ParseClaim(r)
  <2>1. At(r, "parse.claim") /\ id \in Ids /\ UNCHANGED <<used, stream>>
    BY <1>0, <1>10 DEF ParseClaim, At, OnRow
  <2>2. CASE Respond(r) /\ UNCHANGED rows
    BY <1>1, <1>2, <2>1, <2>2, RespondFields, IdleFields DEF At
  <2>3. ASSUME WriteStatus(id, "processing"),
               req' = [req EXCEPT ![r].pc = "parse.run", ![r].row = LocalClaim(req[r].row),
                                  ![r].out = <<StatusChanged(id, req[r].old, "processing")>>]
        PROVE  LogInv'
    <3>1. req'[r].out = <<StatusChanged(id, req[r].old, "processing")>>
      BY <2>3 DEF TInv, TypeOK, Request
    <3>2. rows'[id].status = "processing" /\ \A j \in Ids \ {id} : rows'[j] = rows[j]
      BY <2>1, <2>3, Written
    <3>3. ASSUME NEW old PROVE /\ About(<<StatusChanged(id, old, "processing")>>, id)
                               /\ LastIn(<<StatusChanged(id, old, "processing")>>, id, "processing")
      BY Announcements
    <3>4. About(req'[r].out, id) /\ LastIn(req'[r].out, id, rows'[id].status)
      BY <3>1, <3>2, <3>3
    <3>5. req[r].out = << >> /\ \A j : ~Unannounced(r, j)
      BY <1>1, <2>1 DEF At
    <3> QED BY <1>3, <2>1, <3>2, <3>4, <3>5
  <2> QED BY <1>10, <2>2, <2>3 DEF ParseClaim
<1>11. CASE ParseRun(r)
  <2>1. At(r, "parse.run") /\ UNCHANGED <<used, stream, rows>>
    BY <1>11 DEF ParseRun
  <2>2. ASSUME NEW name, req' = [req EXCEPT ![r].pc = "parse.store", ![r].row.name = name,
                                            ![r].row.parsed = TRUE]
        PROVE  req'[r].out = req[r].out
    BY <2>2 DEF TInv, TypeOK, Request
  <2>3. req'[r].out = req[r].out
    BY <1>11, <2>2, GotoFields DEF ParseRun
  <2> QED BY <1>1, <1>2, <2>1, <2>3 DEF At
<1>12. CASE ParseStore(r)
  <2>1. /\ At(r, "parse.store") /\ id \in Ids /\ rows[id].status = req[r].row.status
        /\ WriteWholeRow(id, req[r].row) /\ Goto(r, "parse.finish") /\ UNCHANGED <<used, stream>>
    BY <1>0, <1>12 DEF ParseStore, At, OnRow, ParsingPcs, Unshared, Miswritten, Parsing
  <2>2. \A j \in Ids : rows'[j].status = rows[j].status
    BY <2>1, Written
  <2> QED BY <1>1, <1>2, <2>1, <2>2, GotoFields DEF At
<1>13. ASSUME At(r, "parse.finish") \/ At(r, "parse.fail"), NEW status, WriteStatus(id, status),
              NEW out, ThenPublish(r, out), About(out, id), LastIn(out, id, status),
              UNCHANGED <<used, stream>>
       PROVE  LogInv'
  <2>1. id \in Ids /\ req[r].out = << >> /\ \A j : ~Unannounced(r, j)
    BY <1>0, <1>1, <1>13 DEF At, OnRow, ParsingPcs
  <2>2. rows'[id].status = status /\ \A j \in Ids \ {id} : rows'[j] = rows[j]
    BY <1>13, <2>1, Written
  <2> QED BY <1>3, <1>13, <2>1, <2>2, PublishFields
<1>14. CASE ParseFinish(r)
  <2>1. /\ At(r, "parse.finish") /\ WriteStatus(id, "parsed") /\ UNCHANGED <<used, stream>>
        /\ ThenPublish(r, <<StatusChanged(id, "processing", "parsed"), Parsed(id)>>)
    BY <1>0, <1>14 DEF ParseFinish, At, OnRow, ParsingPcs
  <2> QED BY <1>13, <2>1, Announcements
<1>15. CASE ParseFail(r)
  <2>1. /\ At(r, "parse.fail") /\ WriteStatus(id, "failed") /\ UNCHANGED <<used, stream>>
        /\ ThenPublish(r, <<StatusChanged(id, "processing", "failed")>>)
    BY <1>0, <1>15 DEF ParseFail, At, OnRow, ParsingPcs
  <2> QED BY <1>13, <2>1, Announcements
<1>16. CASE IngestInsert(r)
  <2>0. \E i \in Ids \ used : \E row : Insert(i, row) /\ ThenAnnounce(r, i, row)
    BY <1>0, <1>16 DEF IngestInsert
  <2>1. PICK i \in Ids \ used : \E row : Insert(i, row) /\ ThenAnnounce(r, i, row)
    BY <2>0
  <2>2. PICK row : Insert(i, row) /\ ThenAnnounce(r, i, row)
    BY <2>1
  <2>3. /\ used' = used \cup {i} /\ rows'[i] = row /\ stream' = stream
        /\ \A j \in Ids \ {i} : rows'[j] = rows[j]
    BY <1>16, <2>2 DEF IngestInsert, Insert, TInv, TypeOK
  <2> DEFINE two == <<Created(i, row), StatusChanged(i, "pending", row.status)>>
             out == two \o IF row.status = "parsed" THEN <<Parsed(i)>> ELSE << >>
  <2>4. req'[r].out = out
    BY <2>2 DEF ThenAnnounce, Handler, TInv, TypeOK
  <2>5. About(out, i) /\ LastIn(out, i, row.status)
    <3>1. CASE row.status = "parsed"
      <4>1. out = two \o <<Parsed(i)>>
        BY <3>1
      <4> QED BY <4>1, IngestAnnouncements
    <3>2. CASE row.status # "parsed"
      <4>1. out = two \o << >>
        BY <3>2
      <4> QED BY <4>1, IngestAnnouncements
    <3> QED BY <3>1, <3>2
  <2> HIDE DEF out
  <2> QED BY <1>1, <1>3, <1>16, <2>3, <2>4, <2>5 DEF IngestInsert, At
<1>17. CASE IngestCleanup(r)
  <2>1. At(r, "ingest.cleanup") /\ Respond(r) /\ UNCHANGED <<used, stream, rows>>
    BY <1>17 DEF IngestCleanup
  <2> QED BY <1>1, <1>2, <2>1, RespondFields, IdleFields DEF At
<1>18. CASE Publish(r)
  BY <1>18, PublishTold
<1> QED BY <1>4, <1>5, <1>6, <1>7, <1>8, <1>9, <1>10, <1>11, <1>12, <1>14, <1>15, <1>16, <1>17,
           <1>18 DEF Step

LEMMA NextLog ==
    ASSUME OneClient, OnlyRepeats, TInv, FinalInv, AloneInv, LogInv, [Next]_vars
    PROVE  LogInv'
<1>1. ASSUME NEW r \in Slots, Arrive(r) PROVE LogInv'
  BY <1>1, LogArrive
<1>2. ASSUME NEW r \in Slots, Step(r) PROVE LogInv'
  BY <1>2, LogStep
<1>3. ~Crash /\ \A r \in Slots : ~Cancel(r) /\ ~ArrivalLost(r) /\ ~ReplyLost(r)
  BY DEF Crash, Cancel, ArrivalLost, ReplyLost, OnlyRepeats, AllFaults
<1>4. CASE UNCHANGED vars
  BY <1>4 DEF vars, LogInv, Told, Unannounced
<1> QED BY <1>1, <1>2, <1>3, <1>4 DEF Next

LEMMA InitLog == "redis" \notin Faults /\ Init => LogInv
<1>1. Idle.live
  BY DEF Idle, Handler
<1> QED BY <1>1 DEF Init, LogInv, PublisherAtStart

LEMMA LogTells == LogInv => LogDescribesTable
BY IdleFields, NothingTold
   DEF LogInv, LogDescribesTable, Told, Unannounced, LastAnnounced, LastIn

(* Served one after the other, with every call answered, requests tell the *)
(* stream everything: when none is running the last event that carries a   *)
(* status carries the one in the table, however often XADD was repeated.   *)
THEOREM StreamTells ==
    ASSUME OneClient, Faults \subseteq {"repeat"}
    PROVE  Spec => []LogDescribesTable
<1>1. Init => LogInv
  <2>1. "redis" \notin Faults
    OBVIOUS
  <2> QED BY <2>1, InitLog
<1>2. TInv /\ FinalInv /\ AloneInv /\ LogInv /\ [Next]_vars => LogInv'
  <2>1. OnlyRepeats
    BY DEF OnlyRepeats, Spend
  <2> QED BY <2>1, NextLog
<1>3. LogInv => LogDescribesTable
  BY LogTells
<1> QED BY <1>1, <1>2, <1>3, AloneBehaviour, PTL DEF Spec

-----------------------------------------------------------------------------
(* The last fault is the last. *)
LEMMA FaultsLast ==
    ASSUME TInv, NEW r \in Slots, Arrive(r) \/ Step(r)
    PROVE  /\ faults' = faults \/ faults' = faults + 1
           /\ faults = MaxFaults => faults' = faults
<1>1. /\ Succeeds(r) \/ Hits(r) => faults' = faults
      /\ Fails(r) \/ Misses(r) \/ Spend("repeat") =>
            faults' = faults \/ (faults < MaxFaults /\ faults' = faults + 1)
  BY DEF Succeeds, Hits, Fails, Misses, Spend
<1>2. faults' = faults \/ (faults < MaxFaults /\ faults' = faults + 1)
  <2>1. CASE Arrive(r)
    BY <2>1 DEF Arrive, Create, Delete, UpdateRead, StatusRead, FileRead, ParseRead, IngestUpload
  <2>2. CASE UpdateWrite(r) \/ Refetch(r) \/ StatusWrite(r) \/ StatusRefetch(r)
    BY <1>1, <2>2 DEF UpdateWrite, Refetch, StatusWrite, StatusRefetch
  <2>3. CASE FileUpload(r) \/ FileWrite(r) \/ IngestInsert(r) \/ IngestCleanup(r)
    BY <1>1, <2>3 DEF FileUpload, FileWrite, IngestInsert, IngestCleanup
  <2>4. CASE ParseClaim(r) \/ ParseRun(r) \/ ParseStore(r)
    BY <1>1, <2>4 DEF ParseClaim, ParseRun, ParseStore
  <2>5. CASE ParseFinish(r) \/ ParseFail(r)
    BY <1>1, <2>5 DEF ParseFinish, ParseFail
  <2>6. CASE Publish(r)
    BY <1>1, <2>6 DEF Publish
  <2> QED BY <2>1, <2>2, <2>3, <2>4, <2>5, <2>6 DEF Step
<1> QED BY <1>2 DEF TInv, TypeOK

-----------------------------------------------------------------------------
(* Uploads that are undone.  Where no file is replaced and no resume       *)
(* deleted, a row keeps its file, and every handler that works on a row    *)
(* knows the file of that row; only UploadAndParse holds one of its own.   *)

FilePcs == {"file.upload", "file.write"}

SameFile(r) == req[r].id \in used /\ req[r].row.file = rows[req[r].id].file

HoldInv ==
    /\ \A id \in Ids \ used : rows[id] = NoRow
    /\ \A r \in Slots :
         /\ req[r].pc \notin FilePcs
         /\ req[r].pc = "idle" => req[r].row.file = NoFile
         /\ req[r].pc \notin {"idle"} \cup IngestPcs => SameFile(r)

RowsKeep ==
    /\ \A id \in used : id \in used' /\ rows'[id].file = rows[id].file
    /\ \A id \in Ids \ used' : rows'[id] = NoRow

(* What OrphansByFailure says of a step. *)
Undone ==
    \A key \in Orphans' \ Orphans :
        \/ key \notin objects /\ faults' > faults
        \/ \E r \in Slots :
             /\ req[r].pc = "ingest.cleanup" /\ req[r].row.file = key
             /\ ~req[r].live \/ faults' > faults

LEMMA PcSets ==
    /\ "idle" \notin IngestPcs \cup FilePcs
    /\ IngestPcs = {"ingest.insert", "ingest.cleanup"} /\ IngestPcs \cap FilePcs = {}
BY DEF IngestPcs, FilePcs

LEMMA FaultSpent ==
    ASSUME TInv, NEW kind, Spend(kind)
    PROVE  faults' > faults
BY DEF Spend, TInv, TypeOK

LEMMA StillHeld ==
    ASSUME HoldInv, RowsKeep, NEW r \in Slots, OthersKept(r),
           \/ req'[r] = Idle
           \/ req'[r].pc \in IngestPcs
           \/ req'[r].pc \notin FilePcs \cup {"idle"} /\ SameFile(r)'
    PROVE  HoldInv'
BY PcSets, IdleFields DEF HoldInv, RowsKeep, OthersKept, SameFile

(* The files of the rows stay in reach. *)
LEMMA RowsReach ==
    ASSUME SentinelAssumption, TInv, HoldInv, RowsKeep, NEW key \in Objects,
           NEW id \in Ids, rows[id].file = key
    PROVE  rows'[id].file = key
BY IdleFields DEF HoldInv, RowsKeep, SentinelAssumption

LEMMA NothingDropped ==
    ASSUME SentinelAssumption, TInv, HoldInv, RowsKeep, NEW r \in Slots, OthersKept(r),
           objects' \subseteq objects, req[r].pc \notin IngestPcs
    PROVE  Undone
<1> SUFFICES ASSUME NEW key \in Orphans', key \notin Orphans PROVE FALSE
  BY DEF Undone
<1>1. key \in objects /\ key \in Objects
  BY DEF Orphans, TInv, TypeOK
<1>2. \A id \in Ids : rows'[id].file # key
  BY DEF Orphans
<1>3. \A s \in Slots : req'[s].row.file # key
  BY DEF Orphans
<1>4. \A id \in Ids : rows[id].file # key
  BY <1>1, <1>2, RowsReach
<1>5. \A s \in Slots : req[s].row.file # key
  <2> SUFFICES ASSUME NEW s \in Slots, req[s].row.file = key PROVE FALSE
    OBVIOUS
  <2>1. s = r
    BY <1>3 DEF OthersKept
  <2>2. req[r].pc # "idle"
    BY <1>1, <2>1 DEF HoldInv, SentinelAssumption
  <2>3. SameFile(r) /\ used \subseteq Ids
    BY <2>2 DEF HoldInv, TInv, TypeOK
  <2> QED BY <1>4, <2>1, <2>3 DEF SameFile
<1> QED BY <1>1, <1>4, <1>5 DEF Orphans

(* A handler outside UploadAndParse goes on with the row it read, or ends. *)
LEMMA GoesOn ==
    ASSUME SentinelAssumption, TInv, HoldInv, NEW r \in Slots, OthersKept(r),
           req[r].pc \notin IngestPcs \cup {"idle"}, UNCHANGED <<used, objects>>,
           \/ req'[r] = Idle
           \/ /\ req'[r].pc \notin IngestPcs \cup FilePcs \cup {"idle"}
              /\ req'[r].id = req[r].id /\ req'[r].row.file = req[r].row.file,
           \/ UNCHANGED rows
           \/ \E status : WriteStatus(req[r].id, status)
           \/ \E row : row.file = req[r].row.file /\ WriteWholeRow(req[r].id, row)
    PROVE  HoldInv' /\ Undone
<1> DEFINE id == req[r].id
<1>1. id \in used /\ used \subseteq Ids /\ req[r].row.file = rows[id].file
  BY DEF HoldInv, SameFile, TInv, TypeOK
<1>2. \A i \in Ids : rows'[i].file = rows[i].file /\ (i # id => rows'[i] = rows[i])
  <2>1. ASSUME NEW status, WriteStatus(id, status)
        PROVE  \A i \in Ids : rows'[i].file = rows[i].file /\ (i # id => rows'[i] = rows[i])
    BY <2>1 DEF WriteStatus, TInv, TypeOK, Row
  <2>2. ASSUME NEW row, row.file = req[r].row.file, WriteWholeRow(id, row)
        PROVE  \A i \in Ids : rows'[i].file = rows[i].file /\ (i # id => rows'[i] = rows[i])
    BY <1>1, <2>2 DEF WriteWholeRow, TInv, TypeOK
  <2> QED BY <2>1, <2>2
<1>3. RowsKeep
  BY <1>1, <1>2 DEF RowsKeep, HoldInv
<1>4. HoldInv'
  BY <1>1, <1>2, <1>3, StillHeld DEF SameFile
<1> QED BY <1>3, <1>4, NothingDropped

(* An INSERT under an id that was never drawn. *)
LEMMA InsertKeeps ==
    ASSUME TInv, HoldInv, NEW i \in Ids \ used, NEW row, Insert(i, row)
    PROVE  RowsKeep /\ rows'[i] = row /\ i \in used'
BY DEF Insert, RowsKeep, HoldInv, TInv, TypeOK

LEMMA HoldArrive ==
    ASSUME SentinelAssumption, Ops \cap {"delete", "upload"} = {}, TInv, FinalInv, HoldInv,
           NEW r \in Slots, Arrive(r)
    PROVE  HoldInv' /\ Undone
<1>0. req[r].pc = "idle" /\ "idle" \notin IngestPcs
  BY IdleFields, PcSets DEF Arrive, Create, Delete, UpdateRead, StatusRead, FileRead, ParseRead,
                            IngestUpload, Accept
<1>1. ASSUME NEW pc, NEW id, NEW row, NEW old, NEW out,
             req' = [req EXCEPT ![r] = Handler(pc, id, row, old, out)]
      PROVE  OthersKept(r) /\ req'[r].pc = pc /\ req'[r].id = id /\ req'[r].row = row
  BY <1>1 DEF Handler, OthersKept, TInv, TypeOK
<1>2. ASSUME NEW pc \in {"update.write", "status.write", "parse.claim"}, NEW id \in Ids, NEW row,
             NEW old, req' = [req EXCEPT ![r] = Handler(pc, id, row, old, << >>)],
             Exists(id), row.file = rows[id].file, UNCHANGED <<rows, used, objects>>
      PROVE  HoldInv' /\ Undone
  <2>1. OthersKept(r) /\ req'[r].pc = pc /\ req'[r].id = id /\ req'[r].row = row
    BY <1>1, <1>2
  <2>2. RowsKeep /\ id \in used
    BY <1>2 DEF RowsKeep, HoldInv, FinalInv
  <2>3. pc \notin FilePcs \cup {"idle"}
    BY <1>2 DEF FilePcs
  <2>4. HoldInv'
    BY <1>2, <2>1, <2>2, <2>3, StillHeld DEF SameFile
  <2> QED BY <1>0, <1>2, <2>1, <2>2, <2>4, NothingDropped
<1>3. CASE Create(r)
  <2>1. PICK id \in Ids \ used : \E row :
          /\ Insert(id, row)
          /\ req' = [req EXCEPT ![r] = Handler("done", id, row, "absent", <<Created(id, row)>>)]
    BY <1>3 DEF Create
  <2>2. PICK row :
          /\ Insert(id, row)
          /\ req' = [req EXCEPT ![r] = Handler("done", id, row, "absent", <<Created(id, row)>>)]
    BY <2>1
  <2>3. OthersKept(r) /\ req'[r].pc = "done" /\ req'[r].id = id /\ req'[r].row = row
    BY <1>1, <2>2
  <2>4. RowsKeep /\ rows'[id] = row /\ id \in used'
    BY <2>2, InsertKeeps
  <2>5. "done" \notin FilePcs \cup {"idle"}
    BY DEF FilePcs
  <2>6. HoldInv'
    BY <2>3, <2>4, <2>5, StillHeld DEF SameFile
  <2> QED BY <1>0, <1>3, <2>3, <2>4, <2>6, NothingDropped DEF Create
<1>4. CASE Delete(r) \/ FileRead(r)
  BY <1>4 DEF Delete, FileRead, Accept
<1>5. CASE UpdateRead(r)
  BY <1>2, <1>5 DEF UpdateRead
<1>6. CASE StatusRead(r)
  <2>1. PICK id \in Ids, to \in Statuses \cup {"unknown"} :
          /\ Exists(id)
          /\ req' = [req EXCEPT ![r] = Handler("status.write", id, [rows[id] EXCEPT !.status = to],
                                               rows[id].status, << >>)]
    BY <1>6 DEF StatusRead
  <2> DEFINE row == [rows[id] EXCEPT !.status = to]
  <2>2. row.file = rows[id].file /\ UNCHANGED <<rows, used, objects>>
    BY <1>6 DEF StatusRead, TInv, TypeOK, Row
  <2>3. req' = [req EXCEPT ![r] = Handler("status.write", id, row, rows[id].status, << >>)]
    BY <2>1
  <2> HIDE DEF row
  <2> QED BY <1>2, <2>1, <2>2, <2>3
<1>7. CASE ParseRead(r)
  BY <1>2, <1>7 DEF ParseRead
<1>8. CASE IngestUpload(r)
  <2>1. PICK key \in Objects :
          /\ StoreFile(key)
          /\ req' = [req EXCEPT ![r] = Handler("ingest.insert", NoId, [NoRow EXCEPT !.file = key],
                                               "absent", << >>)]
    BY <1>8 DEF IngestUpload
  <2>2. [NoRow EXCEPT !.file = key].file = key
    BY DEF NoRow
  <2>3. /\ OthersKept(r) /\ req'[r].pc = "ingest.insert" /\ req'[r].row.file = key
        /\ UNCHANGED <<rows, used>>
    BY <1>1, <1>8, <2>1, <2>2 DEF IngestUpload
  <2>4. RowsKeep
    BY <2>3 DEF RowsKeep, HoldInv
  <2>5. HoldInv'
    BY <2>3, <2>4, PcSets, StillHeld
  <2>6. Undone
    <3> SUFFICES ASSUME NEW k \in Orphans' PROVE k \in Orphans
      BY DEF Undone
    <3>1. k # key
      BY <2>3 DEF Orphans
    <3>2. k \in objects /\ k \in Objects
      BY <2>1, <3>1 DEF Orphans, StoreFile, TInv, TypeOK
    <3>3. req[r].row.file # k
      BY <1>0, <3>2 DEF HoldInv, SentinelAssumption
    <3> QED BY <2>3, <3>2, <3>3 DEF Orphans, OthersKept
  <2> QED BY <2>5, <2>6
<1> QED BY <1>3, <1>4, <1>5, <1>6, <1>7, <1>8 DEF Arrive

(* UploadAndParse after its upload: the INSERT takes over the object, or   *)
(* the handler keeps it until the cleanup.                                 *)
LEMMA HoldInsert ==
    ASSUME SentinelAssumption, TInv, HoldInv, NEW r \in Slots, req[r].pc = "ingest.insert",
           OthersKept(r), objects' = objects, RowsKeep,
           \/ req'[r].pc = "ingest.cleanup" /\ req'[r].row = req[r].row
           \/ /\ req'[r].pc = "done" /\ SameFile(r)'
              /\ req'[r].row.file = req[r].row.file
    PROVE  HoldInv' /\ Undone
<1>1. HoldInv'
  <2>1. "done" \notin FilePcs \cup {"idle"}
    BY DEF FilePcs
  <2> QED BY <2>1, PcSets, StillHeld
<1>2. Undone
  <2> SUFFICES ASSUME NEW k \in Orphans' PROVE k \in Orphans
    BY DEF Undone
  <2>1. k \in objects /\ k \in Objects
    BY DEF Orphans, TInv, TypeOK
  <2>2. \A s \in Slots : req'[s].row.file = req[s].row.file
    BY DEF OthersKept
  <2>3. \A id \in Ids : rows[id].file # k
    BY <2>1, RowsReach DEF Orphans
  <2> QED BY <2>1, <2>2, <2>3 DEF Orphans
<1> QED BY <1>1, <1>2

LEMMA HoldCleanup ==
    ASSUME SentinelAssumption, TInv, HoldInv, NEW r \in Slots, IngestCleanup(r)
    PROVE  HoldInv' /\ Undone
<1>1. /\ req[r].pc = "ingest.cleanup" /\ OthersKept(r) /\ req'[r] = Idle
      /\ UNCHANGED <<rows, used>> /\ objects' \subseteq objects
  BY RespondFields DEF IngestCleanup, At, DeleteFile
<1>2. RowsKeep
  BY <1>1 DEF RowsKeep, HoldInv
<1>3. \/ req[r].row.file \notin objects'
      \/ ~req[r].live \/ faults' > faults
  BY FaultSpent DEF IngestCleanup, DeleteFile, Fails
<1>4. Undone
  <2> SUFFICES ASSUME NEW k \in Orphans', k \notin Orphans
               PROVE  req[r].row.file = k /\ (~req[r].live \/ faults' > faults)
    BY <1>1 DEF Undone
  <2>1. k \in objects' /\ k \in objects /\ \A s \in Slots \ {r} : req[s].row.file # k
    BY <1>1 DEF Orphans, OthersKept
  <2>2. \A id \in Ids : rows[id].file # k
    BY <1>1 DEF Orphans
  <2>3. req[r].row.file = k
    BY <2>1, <2>2 DEF Orphans
  <2> QED BY <1>3, <2>1, <2>3
<1> QED BY <1>1, <1>2, <1>4, StillHeld

(* Steps that leave what the handlers hold. *)
LEMMA HoldKept ==
    ASSUME SentinelAssumption, TInv, HoldInv, UNCHANGED <<rows, used, objects>>,
           \A s \in Slots :
              \/ req[s].pc = "done" /\ req'[s] = Idle
              \/ req'[s].pc = req[s].pc /\ req'[s].id = req[s].id /\ req'[s].row = req[s].row
    PROVE  HoldInv' /\ Undone
<1>1. HoldInv'
  BY IdleFields, PcSets DEF HoldInv, SameFile
<1>2. Undone
  <2> SUFFICES ASSUME NEW k \in Orphans' PROVE k \in Orphans
    BY DEF Undone
  <2>1. k \in objects /\ \A id \in Ids : rows[id].file # k
    BY DEF Orphans
  <2>2. ASSUME NEW s \in Slots, req[s].row.file = k PROVE FALSE
    <3>1. req[s].pc = "done"
      BY <2>2 DEF Orphans
    <3>2. SameFile(s) /\ used \subseteq Ids
      BY <3>1 DEF HoldInv, IngestPcs, TInv, TypeOK
    <3> QED BY <2>1, <2>2, <3>2 DEF SameFile
  <2> QED BY <2>1, <2>2 DEF Orphans
<1> QED BY <1>1, <1>2

LEMMA HoldStep ==
    ASSUME SentinelAssumption, TInv, FinalInv, HoldInv, NEW r \in Slots, Step(r)
    PROVE  HoldInv' /\ Undone
<1> DEFINE id == req[r].id
<1>0. \A pc \in {"update.write", "refetch", "status.write", "status.refetch", "parse.claim",
                 "parse.run", "parse.store", "parse.finish", "parse.fail", "done"} :
        pc \notin IngestPcs \cup FilePcs \cup {"idle"}
  BY DEF IngestPcs, FilePcs
<1>1. ASSUME NEW pc, Goto(r, pc) \/ Respond(r) \/ \E out : pc = "done" /\ ThenPublish(r, out)
      PROVE  /\ OthersKept(r)
             /\ \/ req'[r] = Idle
                \/ req'[r].pc = pc /\ req'[r].id = id /\ req'[r].row.file = req[r].row.file
  BY <1>1, GotoFields, RespondFields, PublishFields
<1>2. CASE UpdateWrite(r)
  <2>1. ASSUME NEW name
        PROVE  [req[r].row EXCEPT !.name = name].file = req[r].row.file
    BY DEF TInv, TypeOK, Request, Row
  <2>2. \/ UNCHANGED rows
        \/ \E row : row.file = req[r].row.file /\ WriteWholeRow(id, row)
    BY <1>2, <2>1 DEF UpdateWrite
  <2>3. At(r, "update.write") /\ UNCHANGED <<used, objects>> /\ (Goto(r, "refetch") \/ Respond(r))
    BY <1>2 DEF UpdateWrite
  <2> QED BY <1>0, <1>1, <2>2, <2>3, GoesOn DEF At
<1>3. CASE Refetch(r) \/ StatusRefetch(r)
  <2>1. /\ At(r, "refetch") \/ At(r, "status.refetch")
        /\ UNCHANGED <<rows, used, objects>>
        /\ (\E out : ThenPublish(r, out)) \/ Respond(r)
    BY <1>3 DEF Refetch, StatusRefetch
  <2> QED BY <1>0, <1>1, <2>1, GoesOn DEF At
<1>4. CASE StatusWrite(r)
  <2>1. /\ At(r, "status.write") /\ UNCHANGED <<used, objects>>
        /\ Goto(r, "status.refetch") \/ Respond(r)
        /\ UNCHANGED rows \/ WriteStatus(id, req[r].row.status)
    BY <1>4 DEF StatusWrite
  <2> QED BY <1>0, <1>1, <2>1, GoesOn DEF At
<1>5. CASE FileUpload(r) \/ FileWrite(r)
  BY <1>5 DEF FileUpload, FileWrite, At, HoldInv, FilePcs
<1>6. CASE ParseClaim(r)
  <2>1. At(r, "parse.claim") /\ UNCHANGED <<used, objects>>
    BY <1>6 DEF ParseClaim
  <2>2. ASSUME WriteStatus(id, "processing"), NEW out,
               req' = [req EXCEPT ![r].pc = "parse.run", ![r].row = LocalClaim(req[r].row),
                                  ![r].out = out]
        PROVE  HoldInv' /\ Undone
    <3>1. LocalClaim(req[r].row).file = req[r].row.file
      BY DEF LocalClaim, TInv, TypeOK, Request, Row
    <3>2. /\ OthersKept(r) /\ req'[r].pc = "parse.run" /\ req'[r].id = id
          /\ req'[r].row.file = req[r].row.file
      BY <2>2, <3>1 DEF OthersKept, TInv, TypeOK, Request
    <3> QED BY <1>0, <2>1, <2>2, <3>2, GoesOn DEF At
  <2>3. CASE Respond(r) /\ UNCHANGED rows
    BY <1>0, <1>1, <2>1, <2>3, GoesOn DEF At
  <2> QED BY <1>6, <2>2, <2>3 DEF ParseClaim
<1>7. CASE ParseRun(r)
  <2>1. At(r, "parse.run") /\ UNCHANGED <<rows, used, objects>>
    BY <1>7 DEF ParseRun
  <2>2. ASSUME NEW pc \in {"parse.finish", "parse.fail"}, Goto(r, pc) PROVE HoldInv' /\ Undone
    BY <1>0, <1>1, <2>1, <2>2, GoesOn DEF At
  <2>3. ASSUME NEW name, req' = [req EXCEPT ![r].pc = "parse.store", ![r].row.name = name,
                                            ![r].row.parsed = TRUE]
        PROVE  HoldInv' /\ Undone
    <3>1. /\ OthersKept(r) /\ req'[r].pc = "parse.store" /\ req'[r].id = id
          /\ req'[r].row.file = req[r].row.file
      BY <2>3 DEF OthersKept, TInv, TypeOK, Request, Row
    <3> QED BY <1>0, <2>1, <3>1, GoesOn DEF At
  <2> QED BY <1>7, <2>2, <2>3 DEF ParseRun
<1>8. CASE ParseStore(r)
  <2>1. /\ At(r, "parse.store") /\ UNCHANGED <<used, objects>>
        /\ Goto(r, "parse.finish") \/ Goto(r, "parse.fail")
        /\ UNCHANGED rows \/ WriteWholeRow(id, req[r].row)
    BY <1>8 DEF ParseStore
  <2> QED BY <1>0, <1>1, <2>1, GoesOn DEF At
<1>9. CASE ParseFinish(r) \/ ParseFail(r)
  <2>1. /\ At(r, "parse.finish") \/ At(r, "parse.fail")
        /\ UNCHANGED <<used, objects>>
        /\ (\E out : ThenPublish(r, out)) \/ Goto(r, "parse.fail")
        /\ UNCHANGED rows \/ \E status : WriteStatus(id, status)
    BY <1>9 DEF ParseFinish, ParseFail
  <2> QED BY <1>0, <1>1, <2>1, GoesOn DEF At
<1>10. CASE IngestInsert(r)
  <2>1. req[r].pc = "ingest.insert" /\ objects' = objects
    BY <1>10 DEF IngestInsert, At
  <2>2. ASSUME NEW i \in Ids \ used, NEW row, row.file = req[r].row.file,
               Insert(i, row), ThenAnnounce(r, i, row)
        PROVE  HoldInv' /\ Undone
    <3>1. RowsKeep /\ rows'[i] = row /\ i \in used'
      BY <2>2, InsertKeeps
    <3>2. OthersKept(r) /\ req'[r].pc = "done" /\ req'[r].id = i /\ req'[r].row = row
      BY <2>2 DEF ThenAnnounce, Handler, OthersKept, TInv, TypeOK
    <3> QED BY <2>1, <2>2, <3>1, <3>2, HoldInsert DEF SameFile
  <2>3. ASSUME Goto(r, "ingest.cleanup"), UNCHANGED <<rows, used>> PROVE HoldInv' /\ Undone
    <3>1. RowsKeep
      BY <2>3 DEF RowsKeep, HoldInv
    <3> QED BY <2>1, <2>3, <3>1, GotoFields, HoldInsert
  <2>4. \A file, found : IngestRow(file, found).file = file
    BY DEF IngestRow
  <2> QED BY <1>10, <2>2, <2>3, <2>4 DEF IngestInsert, AfterFailedInsert
<1>11. CASE IngestCleanup(r)
  BY <1>11, HoldCleanup
<1>12. CASE Publish(r)
  <2> DEFINE h == [req[r] EXCEPT !.out = Tail(req[r].out)]
  <2>1. h.pc = req[r].pc /\ h.id = id /\ h.row = req[r].row
    BY DEF TInv, TypeOK, Request
  <2>2. /\ OthersKept(r) /\ UNCHANGED <<rows, used, objects>>
        /\ \/ req[r].pc = "done" /\ req'[r] = Idle
           \/ req'[r] = h
    BY <1>12 DEF Publish, OthersKept, TInv, TypeOK
  <2> HIDE DEF h
  <2> QED BY <2>1, <2>2, HoldKept DEF OthersKept
<1> QED BY <1>2, <1>3, <1>4, <1>5, <1>6, <1>7, <1>8, <1>9, <1>10, <1>11, <1>12 DEF Step

LEMMA HoldArrivalLost ==
    ASSUME SentinelAssumption, Ops \cap {"delete", "upload"} = {}, TInv, HoldInv,
           NEW r \in Slots, ArrivalLost(r)
    PROVE  HoldInv' /\ Undone
<1>1. req' = req /\ req[r].pc = "idle" /\ faults' > faults
  BY IdleFields, FaultSpent DEF ArrivalLost, Accept
<1>2. RowsKeep
  <2>1. CASE \E i \in Ids \ used : \E row : Insert(i, row)
    BY <2>1, InsertKeeps
  <2>2. CASE rows' = rows /\ used' = used
    BY <2>2 DEF RowsKeep, HoldInv
  <2> QED BY <2>1, <2>2 DEF ArrivalLost, Accept
<1>3. HoldInv'
  BY <1>1, <1>2 DEF HoldInv, RowsKeep, SameFile
<1>4. Undone
  <2> SUFFICES ASSUME NEW k \in Orphans', k \in objects PROVE k \in Orphans
    BY <1>1 DEF Undone
  <2>1. \A id \in Ids : rows[id].file # k
    BY <1>2, RowsReach DEF Orphans, TInv, TypeOK
  <2> QED BY <1>1, <2>1 DEF Orphans
<1> QED BY <1>3, <1>4

LEMMA HoldReplyLost ==
    ASSUME SentinelAssumption, TInv, HoldInv, NEW r \in Slots, ReplyLost(r)
    PROVE  HoldInv' /\ Undone
<1> DEFINE id == req[r].id
<1>0. \A pc \in {"update.write", "status.write", "parse.claim", "parse.store", "parse.finish",
                 "parse.fail"} :
        pc \notin IngestPcs \cup FilePcs \cup {"idle"}
  BY DEF IngestPcs, FilePcs
<1>1. ASSUME NEW pc \in {"update.write", "status.write", "parse.claim", "parse.store",
                         "parse.finish"},
             req[r].pc = pc, Respond(r) \/ Goto(r, "parse.fail"), UNCHANGED <<used, objects>>,
             \/ \E status : WriteStatus(id, status)
             \/ \E row : row.file = req[r].row.file /\ WriteWholeRow(id, row)
      PROVE  HoldInv' /\ Undone
  <2>1. /\ OthersKept(r)
        /\ \/ req'[r] = Idle
           \/ /\ req'[r].pc = "parse.fail" /\ req'[r].id = id
              /\ req'[r].row.file = req[r].row.file
    BY <1>1, GotoFields, RespondFields
  <2> QED BY <1>0, <1>1, <2>1, GoesOn
<1>2. ASSUME NEW name PROVE [req[r].row EXCEPT !.name = name].file = req[r].row.file
  BY DEF TInv, TypeOK, Request, Row
<1>3. req[r].pc \notin FilePcs
  BY DEF HoldInv
<1>4. CASE req[r].pc = "ingest.insert"
  <2>1. PICK i \in Ids \ used : \E row : Insert(i, row)
    BY <1>4 DEF ReplyLost
  <2>2. RowsKeep /\ objects' = objects
    BY <1>4, <2>1, InsertKeeps DEF ReplyLost
  <2>3. OthersKept(r) /\ req'[r].pc = "ingest.cleanup" /\ req'[r].row = req[r].row
    BY <1>4, GotoFields DEF ReplyLost, AfterFailedInsert
  <2> QED BY <1>4, <2>2, <2>3, HoldInsert
<1>5. CASE req[r].pc \in {"update.write", "status.write", "parse.claim"}
  <2>1. /\ Respond(r) /\ UNCHANGED <<used, objects>>
        /\ \/ \E name : WriteWholeRow(id, [req[r].row EXCEPT !.name = name])
           \/ \E status : WriteStatus(id, status)
    BY <1>5 DEF ReplyLost
  <2> QED BY <1>1, <1>2, <1>5, <2>1
<1>6. CASE req[r].pc \in {"parse.store", "parse.finish"}
  <2>1. /\ Goto(r, "parse.fail") /\ UNCHANGED <<used, objects>>
        /\ \/ WriteWholeRow(id, req[r].row)
           \/ \E status : WriteStatus(id, status)
    BY <1>6 DEF ReplyLost
  <2> QED BY <1>1, <1>6, <2>1
<1> QED BY <1>3, <1>4, <1>5, <1>6 DEF ReplyLost, FilePcs

LEMMA NextHold ==
    ASSUME SentinelAssumption, Ops \cap {"delete", "upload"} = {}, "crash" \notin Faults,
           TInv, FinalInv, HoldInv, [Next]_vars
    PROVE  HoldInv' /\ Undone
<1>1. ASSUME NEW r \in Slots, Cancel(r) PROVE HoldInv' /\ Undone
  <2>1. UNCHANGED <<rows, used, objects>>
    BY <1>1 DEF Cancel
  <2>2. \A s \in Slots : req'[s].pc = req[s].pc /\ req'[s].id = req[s].id /\ req'[s].row = req[s].row
    BY <1>1 DEF Cancel, TInv, TypeOK, Request
  <2> QED BY <2>1, <2>2, HoldKept
<1>2. CASE UNCHANGED vars
  BY <1>2, HoldKept DEF vars
<1>3. ~Crash
  BY DEF Crash, Spend
<1> QED BY <1>1, <1>2, <1>3, HoldArrive, HoldStep, HoldArrivalLost, HoldReplyLost DEF Next

(* Where clients neither delete a resume nor upload a file to one, and the *)
(* process lives, an object gets out of reach only where its own upload    *)
(* reports an error, or where the call of the cleanup that removes it      *)
(* fails, whatever other calls fail, answer late or are cancelled: the     *)
(* failed INSERT of an UploadAndParse alone leaves nothing behind.         *)
THEOREM UploadsUndone ==
    ASSUME Ops \cap {"delete", "upload"} = {}, "crash" \notin Faults
    PROVE  Spec => OrphansByFailure
<1>1. Init => HoldInv
  BY IdleFields DEF Init, HoldInv, FilePcs
<1>2. TInv /\ FinalInv /\ [Next]_vars => FinalInv'
  BY NextFinal
<1>3. TInv /\ FinalInv /\ HoldInv /\ [Next]_vars => HoldInv' /\ [Undone]_vars
  BY NextHold, SentinelAssumption
<1> QED BY <1>1, <1>2, <1>3, InitFinal, Types, PTL DEF Spec, OrphansByFailure, Undone

=============================================================================
