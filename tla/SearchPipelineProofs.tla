----------------------- MODULE SearchPipelineProofs -----------------------
(***************************************************************************)
(* What holds of the two services together, for every number of resumes,   *)
(* requests, consumers and faults.                                         *)
(*                                                                         *)
(* The consumer loop is the one of StreamConsumer, and SCP names what is   *)
(* proved of it among publishers that add entries and spend faults of      *)
(* their own.                                                              *)
(***************************************************************************)
EXTENDS SearchPipeline, ResumeServiceClaims, FiniteSetTheorems

SCP == INSTANCE StreamConsumerProofs WITH entries <- Len(stream)

-----------------------------------------------------------------------------
(* The length of the stream.  A request has a number of events left to     *)
(* publish, three at most, and hands over one of them with each XADD.      *)

Future(next) ==
    IF next \in {"parse.claim", "ingest.insert"} THEN 3
    ELSE IF next \in ParsingPcs THEN 2
    ELSE IF next \in {"idle", "ingest.cleanup", "done"} THEN 0
    ELSE 1

Left(r) == Len(req[r].out) + Future(req[r].pc)

Owed == {t \in Slots \X (Nat \ {0}) : t[2] <= Left(t[1])}

Budget ==
    /\ IsFiniteSet(Owed)
    /\ Len(stream) + Cardinality(Owed) <= 3 * started + faults

LEMMA Futures ==
    /\ \A next : Future(next) \in 0..3
    /\ Future("parse.claim") = 3 /\ Future("ingest.insert") = 3
    /\ \A next \in ParsingPcs : Future(next) = 2
    /\ \A next \in {"idle", "ingest.cleanup", "done"} : Future(next) = 0
    /\ \A next \in {"update.write", "refetch", "status.write", "status.refetch", "file.upload",
                    "file.write"} : Future(next) = 1
    /\ ParsingPcs = {"parse.run", "parse.store", "parse.finish", "parse.fail"}
BY DEF Future, ParsingPcs

LEMMA LeftType ==
    ASSUME NEW r \in Slots
    PROVE  (TypeOK => Left(r) \in Nat) /\ (TypeOK' => Left(r)' \in Nat)
<1>1. ASSUME NEW h \in Request PROVE Len(h.out) + Future(h.pc) \in Nat
  <2>1. h.out \in Seq(Event)
    BY DEF Request
  <2>2. Len(h.out) \in Nat /\ Future(h.pc) \in 0..3
    BY <2>1, Futures
  <2> QED BY <2>2
<1> QED BY <1>1 DEF Left, TypeOK

LEMMA OwedIs ==
    /\ \A t \in Owed : \E s \in Slots, n \in Nat \ {0} : t = <<s, n>> /\ n <= Left(s)
    /\ \A s \in Slots, n \in Nat \ {0} : n <= Left(s) => <<s, n>> \in Owed
    /\ \A t \in Owed' : \E s \in Slots, n \in Nat \ {0} : t = <<s, n>> /\ n <= Left(s)'
BY DEF Owed

(* A finite set of debts that others leave alone and r does not increase.  *)
LEMMA OwedKept ==
    ASSUME TypeOK, TypeOK', NEW r \in Slots, OthersKept(r), Left(r)' <= Left(r)
    PROVE  Owed' \subseteq Owed
<1>1. ASSUME NEW s \in Slots PROVE Left(s)' <= Left(s) /\ Left(s) \in Nat /\ Left(s)' \in Nat
  <2>1. s # r => Left(s)' = Left(s)
    BY DEF OthersKept, Left
  <2>2. Left(s) \in Nat /\ Left(s)' \in Nat
    BY LeftType
  <2> QED BY <2>1, <2>2
<1>2. \A s \in Slots, n \in Nat \ {0} : n <= Left(s)' => n <= Left(s)
  BY <1>1
<1>3. \A t \in Owed' : \E s \in Slots, n \in Nat \ {0} : t = <<s, n>> /\ n <= Left(s)'
  BY OwedIs
<1> QED BY <1>2, <1>3, OwedIs

(* The stream is as long as it was, and no debt is new. *)
LEMMA BudgetKept ==
    ASSUME TypeOK, TypeOK', Budget, Owed' \subseteq Owed, stream' = stream,
           started' = started, faults' = faults \/ faults' = faults + 1
    PROVE  Budget'
<1>1. IsFiniteSet(Owed') /\ Cardinality(Owed') <= Cardinality(Owed)
  BY FS_Subset DEF Budget
<1>2. Cardinality(Owed) \in Nat /\ Cardinality(Owed') \in Nat
  BY <1>1, FS_CardinalityType DEF Budget
<1> QED BY <1>1, <1>2 DEF Budget, TypeOK

(* A request arrives: it may come to owe three events.                     *)
LEMMA BudgetArrive ==
    ASSUME TypeOK, TypeOK', Budget, NEW r \in Slots, Arrive(r)
    PROVE  Budget'
<1> DEFINE G == {<<r, 1>>, <<r, 2>>, <<r, 3>>}
<1>1. /\ stream' = stream /\ started' = started + 1 /\ faults' = faults
  BY DEF Arrive, Create, Delete, UpdateRead, StatusRead, FileRead, ParseRead, IngestUpload, Accept
<1>2. ASSUME NEW next, NEW id, NEW row, NEW old, NEW out,
             req' = [req EXCEPT ![r] = Handler(next, id, row, old, out)],
             Len(out) + Future(next) <= 3
      PROVE  OthersKept(r) /\ Left(r)' <= 3
  <2>1. OthersKept(r) /\ req'[r].pc = next /\ req'[r].out = out
    BY <1>2 DEF Handler, OthersKept, TypeOK
  <2> QED BY <1>2, <2>1 DEF Left
<1>3. /\ \A e : Len(<<e>>) + Future("done") <= 3
      /\ \A next : Len(<< >>) + Future(next) <= 3
  <2>1. Len(<< >>) = 0 /\ \A e : Len(<<e>>) = 1
    OBVIOUS
  <2>2. Future("done") = 0
    BY Futures
  <2>3. \A next : Future(next) \in Nat /\ Future(next) <= 3
    BY Futures
  <2> QED BY <2>1, <2>2, <2>3
<1>4. OthersKept(r) /\ Left(r)' <= 3
  <2>1. CASE Create(r)
    BY <1>2, <1>3, <2>1 DEF Create
  <2>2. CASE Delete(r)
    BY <1>2, <1>3, <2>2 DEF Delete
  <2>3. CASE UpdateRead(r) \/ StatusRead(r) \/ FileRead(r)
    BY <1>2, <1>3, <2>3 DEF UpdateRead, StatusRead, FileRead
  <2>4. CASE ParseRead(r) \/ IngestUpload(r)
    BY <1>2, <1>3, <2>4 DEF ParseRead, IngestUpload
  <2> QED BY <2>1, <2>2, <2>3, <2>4 DEF Arrive
<1>5. Owed' \subseteq Owed \cup G
  <2>1. ASSUME NEW s \in Slots, NEW n \in Nat \ {0}, n <= Left(s)'
        PROVE  <<s, n>> \in Owed \cup G
    <3>1. CASE s = r
      <4>1. Left(r)' \in Nat /\ n <= 3
        BY <1>4, <2>1, <3>1, LeftType
      <4>2. n = 1 \/ n = 2 \/ n = 3
        BY <4>1
      <4> QED BY <3>1, <4>2
    <3>2. CASE s # r
      BY <1>4, <2>1, <3>2, OwedIs DEF Left, OthersKept
    <3> QED BY <3>1, <3>2
  <2>2. \A t \in Owed' : \E s \in Slots, n \in Nat \ {0} : t = <<s, n>> /\ n <= Left(s)'
    BY OwedIs
  <2> QED BY <2>1, <2>2
<1>6. IsFiniteSet(G) /\ Cardinality(G) <= 3
  <2> DEFINE a == <<r, 1>>
             b == <<r, 2>>
             c == <<r, 3>>
  <2> HIDE DEF a, b, c
  <2>1. IsFiniteSet({a}) /\ Cardinality({a}) = 1
    BY FS_Singleton
  <2>2. IsFiniteSet({a} \cup {b}) /\ Cardinality({a} \cup {b}) \in {1, 2}
    BY <2>1, FS_AddElement
  <2>3. IsFiniteSet(({a} \cup {b}) \cup {c}) /\ Cardinality(({a} \cup {b}) \cup {c}) \in {1, 2, 3}
    BY <2>2, FS_AddElement
  <2>4. G = ({a} \cup {b}) \cup {c}
    BY DEF a, b, c
  <2> QED BY <2>3, <2>4
<1> HIDE DEF G
<1>7. /\ IsFiniteSet(Owed \cup G)
      /\ Cardinality(Owed \cup G) <= Cardinality(Owed) + 3
  <2>1. /\ IsFiniteSet(Owed \cup G)
        /\ Cardinality(Owed \cup G) = Cardinality(Owed) + Cardinality(G) - Cardinality(Owed \cap G)
    BY <1>6, FS_Union DEF Budget
  <2>2. IsFiniteSet(Owed \cap G)
    BY <1>6, FS_Intersection DEF Budget
  <2>3. Cardinality(Owed \cap G) \in Nat /\ Cardinality(Owed) \in Nat /\ Cardinality(G) \in Nat
    BY <1>6, <2>2, FS_CardinalityType DEF Budget
  <2> QED BY <1>6, <2>1, <2>3
<1>8. IsFiniteSet(Owed') /\ Cardinality(Owed') <= Cardinality(Owed \cup G)
  BY <1>5, <1>7, FS_Subset
<1>9. Cardinality(Owed) \in Nat /\ Cardinality(Owed') \in Nat /\ Cardinality(Owed \cup G) \in Nat
  BY <1>7, <1>8, FS_CardinalityType DEF Budget
<1> QED BY <1>1, <1>7, <1>8, <1>9 DEF Budget, TypeOK

(* No step but Publish adds to the stream, and none adds to the debt.      *)
LEMMA LeftKept ==
    ASSUME TInv, TypeOK', NEW r \in Slots, Step(r), ~Publish(r)
    PROVE  OthersKept(r) /\ Left(r)' <= Left(r) /\ UNCHANGED <<stream, started>>
<1>0. /\ Left(r) \in Nat /\ TypeOK /\ Len(<< >>) = 0 /\ Idle.pc = "idle" /\ Idle.out = << >>
      /\ \A e, f : Len(<<e>>) = 1 /\ Len(<<e, f>>) = 2
  BY LeftType, IdleFields DEF TInv
<1>1. UNCHANGED <<stream, started>>
  BY DEF Step, UpdateWrite, Refetch, StatusWrite, StatusRefetch, FileUpload, FileWrite, ParseClaim,
         ParseRun, ParseStore, ParseFinish, ParseFail, IngestInsert, IngestCleanup
<1>2. ASSUME Respond(r) PROVE OthersKept(r) /\ Left(r)' <= Left(r)
  BY <1>0, <1>2, RespondFields, Futures DEF Left
<1>3. ASSUME NEW next, req[r].out = << >>, NEW prev, req[r].pc = prev, Goto(r, next),
             Future(next) <= Future(prev)
      PROVE  OthersKept(r) /\ Left(r)' <= Left(r)
  BY <1>0, <1>3, GotoFields, Futures DEF Left
<1>4. ASSUME NEW out, Len(out) \in Nat, NEW prev, req[r].out = << >>, req[r].pc = prev,
             ThenPublish(r, out), Len(out) <= Future(prev)
      PROVE  OthersKept(r) /\ Left(r)' <= Left(r)
  BY <1>0, <1>4, PublishFields, Futures DEF Left
<1>5. CASE UpdateWrite(r)
  <2>1. Future("refetch") <= Future("update.write")
    BY Futures
  <2> QED BY <1>2, <1>3, <1>5, <2>1 DEF UpdateWrite, At
<1>6. CASE Refetch(r) \/ StatusRefetch(r)
  <2>1. Future("refetch") = 1 /\ Future("status.refetch") = 1
    BY Futures
  <2>2. ASSUME NEW e, ThenPublish(r, <<e>>), At(r, "refetch") \/ At(r, "status.refetch")
        PROVE  OthersKept(r) /\ Left(r)' <= Left(r)
    <3>1. Len(<<e>>) \in Nat /\ Len(<<e>>) <= 1
      OBVIOUS
    <3> QED BY <1>4, <2>1, <2>2, <3>1 DEF At
  <2> QED BY <1>2, <1>6, <2>2 DEF Refetch, StatusRefetch
<1>7. CASE StatusWrite(r)
  <2>1. Future("status.refetch") <= Future("status.write")
    BY Futures
  <2> QED BY <1>2, <1>3, <1>7, <2>1 DEF StatusWrite, At
<1>8. CASE FileUpload(r)
  <2>1. ASSUME NEW key, req' = [req EXCEPT ![r].pc = "file.write", ![r].row.file = key]
        PROVE  OthersKept(r) /\ req'[r].pc = "file.write" /\ req'[r].out = req[r].out
    BY <2>1 DEF OthersKept, TInv, TypeOK, Request
  <2>2. Future("file.write") = Future("file.upload") /\ req[r].pc = "file.upload"
    BY <1>8, Futures DEF FileUpload, At
  <2>3. ASSUME NEW key, req' = [req EXCEPT ![r].pc = "file.write", ![r].row.file = key]
        PROVE  OthersKept(r) /\ Left(r)' <= Left(r)
    <3>1. OthersKept(r) /\ Left(r)' = Left(r)
      BY <2>1, <2>2, <2>3 DEF Left
    <3> QED BY <1>0, <3>1
  <2>4. \/ Respond(r)
        \/ \E key : req' = [req EXCEPT ![r].pc = "file.write", ![r].row.file = key]
    BY <1>8 DEF FileUpload
  <2> QED BY <1>1, <1>2, <2>3, <2>4
<1>9. CASE FileWrite(r)
  <2>1. Future("refetch") <= Future("file.write")
    BY Futures
  <2> QED BY <1>2, <1>3, <1>9, <2>1 DEF FileWrite, At
<1>10. CASE ParseClaim(r)
  <2>1. ASSUME NEW row, NEW e,
               req' = [req EXCEPT ![r].pc = "parse.run", ![r].row = row, ![r].out = <<e>>]
        PROVE  OthersKept(r) /\ req'[r].pc = "parse.run" /\ Len(req'[r].out) = 1
    BY <2>1 DEF OthersKept, TInv, TypeOK, Request
  <2>2. Future("parse.run") = 2 /\ Future(req[r].pc) = 3 /\ req[r].out = << >>
    BY <1>10, Futures DEF ParseClaim, At
  <2>3. ASSUME NEW row, NEW e,
               req' = [req EXCEPT ![r].pc = "parse.run", ![r].row = row, ![r].out = <<e>>]
        PROVE  OthersKept(r) /\ Left(r)' <= Left(r)
    <3>1. OthersKept(r) /\ req'[r].pc = "parse.run" /\ Len(req'[r].out) = 1
      BY <2>1, <2>3
    <3>2. Left(r)' = 3 /\ Left(r) = 3
      BY <1>0, <2>2, <3>1 DEF Left
    <3> QED BY <3>1, <3>2
  <2> QED BY <1>2, <1>10, <2>3 DEF ParseClaim
<1>11. ASSUME NEW prev \in ParsingPcs, At(r, prev), NEW next \in ParsingPcs, Goto(r, next)
       PROVE  OthersKept(r) /\ Left(r)' <= Left(r)
  <2>1. Future(prev) = 2 /\ Future(next) = 2
    BY Futures
  <2> QED BY <1>3, <1>11, <2>1 DEF At
<1>12. CASE ParseRun(r)
  <2>1. ASSUME NEW name, req' = [req EXCEPT ![r].pc = "parse.store", ![r].row.name = name,
                                            ![r].row.parsed = TRUE]
        PROVE  OthersKept(r) /\ req'[r].pc = "parse.store" /\ req'[r].out = req[r].out
    BY <2>1 DEF OthersKept, TInv, TypeOK, Request
  <2>2. Future("parse.store") = 2 /\ Future("parse.run") = 2 /\ At(r, "parse.run")
    BY <1>12, Futures DEF ParseRun
  <2>3. ASSUME NEW name, req' = [req EXCEPT ![r].pc = "parse.store", ![r].row.name = name,
                                            ![r].row.parsed = TRUE]
        PROVE  OthersKept(r) /\ Left(r)' <= Left(r)
    <3>1. OthersKept(r) /\ req'[r].pc = "parse.store" /\ req'[r].out = req[r].out
      BY <2>1, <2>3
    <3>2. Left(r)' = 2 /\ Left(r) = 2
      BY <1>0, <2>2, <3>1 DEF Left, At
    <3> QED BY <3>1, <3>2
  <2>4. {"parse.run", "parse.finish", "parse.fail"} \subseteq ParsingPcs
    BY Futures
  <2> QED BY <1>11, <1>12, <2>2, <2>3, <2>4 DEF ParseRun
<1>13. CASE ParseStore(r)
  BY <1>11, <1>13, Futures DEF ParseStore
<1>14. ASSUME NEW prev \in ParsingPcs, At(r, prev), NEW out, NEW n \in 0..2, Len(out) = n,
              ThenPublish(r, out)
       PROVE  OthersKept(r) /\ Left(r)' <= Left(r)
  <2>1. Future(prev) = 2 /\ req[r].out = << >> /\ req[r].pc = prev
    BY <1>14, Futures DEF At
  <2>2. n \in Nat /\ n <= 2
    OBVIOUS
  <2>3. Len(out) \in Nat /\ Len(out) <= Future(prev)
    BY <1>14, <2>1, <2>2
  <2> QED BY <1>4, <1>14, <2>1, <2>3
<1>15. CASE ParseFinish(r)
  <2>1. "parse.finish" \in ParsingPcs /\ "parse.fail" \in ParsingPcs
    BY Futures
  <2>2. 2 \in 0..2 /\ \A e, f : Len(<<e, f>>) = 2
    OBVIOUS
  <2> QED BY <1>11, <1>14, <1>15, <2>1, <2>2 DEF ParseFinish
<1>16. CASE ParseFail(r)
  <2>1. "parse.fail" \in ParsingPcs
    BY Futures
  <2>2. 1 \in 0..2 /\ \A e : Len(<<e>>) = 1
    OBVIOUS
  <2> QED BY <1>14, <1>16, <2>1, <2>2 DEF ParseFail
<1>17. CASE IngestInsert(r)
  <2>1. req[r].pc = "ingest.insert" /\ req[r].out = << >>
    BY <1>17 DEF IngestInsert, At
  <2>2. ASSUME NEW id, NEW row, ThenAnnounce(r, id, row)
        PROVE  OthersKept(r) /\ Left(r)' <= Left(r)
    <3> DEFINE two == <<Created(id, row), StatusChanged(id, "pending", row.status)>>
               out == two \o IF row.status = "parsed" THEN <<Parsed(id)>> ELSE << >>
    <3>1. OthersKept(r) /\ req'[r].pc = "done" /\ req'[r].out = out
      BY <2>2 DEF ThenAnnounce, Handler, OthersKept, TInv, TypeOK
    <3>2. \A a, b, c : Len(<<a, b>> \o <<c>>) = 3 /\ Len(<<a, b>> \o << >>) = 2
      OBVIOUS
    <3>3. Len(out) \in 0..3
      BY <3>2
    <3> HIDE DEF out
    <3>4. Left(r) = 3
      BY <1>0, <2>1, Futures DEF Left
    <3>5. Left(r)' = Len(out)
      BY <3>1, <3>3, Futures DEF Left
    <3> QED BY <3>1, <3>3, <3>4, <3>5
  <2>3. Future("ingest.cleanup") <= Future("ingest.insert")
    BY Futures
  <2> QED BY <1>3, <1>17, <2>1, <2>2, <2>3 DEF IngestInsert, AfterFailedInsert
<1>18. CASE IngestCleanup(r)
  BY <1>2, <1>18 DEF IngestCleanup
<1> QED BY <1>1, <1>5, <1>6, <1>7, <1>8, <1>9, <1>10, <1>12, <1>13, <1>15, <1>16, <1>17, <1>18
   DEF Step

LEMMA AppendedLength ==
    ASSUME NEW s \in Seq(Event), NEW e \in Event
    PROVE  /\ Len(Append(s, e)) = Len(s) + 1
           /\ Len(s \o <<e, e>>) = Len(s) + 2
<1>1. <<e, e>> \in Seq(Event) /\ Len(<<e, e>>) = 2
  OBVIOUS
<1>2. Len(s \o <<e, e>>) = Len(s) + Len(<<e, e>>)
  BY <1>1, ConcatProperties, Zenon
<1> QED BY <1>1, <1>2

(* XADD pays one event off; its repetition is paid for by a fault.         *)
LEMMA BudgetPublish ==
    ASSUME TypeOK, TypeOK', Budget, NEW r \in Slots, Publish(r)
    PROVE  Budget' /\ Len(stream) <= Len(stream')
<1> DEFINE out == req[r].out
           t == <<r, Left(r)>>
<1>1. /\ out \in Seq(Event) /\ out # << >> /\ Head(out) \in Event /\ stream \in Seq(Event)
      /\ Len(out) \in Nat \ {0} /\ Len(Tail(out)) = Len(out) - 1
      /\ started' = started /\ faults \in Nat /\ started \in Nat
  BY DEF Publish, TypeOK, Request
<1>2. OthersKept(r) /\ Left(r)' <= Left(r) - 1
  <2> DEFINE q == [req[r] EXCEPT !.out = Tail(out)]
  <2>1. q.out = Tail(out) /\ q.pc = req[r].pc
    BY DEF TypeOK, Request
  <2>2. OthersKept(r) /\ (req'[r] = Idle \/ req'[r] = q)
    BY DEF Publish, OthersKept, TypeOK
  <2>3. Len(Idle.out) = 0 /\ Future(Idle.pc) = 0
    BY IdleFields, Futures
  <2> HIDE DEF q, out
  <2>4. Left(r) = Len(out) + Future(req[r].pc) /\ Left(r)' = Len(req'[r].out) + Future(req'[r].pc)
    BY DEF Left, out
  <2>5. Future(req[r].pc) \in Nat
    BY Futures
  <2>6. Left(r) \in Nat /\ Left(r) - 1 >= 0
    BY <1>1, <2>4, <2>5
  <2>7. CASE req'[r] = Idle
    BY <2>2, <2>3, <2>4, <2>6, <2>7
  <2>8. CASE req'[r] = q
    BY <1>1, <2>1, <2>2, <2>4, <2>5, <2>8
  <2> QED BY <2>2, <2>7, <2>8
<1>3. Left(r) \in Nat \ {0} /\ t \in Owed
  BY <1>1, LeftType, Futures DEF Owed, Left
<1>4. Owed' \subseteq Owed \ {t}
  <2>1. ASSUME NEW s \in Slots, NEW n \in Nat \ {0}, n <= Left(s)'
        PROVE  <<s, n>> \in Owed \ {t}
    <3>1. CASE s = r
      <4>1. Left(r)' \in Nat /\ n < Left(r)
        BY <1>2, <1>3, <2>1, <3>1, LeftType
      <4>2. <<r, n>> \in Owed /\ <<r, n>> # t
        BY <1>3, <4>1, OwedIs
      <4> QED BY <3>1, <4>2
    <3>2. CASE s # r
      <4>1. Left(s)' = Left(s)
        BY <1>2, <3>2 DEF OthersKept, Left
      <4> QED BY <2>1, <3>2, <4>1, OwedIs
    <3> QED BY <3>1, <3>2
  <2>2. \A k \in Owed' : \E s \in Slots, n \in Nat \ {0} : k = <<s, n>> /\ n <= Left(s)'
    BY OwedIs
  <2> QED BY <2>1, <2>2
<1>5. /\ Len(stream') \in Nat
      /\ Len(stream) <= Len(stream')
      /\ Len(stream') - Len(stream) <= 1 + (faults' - faults)
      /\ faults' \in Nat
  <2> DEFINE e == Head(out)
             n == Len(stream)
  <2>0. n \in Nat /\ faults' \in Nat /\ faults \in Nat /\ e \in Event
    BY <1>1 DEF TypeOK
  <2>1. \/ faults' = faults /\ (stream' = Append(stream, e) \/ stream' = stream)
        \/ (faults' = faults \/ faults' = faults + 1) /\ stream' = stream
        \/ faults' = faults + 1 /\ stream' = stream \o <<e, e>>
    BY DEF Publish, Succeeds, Fails, Spend
  <2>2. /\ stream' = Append(stream, e) => Len(stream') = n + 1
        /\ stream' = stream \o <<e, e>> => Len(stream') = n + 2
    BY <1>1, <2>0, AppendedLength
  <2>3. stream' = stream => Len(stream') = n
    OBVIOUS
  <2> HIDE DEF e, n
  <2>4. /\ Len(stream') \in Nat /\ n <= Len(stream')
        /\ Len(stream') - n <= 1 + (faults' - faults)
    <3>1. \/ faults' = faults /\ (Len(stream') = n + 1 \/ Len(stream') = n)
          \/ (faults' = faults \/ faults' = faults + 1) /\ Len(stream') = n
          \/ faults' = faults + 1 /\ Len(stream') = n + 2
      BY <2>1, <2>2, <2>3, Zenon
    <3> QED BY <2>0, <3>1
  <2> QED BY <2>0, <2>4 DEF n
<1>6. /\ IsFiniteSet(Owed \ {t})
      /\ Cardinality(Owed \ {t}) = Cardinality(Owed) - 1
  BY <1>3, FS_RemoveElement DEF Budget
<1>7. IsFiniteSet(Owed') /\ Cardinality(Owed') <= Cardinality(Owed \ {t})
  BY <1>4, <1>6, FS_Subset
<1>8. Cardinality(Owed') \in Nat /\ Cardinality(Owed) \in Nat /\ Len(stream) \in Nat
  BY <1>1, <1>7, FS_CardinalityType DEF Budget
<1> HIDE DEF t, out
<1>9. Len(stream') + Cardinality(Owed') <= 3 * started' + faults'
  <2> DEFINE before == Cardinality(Owed)
             after == Cardinality(Owed')
             old == Len(stream)
             new == Len(stream')
             spent == faults
             then == faults'
             paid == 3 * started
  <2>1. /\ before \in Nat /\ after \in Nat /\ old \in Nat /\ new \in Nat
        /\ spent \in Nat /\ then \in Nat /\ paid \in Nat
    BY <1>1, <1>5, <1>8
  <2>2. after <= before - 1 /\ new - old <= 1 + (then - spent) /\ old + before <= paid + spent
    BY <1>1, <1>5, <1>6, <1>7, <1>8 DEF Budget
  <2>3. 3 * started' = paid
    BY <1>1
  <2> HIDE DEF before, after, old, new, spent, then, paid
  <2>4. new + after <= paid + then
    BY <2>1, <2>2
  <2> QED BY <2>3, <2>4 DEF new, after, then
<1> QED BY <1>5, <1>7, <1>9 DEF Budget

(* A lost reply appends nothing and leaves no more to be told.             *)
LEMMA LostKeepsLeft ==
    ASSUME TInv, TypeOK', NEW r \in Slots, ReplyLost(r)
    PROVE  OthersKept(r) /\ Left(r)' <= Left(r) /\ UNCHANGED <<stream, started>>
<1>0. /\ Left(r) \in Nat /\ Len(<< >>) = 0 /\ Idle.pc = "idle" /\ Idle.out = << >>
      /\ req[r].out = << >>
  BY LeftType, IdleFields DEF TInv, ReplyLost
<1>1. UNCHANGED <<stream, started>>
  BY DEF ReplyLost
<1>2. CASE Respond(r)
  BY <1>0, <1>1, <1>2, RespondFields, Futures DEF Left
<1>3. ASSUME NEW next, Goto(r, next), Future(next) <= Future(req[r].pc)
      PROVE  OthersKept(r) /\ Left(r)' <= Left(r)
  BY <1>0, <1>3, GotoFields, Futures DEF Left
<1>4. /\ Future("parse.fail") <= Future("parse.store")
      /\ Future("parse.fail") <= Future("parse.finish")
      /\ Future("ingest.cleanup") <= Future("ingest.insert")
  BY Futures
<1> QED BY <1>1, <1>2, <1>3, <1>4, LostGoto

LEMMA BudgetStep ==
    ASSUME TInv, TypeOK', Budget, [Next]_vars
    PROVE  Budget' /\ Len(stream) <= Len(stream')
<1>0. TypeOK /\ Len(stream) \in Nat
  BY DEF TInv, TypeOK
<1>1. ASSUME NEW r \in Slots, Arrive(r) PROVE Budget' /\ stream' = stream
  BY <1>0, <1>1, BudgetArrive
     DEF Arrive, Create, Delete, UpdateRead, StatusRead, FileRead, ParseRead, IngestUpload
<1>2. ASSUME NEW r \in Slots, Step(r), ~Publish(r) PROVE Budget' /\ stream' = stream
  BY <1>0, <1>2, LeftKept, OwedKept, BudgetKept, FaultsLast
<1>3. ASSUME NEW r \in Slots, Publish(r) PROVE Budget' /\ Len(stream) <= Len(stream')
  BY <1>0, <1>3, BudgetPublish
<1>4. ASSUME NEW r \in Slots, Cancel(r) PROVE Budget' /\ stream' = stream
  <2>1. \A s \in Slots : Left(s)' = Left(s)
    BY <1>0, <1>4 DEF Cancel, Left, TypeOK, Request
  <2>2. Owed' = Owed
    BY <2>1 DEF Owed
  <2> QED BY <1>0, <1>4, <2>2, BudgetKept DEF Cancel, Spend
<1>5. CASE Crash
  <2>1. \A s \in Slots : Left(s)' = 0
    BY <1>5, IdleFields, Futures DEF Crash, Left
  <2>2. Owed' \subseteq Owed
    BY <2>1 DEF Owed
  <2> QED BY <1>0, <1>5, <2>2, BudgetKept DEF Crash, Spend
<1>6. CASE UNCHANGED vars
  BY <1>0, <1>6 DEF vars, Budget, Owed, Left
<1>7. ASSUME NEW r \in Slots, ReplyLost(r) PROVE Budget' /\ stream' = stream
  BY <1>0, <1>7, LostKeepsLeft, OwedKept, BudgetKept DEF ReplyLost, Spend
<1>8. ASSUME NEW r \in Slots, ArrivalLost(r) PROVE Budget' /\ stream' = stream
  <2>1. /\ stream' = stream /\ req' = req /\ faults' = faults + 1 /\ started' = started + 1
    BY <1>8 DEF ArrivalLost, Accept, Spend
  <2>2. Owed' = Owed
    BY <2>1 DEF Owed, Left
  <2>3. Cardinality(Owed) \in Nat
    BY FS_CardinalityType DEF Budget
  <2> QED BY <1>0, <2>1, <2>2, <2>3 DEF Budget, TypeOK
<1> QED BY <1>0, <1>1, <1>2, <1>3, <1>4, <1>5, <1>6, <1>7, <1>8 DEF Next

LEMMA InitBudget == Init => Budget
<1> SUFFICES ASSUME Init PROVE Budget
  OBVIOUS
<1>1. \A r \in Slots : Left(r) = 0
  BY IdleFields, Futures DEF Init, Left
<1>2. Owed = {}
  BY <1>1 DEF Owed
<1> QED BY <1>2, FS_EmptySet DEF Init, Budget

(* 3 * MaxRequests + MaxFaults entries are room enough. *)
LEMMA StreamFits ==
    ASSUME BoundAssumption, TypeOK, Budget
    PROVE  Len(stream) \in 0..MaxEntries /\ MaxEntries \in Nat
<1>1. Cardinality(Owed) \in Nat
  BY FS_CardinalityType DEF Budget
<1> QED BY <1>1 DEF Budget, TypeOK, MaxEntries, BoundAssumption

-----------------------------------------------------------------------------
(* The two services.  Each step of the pipeline is a step of resume-service *)
(* that leaves the consumers alone, or a step of a consumer; to the loop   *)
(* the first is a publisher's.                                             *)

PipeInv ==
    /\ TInv
    /\ Budget
    /\ SCP!IInv
    /\ docs \in [Ids -> Doc]
    /\ acceptsNow \in BOOLEAN

(* A consumer's step leaves resume-service alone but for the faults left. *)
ConsumerMoves ==
    /\ UNCHANGED <<serviceVars, acceptsNow>>
    /\ faults' = faults \/ (faults < MaxFaults /\ faults' = faults + 1)

LEMMA LoopAssumption == SCP!ConsumerAssumption
BY PipelineAssumption, BoundAssumption DEF SCP!ConsumerAssumption, MaxEntries

LEMMA ServiceGrows ==
    ASSUME PipeInv, Service \/ UNCHANGED pipelineVars
    PROVE  TInv' /\ Budget' /\ SCP!Grow /\ UNCHANGED <<docs, acceptsNow>>
<1>1. [Next]_vars /\ UNCHANGED <<indexVars, consumption>>
  BY DEF Service, pipelineVars
<1>2. TInv'
  <2>1. TInv
    BY DEF PipeInv
  <2> QED BY <1>1, <2>1, NextTInv, SentinelAssumption, BoundAssumption
<1>3. Budget' /\ Len(stream) <= Len(stream')
  BY <1>1, <1>2, BudgetStep DEF PipeInv, TInv
<1>4. Len(stream') \in 0..MaxEntries /\ MaxEntries \in Nat /\ Len(stream) \in Nat
  <2>1. Cardinality(Owed') \in Nat
    BY <1>3, FS_CardinalityType DEF Budget
  <2> QED BY <1>2, <1>3, <2>1, BoundAssumption DEF Budget, PipeInv, TInv, TypeOK, MaxEntries
<1>5. faults' \in 0..MaxFaults
  BY <1>2 DEF TInv, TypeOK
<1> QED BY <1>1, <1>2, <1>3, <1>4, <1>5 DEF SCP!Grow, SCP!loop, consumption, indexVars

LEMMA HandleSame ==
    ASSUME NEW c, NEW e, NEW ok, SC!Handle(c, e, ok), UNCHANGED serviceVars
    PROVE  SCP!Handle(c, e, ok)
BY DEF SC!Handle, SCP!Handle, SC!OldestOfBatch, SCP!OldestOfBatch, SC!redis, SCP!redis, serviceVars

LEMMA ConsumerOpens ==
    ASSUME PipeInv, NEW c \in Consumers, ConsumerStep(c) \/ handleSearchEvent(c) \/ ConsumerFault(c)
    PROVE  ConsumerMoves /\ SCP!OpenNext /\ docs' \in [Ids -> Doc]
<1>0. /\ faults \in 0..MaxFaults /\ MaxFaults \in Nat /\ stream \in Seq(Event)
      /\ Len(stream) \in 0..MaxEntries /\ MaxEntries \in Nat /\ docs \in [Ids -> Doc]
  BY StreamFits, BoundAssumption DEF PipeInv, TInv, TypeOK, BoundAssumption
<1>1. CASE ConsumerStep(c)
  <2>1. CASE SC!Start(c)
    <3>1. SCP!Start(c)
      BY <1>1, <2>1 DEF SC!Start, SCP!Start, SC!GroupStart, SCP!GroupStart
    <3> QED BY <1>0, <1>1, <2>1, <3>1
            DEF ConsumerStep, SC!Start, ConsumerMoves, SCP!OpenNext, indexVars
  <2>2. CASE SC!Read(c)
    <3>1. SCP!Read(c)
      BY <1>1, <2>2 DEF SC!Read, SCP!Read, SC!Take, SCP!Take, SC!NewMessages, SCP!NewMessages,
                        SC!Idle, SCP!Idle, SC!Lesser, SCP!Lesser
    <3> QED BY <1>0, <1>1, <2>2, <3>1
            DEF ConsumerStep, SC!Read, ConsumerMoves, SCP!OpenNext, indexVars
  <2>3. CASE SC!Ack(c)
    <3>1. SCP!Ack(c)
      BY <1>1, <2>3 DEF SC!Ack, SCP!Ack, SC!AckedBy, SCP!AckedBy, SC!Spend, SCP!Spend
    <3> QED BY <1>0, <1>1, <2>3, <3>1
            DEF ConsumerStep, SC!Ack, SC!Spend, ConsumerMoves, SCP!OpenNext, indexVars
  <2> QED BY <1>1, <2>1, <2>2, <2>3 DEF ConsumerStep
<1>2. CASE handleSearchEvent(c)
  <2>1. PICK e \in DOMAIN stream, ok \in BOOLEAN :
          /\ SC!Handle(c, e, ok)
          /\ docs' = docs \/ docs' = AfterEvent(stream[e])
          /\ faults' = faults \/ Spend("call")
    BY <1>2 DEF handleSearchEvent
  <2>2. SCP!Handle(c, e, ok)
    BY <1>2, <2>1, HandleSame DEF handleSearchEvent
  <2>3. e \in SCP!Entries /\ stream[e] \in Event
    BY <1>0, <2>1 DEF SCP!Entries
  <2>4. ConsumerMoves /\ faults' \in 0..MaxFaults
    BY <1>0, <1>2, <2>1 DEF handleSearchEvent, ConsumerMoves, Spend
  <2>5. AfterEvent(stream[e]) \in [Ids -> Doc]
    <3> DEFINE event == stream[e]
    <3>1. event.id \in Ids /\ event.doc \in Row /\ event.new \in RowStatuses
      BY <2>3 DEF Event
    <3> HIDE DEF event
    <3>2. buildResumeDocument(event.doc) \in Doc /\ NoDoc \in Doc
      BY <3>1 DEF buildResumeDocument, Row, Doc, NoDoc, RowStatuses
    <3>3. IndexResume(event) \in [Ids -> Doc] /\ DeleteResume(event) \in [Ids -> Doc]
      BY <1>0, <3>2 DEF IndexResume, DeleteResume
    <3>4. UpdateResumeStatus(event) \in [Ids -> Doc]
      BY <1>0, <3>1 DEF UpdateResumeStatus, Doc
    <3>5. AfterEvent(event) \in
            {IndexResume(event), DeleteResume(event), UpdateResumeStatus(event), docs}
      BY DEF AfterEvent
    <3> QED BY <1>0, <3>3, <3>4, <3>5 DEF event
  <2> QED BY <1>0, <2>1, <2>2, <2>3, <2>4, <2>5 DEF SCP!OpenNext, SCP!HandleAny
<1>3. CASE ConsumerFault(c)
  <2>1. CASE SC!ReadLost(c)
    <3>1. SCP!ReadLost(c)
      BY <1>3, <2>1 DEF SC!ReadLost, SCP!ReadLost, SC!Take, SCP!Take, SC!NewMessages,
                        SCP!NewMessages, SC!Idle, SCP!Idle, SC!Lesser, SCP!Lesser, SC!Spend,
                        SCP!Spend, SC!loop, SCP!loop
    <3> QED BY <1>0, <1>3, <2>1, <3>1
            DEF ConsumerFault, SC!ReadLost, SC!Spend, ConsumerMoves, SCP!OpenNext, indexVars
  <2>2. CASE SC!Stop(c)
    <3>1. SCP!Stop(c)
      BY <1>3, <2>2 DEF SC!Stop, SCP!Stop, SC!Spend, SCP!Spend, SC!redis, SCP!redis
    <3> QED BY <1>0, <1>3, <2>2, <3>1
            DEF ConsumerFault, SC!Stop, SC!Spend, ConsumerMoves, SCP!OpenNext, indexVars
  <2> QED BY <1>3, <2>1, <2>2 DEF ConsumerFault
<1> QED BY <1>1, <1>2, <1>3

LEMMA MovesKeep ==
    ASSUME TInv, Budget, ConsumerMoves
    PROVE  TInv' /\ Budget'
<1>1. /\ UNCHANGED <<rows, used, objects, stream, req, publisher, started>>
      /\ faults \in 0..MaxFaults
      /\ faults' = faults \/ (faults < MaxFaults /\ faults' = faults + 1)
  BY DEF ConsumerMoves, serviceVars, TInv, TypeOK
<1>2. TInv'
  <2>1. faults' \in 0..MaxFaults
    BY <1>1, BoundAssumption DEF BoundAssumption
  <2>2. HasId'
    BY <1>1 DEF TInv, HasId
  <2>3. TypeOK'
    BY <1>1, <2>1 DEF TInv, TypeOK
  <2> QED BY <2>2, <2>3 DEF TInv
<1>3. Owed' = Owed /\ Cardinality(Owed) \in Nat
  BY <1>1, FS_CardinalityType DEF Owed, Left, Budget
<1> QED BY <1>1, <1>2, <1>3 DEF Budget, TInv, TypeOK

LEMMA NextOpen ==
    ASSUME PipeInv, [PipelineNext]_pipelineVars
    PROVE  PipeInv' /\ SCP!OpenNext
<1>1. CASE Service \/ UNCHANGED pipelineVars
  <2>1. TInv' /\ Budget' /\ SCP!Grow /\ UNCHANGED <<docs, acceptsNow>>
    BY <1>1, ServiceGrows
  <2>2. SCP!OpenNext
    BY <2>1 DEF SCP!OpenNext
  <2>3. SCP!IInv'
    BY <2>2, LoopAssumption, SCP!OpenIInv DEF PipeInv
  <2> QED BY <2>1, <2>2, <2>3 DEF PipeInv
<1>2. ASSUME NEW c \in Consumers, ConsumerStep(c) \/ handleSearchEvent(c) \/ ConsumerFault(c)
      PROVE  PipeInv' /\ SCP!OpenNext
  <2>1. ConsumerMoves /\ SCP!OpenNext /\ docs' \in [Ids -> Doc]
    BY <1>2, ConsumerOpens
  <2>2. SCP!IInv'
    BY <2>1, LoopAssumption, SCP!OpenIInv DEF PipeInv
  <2>3. TInv' /\ Budget' /\ acceptsNow' \in BOOLEAN
    BY <2>1, MovesKeep DEF PipeInv, ConsumerMoves
  <2> QED BY <2>1, <2>2, <2>3 DEF PipeInv
<1> QED BY <1>1, <1>2 DEF PipelineNext

LEMMA InitPipe == PipelineInit => PipeInv /\ SCP!Init
<1> SUFFICES ASSUME PipelineInit PROVE PipeInv /\ SCP!Init
  OBVIOUS
<1>1. Init /\ docs = [id \in Ids |-> NoDoc] /\ acceptsNow \in BOOLEAN
  BY PipelineAssumption DEF PipelineInit, PipelineAssumption
<1>2. TInv /\ Budget
  BY <1>1, InitTInv, InitBudget, BoundAssumption
<1>3. SCP!Init
  <2>1. Len(stream) = 0 /\ faults = 0
    BY <1>1 DEF Init
  <2>2. SC!ConsumerInit
    BY DEF PipelineInit
  <2> QED BY <2>1, <2>2 DEF SCP!Init, SC!ConsumerInit, SCP!ConsumerInit, SC!Entries, SCP!Entries
<1>4. SCP!IInv
  BY <1>3, LoopAssumption, SCP!InitIInv
<1>5. NoDoc \in Doc
  BY DEF NoDoc, Doc, RowStatuses
<1> QED BY <1>1, <1>2, <1>3, <1>4, <1>5 DEF PipeInv

LEMMA PipeBehaviour == PipelineSpec => []PipeInv
<1>1. PipeInv /\ [PipelineNext]_pipelineVars => PipeInv'
  BY NextOpen
<1> QED BY <1>1, InitPipe, PTL DEF PipelineSpec

(* Composed with resume-service, too, every variable keeps its type: the   *)
(* offsets and pending entries of the group lie in the stream, which never *)
(* grows beyond three entries for each request and one for each fault.     *)
THEOREM PipelineTypes == PipelineSpec => []PipelineTypeOK
<1>1. PipeInv => PipelineTypeOK
  BY DEF PipeInv, PipelineTypeOK, TInv, SCP!IInv, SCP!TypeOK, SC!TypeOK, SCP!Entries, SC!Entries
<1> QED BY <1>1, PipeBehaviour, PTL

(* What resume-service publishes reaches handleSearchEvent at most once,   *)
(* although XADD may be repeated: a repetition is an entry of its own.     *)
THEOREM PublishedHandledOnce == PipelineSpec => []SC!HandledAtMostOnce
<1>1. PipeInv => SC!HandledAtMostOnce
  BY DEF PipeInv, SCP!IInv, SCP!HandledAtMostOnce, SC!HandledAtMostOnce, SCP!Entries, SC!Entries
<1> QED BY <1>1, PipeBehaviour, PTL

(* What resume-service published and the group has passed was applied to   *)
(* the index or is still listed as pending.                                *)
THEOREM PublishedNotLost == PipelineSpec => []SC!NoSilentLoss
<1>1. PipeInv => SC!NoSilentLoss
  BY DEF PipeInv, SCP!IInv, SCP!NoSilentLoss, SC!NoSilentLoss
<1> QED BY <1>1, PipeBehaviour, PTL

(* The two services together implement the abstract delivery of events.    *)
THEOREM PipelineDelivers == PipelineSpec => SC!ImplementsDelivery
<1>1. PipelineInit => SC!Delivery!Init
  <2>1. SCP!Init => SCP!Delivery!Init
    BY LoopAssumption, SCP!InitDelivery
  <2> QED BY <2>1, InitPipe DEF SCP!Delivery!Init, SC!Delivery!Init, SCP!Delivery!Entries,
             SC!Delivery!Entries, SCP!Entries, SC!Entries, SCP!Fate, SC!Fate
<1>2. PipeInv /\ [PipelineNext]_pipelineVars =>
        [SC!Delivery!Next]_[e \in SC!Entries |-> SC!Fate(e)]
  <2>1. ASSUME PipeInv, [PipelineNext]_pipelineVars
        PROVE  SCP!Delivery!Next \/ UNCHANGED [e \in SCP!Entries |-> SCP!Fate(e)]
    <3>1. SCP!IInv /\ SCP!OpenNext
      BY <2>1, NextOpen DEF PipeInv
    <3> QED BY <3>1, LoopAssumption, SCP!OpenDelivery
  <2> QED BY <2>1
       DEF SCP!Delivery!Next, SC!Delivery!Next, SCP!Delivery!Publish, SC!Delivery!Publish,
        SCP!Delivery!Deliver, SC!Delivery!Deliver, SCP!Delivery!Attempt, SC!Delivery!Attempt,
        SCP!Delivery!Abandon, SC!Delivery!Abandon, SCP!Delivery!Move, SC!Delivery!Move,
        SCP!Delivery!Entries, SC!Delivery!Entries, SCP!Entries, SC!Entries, SCP!Fate, SC!Fate
<1> QED BY <1>1, <1>2, PipeBehaviour, PTL DEF PipelineSpec, SC!ImplementsDelivery, SC!Delivery!Spec

-----------------------------------------------------------------------------
(* Deletions.  A client that waits for its answers deletes a resume after  *)
(* every other event about it was handed to Redis or given up, and one     *)
(* consumer applies the entries in the order of the stream: nothing about  *)
(* a deleted resume comes after its deletion.                              *)

OneConsumer == \A c, d \in Consumers : c = d

(* An event still to be published is a deletion, or its resume exists. *)
Live(e) == e = Deleted(e.id) \/ (e.action # "deleted" /\ Exists(e.id))

OutLive == \A r \in Slots : \A i \in DOMAIN req[r].out : Live(req[r].out[i])

DeletionsLast ==
    \A i \in DOMAIN stream : stream[i].action = "deleted" =>
        /\ stream[i] = Deleted(stream[i].id)
        /\ \A j \in DOMAIN stream :
             j > i /\ stream[j].id = stream[i].id => stream[j].action = "deleted"

InOrder == \A c \in Consumers : \A b \in batch[c], e \in applied : e < b

ServiceInv == TInv /\ FinalInv /\ AloneInv /\ OutLive /\ DeletionsLast

LeavesInv == PipeInv /\ ServiceInv /\ InOrder /\ DeletedLeavesIndex

(* An event that tells a status, and the one of its document if it has one.*)
WellFormed(e) ==
    /\ e.action \in {"created", "updated"} => e.new = e.doc.status
    /\ e.new = "absent" <=> e.action \in {"deleted", "parsed"}

(* Events about one resume, the first of which tells its status. *)
Tale(out, id) ==
    /\ About(out, id)
    /\ \A i \in DOMAIN out : WellFormed(out[i])
    /\ 1 \in DOMAIN out
    /\ out[1].action # "parsed"

(* A call that leaves r with nothing to publish, or with a tale of a row:  *)
(* its deletion, or events about a row that exists and was told of before, *)
(* unless they begin with its creation.                                    *)
Announcing(r) ==
    /\ UNCHANGED stream
    /\ req[r].out = << >>
    /\ \/ req'[r].out = << >> /\ UNCHANGED used
       \/ \E id \in Ids :
            /\ Tale(req'[r].out, id)
            /\ used' = used \cup {id}
            /\ id \in used \/ req'[r].out[1].action = "created"
            /\ \/ \A i \in DOMAIN req'[r].out : req'[r].out[i] = Deleted(id)
               \/ NoDeletion(req'[r].out) /\ rows'[id].status # "absent"

LEMMA AnnounceLive ==
    ASSUME OneClient, NEW r \in Slots, Announcing(r)
    PROVE  OutLive'
<1>1. CASE req'[r].out = << >>
  BY <1>1 DEF OneClient, OutLive
<1>2. ASSUME NEW id, \A i \in DOMAIN req'[r].out : req'[r].out[i] = Deleted(id)
      PROVE  OutLive'
  <2>1. Deleted(id).id = id
    BY DEF Deleted, buildResumeEventPayload
  <2> QED BY <1>2, <2>1 DEF OneClient, OutLive, Live
<1>3. ASSUME NEW id, About(req'[r].out, id), NoDeletion(req'[r].out), rows'[id].status # "absent"
      PROVE  OutLive'
  BY <1>3 DEF OneClient, OutLive, About, NoDeletion, Live, Exists
<1> QED BY <1>1, <1>2, <1>3 DEF Announcing, Tale

(* What the handlers publish. *)
LEMMA Tales ==
    ASSUME NEW id, NEW row, NEW old, NEW new
    PROVE  /\ Tale(<<Deleted(id)>>, id)
           /\ row.status # "absent" =>
                /\ Tale(<<Created(id, row)>>, id) /\ <<Created(id, row)>>[1].action = "created"
                /\ Tale(<<Updated(id, row)>>, id)
           /\ new # "absent" =>
                /\ Tale(<<StatusChanged(id, old, new)>>, id)
                /\ Tale(<<StatusChanged(id, old, new), Parsed(id)>>, id)
<1>1. /\ Deleted(id).action = "deleted" /\ WellFormed(Deleted(id)) /\ WellFormed(Parsed(id))
      /\ Created(id, row).action = "created" /\ Updated(id, row).action = "updated"
      /\ StatusChanged(id, old, new).action = "status_changed"
      /\ row.status # "absent" => WellFormed(Created(id, row)) /\ WellFormed(Updated(id, row))
      /\ new # "absent" => WellFormed(StatusChanged(id, old, new))
  BY DEF WellFormed, Created, Updated, Deleted, Parsed, StatusChanged, buildResumeEventPayload,
         NoRow
<1>2. ASSUME NEW e, WellFormed(e), e.action # "parsed", About(<<e>>, id)
      PROVE  Tale(<<e>>, id)
  BY <1>2 DEF Tale
<1>3. ASSUME NEW e, WellFormed(e), e.action # "parsed", NEW f, WellFormed(f), About(<<e, f>>, id)
      PROVE  Tale(<<e, f>>, id)
  BY <1>3 DEF Tale
<1>4. /\ Tale(<<Deleted(id)>>, id)
      /\ row.status # "absent" => Tale(<<Created(id, row)>>, id) /\ Tale(<<Updated(id, row)>>, id)
      /\ new # "absent" => Tale(<<StatusChanged(id, old, new)>>, id)
  BY <1>1, <1>2, Announcements
<1>5. new # "absent" => Tale(<<StatusChanged(id, old, new), Parsed(id)>>, id)
  BY <1>1, <1>3, Announcements
<1>6. \A e : <<e>>[1] = e
  OBVIOUS
<1> QED BY <1>1, <1>4, <1>5, <1>6

LEMMA IngestTales ==
    ASSUME NEW id, NEW row, row.status # "absent",
           NEW more, more = << >> \/ more = <<Parsed(id)>>
    PROVE  LET out == <<Created(id, row), StatusChanged(id, "pending", row.status)>> \o more
           IN  Tale(out, id) /\ out[1].action = "created" /\ NoDeletion(out)
<1> DEFINE a == Created(id, row)
           b == StatusChanged(id, "pending", row.status)
           c == Parsed(id)
           S == {a, b, c}
           out == <<a, b>> \o more
<1>1. a.action = "created" /\ WellFormed(a) /\ WellFormed(b) /\ WellFormed(c)
  BY DEF WellFormed, Created, Parsed, StatusChanged, buildResumeEventPayload, NoRow
<1>2. About(out, id) /\ NoDeletion(out)
  BY IngestAnnouncements, OtherEvents
<1>3. /\ out[1] = a /\ 1 \in DOMAIN out /\ \A i \in DOMAIN out : out[i] \in S
  <2> HIDE DEF a, b, c
  <2>1. a \in S /\ b \in S /\ c \in S
    OBVIOUS
  <2> HIDE DEF S
  <2>2. CASE more = << >>
    <3>1. out = <<a, b>>
      BY <2>1, <2>2, ShortConcat
    <3>2. DOMAIN <<a, b>> = {1, 2} /\ <<a, b>>[1] = a /\ <<a, b>>[2] = b
      OBVIOUS
    <3> QED BY <2>1, <3>1, <3>2
  <2>3. CASE more = <<c>>
    <3>1. out = <<a, b>> \o <<c>>
      BY <2>3
    <3> HIDE DEF out
    <3>2. DOMAIN out = 1..3 /\ out[1] = a /\ out[2] = b /\ out[3] = c
      BY <2>1, <3>1, ThreeEvents
    <3>3. 1 \in 1..3 /\ \A i \in 1..3 : i = 1 \/ i = 2 \/ i = 3
      OBVIOUS
    <3> QED BY <2>1, <3>2, <3>3
  <2> QED BY <2>2, <2>3 DEF c
<1>4. \A i \in DOMAIN out : WellFormed(out[i])
  <2>1. \A e \in S : WellFormed(e)
    BY <1>1
  <2> HIDE DEF S, WellFormed
  <2> QED BY <1>3, <2>1
<1> HIDE DEF a, b, c, S
<1>5. Tale(out, id)
  <2>1. out[1].action # "parsed"
    BY <1>1, <1>3
  <2> QED BY <1>2, <1>3, <1>4, <2>1 DEF Tale
<1> QED BY <1>1, <1>2, <1>3, <1>5 DEF a, b, c

LEMMA ArriveAnnounces ==
    ASSUME TInv, FinalInv, NEW r \in Slots, Arrive(r)
    PROVE  Announcing(r)
<1>0. stream' = stream /\ req[r].out = << >> /\ used \subseteq Ids
  BY IdleFields DEF Arrive, Create, Delete, UpdateRead, StatusRead, FileRead, ParseRead,
                    IngestUpload, Accept, TInv, TypeOK
<1>1. ASSUME NEW next, NEW id, NEW row, NEW old, NEW out,
             req' = [req EXCEPT ![r] = Handler(next, id, row, old, out)]
      PROVE  req'[r].out = out
  BY <1>1 DEF Handler, TInv, TypeOK
<1>2. CASE Create(r)
  <2>1. PICK id \in Ids \ used : \E row :
          /\ Insert(id, row) /\ row.status = "pending"
          /\ req' = [req EXCEPT ![r] = Handler("done", id, row, "absent", <<Created(id, row)>>)]
    BY <1>2 DEF Create
  <2>2. PICK row :
          /\ Insert(id, row) /\ row.status = "pending"
          /\ req' = [req EXCEPT ![r] = Handler("done", id, row, "absent", <<Created(id, row)>>)]
    BY <2>1
  <2>3. /\ req'[r].out = <<Created(id, row)>> /\ rows'[id].status # "absent"
        /\ used' = used \cup {id}
    BY <1>1, <2>2 DEF Insert, TInv, TypeOK
  <2>4. Tale(req'[r].out, id) /\ req'[r].out[1].action = "created" /\ NoDeletion(req'[r].out)
    <3>1. Tale(<<Created(id, row)>>, id) /\ <<Created(id, row)>>[1].action = "created"
      BY <2>2, Tales
    <3>2. NoDeletion(<<Created(id, row)>>)
      BY OtherEvents
    <3> QED BY <2>3, <3>1, <3>2
  <2> QED BY <1>0, <2>3, <2>4 DEF Announcing
<1>3. CASE Delete(r)
  <2>1. PICK id \in Ids :
          /\ Exists(id) /\ UNCHANGED used
          /\ req' = [req EXCEPT ![r] = Handler("done", id, NoRow, "absent", <<Deleted(id)>>)]
    BY <1>3 DEF Delete
  <2>2. req'[r].out = <<Deleted(id)>> /\ id \in used
    BY <1>1, <2>1 DEF FinalInv
  <2>3. Tale(req'[r].out, id)
    BY <2>2, Tales
  <2>4. \A i \in DOMAIN req'[r].out : req'[r].out[i] = Deleted(id)
    BY <2>2
  <2> QED BY <1>0, <2>1, <2>2, <2>3, <2>4 DEF Announcing
<1>4. ASSUME NEW next, NEW id, NEW row, NEW old, UNCHANGED used,
             req' = [req EXCEPT ![r] = Handler(next, id, row, old, << >>)]
      PROVE  Announcing(r)
  BY <1>0, <1>1, <1>4 DEF Announcing
<1>5. CASE UpdateRead(r) \/ StatusRead(r) \/ FileRead(r) \/ ParseRead(r) \/ IngestUpload(r)
  BY <1>4, <1>5 DEF UpdateRead, StatusRead, FileRead, ParseRead, IngestUpload
<1> QED BY <1>2, <1>3, <1>5 DEF Arrive

LEMMA StepAnnounces ==
    ASSUME TInv, FinalInv, AloneInv, NEW r \in Slots, Step(r), ~Publish(r)
    PROVE  Announcing(r)
<1> DEFINE id == req[r].id
<1>0. req[r].pc \in OnRow => id \in Ids /\ Exists(id) /\ id \in used
  <2>1. {"idle", "ingest.insert", "ingest.cleanup"} \cap OnRow = {}
    BY DEF OnRow, ParsingPcs
  <2> QED BY <2>1 DEF AloneInv, Unshared, TInv, HasId, FinalInv
(* Nothing to publish. *)
<1>1. ASSUME NEW prev, At(r, prev), UNCHANGED <<used, stream>>, req'[r].out = << >>
      PROVE  Announcing(r)
  BY <1>1 DEF Announcing, At
<1>2. ASSUME NEW prev, At(r, prev), UNCHANGED <<used, stream>>,
             Respond(r) \/ \E next : Goto(r, next)
      PROVE  Announcing(r)
  <2>1. req'[r].out = << >>
    BY <1>2, RespondFields, IdleFields, GotoFields DEF At
  <2> QED BY <1>1, <1>2, <2>1
(* Events about the row. *)
<1>3. ASSUME NEW prev \in OnRow, At(r, prev), UNCHANGED <<used, stream>>, NEW out,
             req'[r].out = out, Tale(out, id), NoDeletion(out), rows'[id].status # "absent"
      PROVE  Announcing(r)
  <2>1. id \in Ids /\ used' = used \cup {id} /\ id \in used /\ req[r].out = << >>
    BY <1>0, <1>3 DEF At
  <2> QED BY <1>3, <2>1 DEF Announcing
<1>4. ASSUME NEW prev \in OnRow, At(r, prev), UNCHANGED <<used, stream>>, NEW out,
             ThenPublish(r, out), Tale(out, id), NoDeletion(out), rows'[id].status # "absent"
      PROVE  Announcing(r)
  BY <1>3, <1>4, PublishFields
<1>5. CASE UpdateWrite(r)
  BY <1>2, <1>5 DEF UpdateWrite
<1>6. CASE Refetch(r)
  <2> DEFINE out == <<Updated(id, rows[id])>>
  <2>1. CASE Hits(r) /\ ThenPublish(r, out)
    <3>1. "refetch" \in OnRow /\ At(r, "refetch") /\ UNCHANGED <<used, stream, rows>>
      BY <1>6 DEF Refetch, OnRow
    <3>2. rows'[id].status # "absent" /\ rows[id].status # "absent"
      BY <2>1, <3>1 DEF Hits, Affects, Exists
    <3>3. Tale(out, id)
      BY <3>2, Tales
    <3>4. NoDeletion(out)
      BY OtherEvents
    <3> HIDE DEF out
    <3> QED BY <1>4, <2>1, <3>1, <3>2, <3>3, <3>4
  <2> QED BY <1>2, <1>6, <2>1 DEF Refetch
<1>7. CASE StatusWrite(r)
  BY <1>2, <1>7 DEF StatusWrite
<1>8. CASE StatusRefetch(r)
  <2> DEFINE out == <<StatusChanged(id, req[r].old, req[r].row.status)>>
  <2>1. CASE Hits(r) /\ ThenPublish(r, out)
    <3>1. "status.refetch" \in OnRow /\ At(r, "status.refetch") /\ UNCHANGED <<used, stream, rows>>
      BY <1>8 DEF StatusRefetch, OnRow
    <3>2. rows'[id].status # "absent" /\ rows[id].status # "absent"
      BY <2>1, <3>1 DEF Hits, Affects, Exists
    <3>3. req[r].row.status = rows[id].status
      BY <3>1 DEF At, AloneInv, Unshared
    <3>4. Tale(out, id)
      BY <3>2, <3>3, Tales
    <3>5. NoDeletion(out)
      BY OtherEvents
    <3> HIDE DEF out
    <3> QED BY <1>4, <2>1, <3>1, <3>2, <3>4, <3>5
  <2> QED BY <1>2, <1>8, <2>1 DEF StatusRefetch
<1>9. CASE FileUpload(r)
  <2>1. ASSUME NEW key, req' = [req EXCEPT ![r].pc = "file.write", ![r].row.file = key]
        PROVE  req'[r].out = req[r].out
    BY <2>1 DEF TInv, TypeOK, Request
  <2>2. At(r, "file.upload") /\ UNCHANGED <<used, stream>>
    BY <1>9 DEF FileUpload
  <2>3. CASE Respond(r)
    BY <1>2, <2>2, <2>3
  <2> QED BY <1>1, <1>9, <2>1, <2>2, <2>3 DEF FileUpload, At
<1>10. CASE FileWrite(r)
  BY <1>2, <1>10 DEF FileWrite
<1>11. CASE ParseClaim(r)
  <2>1. ASSUME WriteStatus(id, "processing"),
               req' = [req EXCEPT ![r].pc = "parse.run", ![r].row = LocalClaim(req[r].row),
                                  ![r].out = <<StatusChanged(id, req[r].old, "processing")>>]
        PROVE  Announcing(r)
    <3> DEFINE out == <<StatusChanged(id, req[r].old, "processing")>>
    <3>1. req'[r].out = out
      BY <2>1 DEF TInv, TypeOK, Request
    <3>2. "parse.claim" \in OnRow /\ At(r, "parse.claim") /\ UNCHANGED <<used, stream>>
      BY <1>11 DEF ParseClaim, OnRow
    <3>3. id \in Ids
      BY <1>0, <3>2 DEF At
    <3>4. rows'[id].status # "absent"
      <4>1. rows'[id].status = "processing"
        BY <2>1, <3>3, Written
      <4> QED BY <4>1
    <3>5. Tale(out, id) /\ NoDeletion(out)
      <4>1. ASSUME NEW old
            PROVE  /\ Tale(<<StatusChanged(id, old, "processing")>>, id)
                   /\ NoDeletion(<<StatusChanged(id, old, "processing")>>)
        BY Tales, OtherEvents
      <4> QED BY <4>1
    <3> HIDE DEF out
    <3> QED BY <1>3, <3>1, <3>2, <3>4, <3>5
  <2> QED BY <1>2, <1>11, <2>1 DEF ParseClaim
<1>12. CASE ParseRun(r)
  <2>1. ASSUME NEW name, req' = [req EXCEPT ![r].pc = "parse.store", ![r].row.name = name,
                                            ![r].row.parsed = TRUE]
        PROVE  req'[r].out = req[r].out
    BY <2>1 DEF TInv, TypeOK, Request
  <2>2. At(r, "parse.run") /\ UNCHANGED <<used, stream>>
    BY <1>12 DEF ParseRun
  <2>3. \/ \E next : Goto(r, next)
        \/ \E name : req' = [req EXCEPT ![r].pc = "parse.store", ![r].row.name = name,
                                        ![r].row.parsed = TRUE]
    BY <1>12 DEF ParseRun
  <2> QED BY <1>1, <1>2, <2>1, <2>2, <2>3 DEF At
<1>13. CASE ParseStore(r)
  BY <1>2, <1>13 DEF ParseStore
<1>14. ASSUME NEW prev \in ParsingPcs, At(r, prev), UNCHANGED <<used, stream>>, NEW new,
              new # "absent", rows'[id].status # "absent",
              \/ ThenPublish(r, <<StatusChanged(id, "processing", new)>>)
              \/ ThenPublish(r, <<StatusChanged(id, "processing", new), Parsed(id)>>)
       PROVE  Announcing(r)
  <2>1. PICK out : /\ ThenPublish(r, out)
                   /\ \/ out = <<StatusChanged(id, "processing", new)>>
                      \/ out = <<StatusChanged(id, "processing", new), Parsed(id)>>
    BY <1>14
  <2>2. Tale(out, id)
    <3>1. /\ Tale(<<StatusChanged(id, "processing", new)>>, id)
          /\ Tale(<<StatusChanged(id, "processing", new), Parsed(id)>>, id)
      BY <1>14, Tales
    <3> QED BY <2>1, <3>1
  <2>3. NoDeletion(out)
    BY <2>1, OtherEvents
  <2>4. prev \in OnRow
    BY DEF OnRow
  <2> QED BY <1>4, <1>14, <2>1, <2>2, <2>3, <2>4
<1>15. CASE ParseFinish(r)
  <2>1. At(r, "parse.finish") /\ UNCHANGED <<used, stream>> /\ "parse.finish" \in ParsingPcs
    BY <1>15 DEF ParseFinish, ParsingPcs
  <2>2. id \in Ids
    BY <1>0, <2>1 DEF At, OnRow
  <2>3. ASSUME WriteStatus(id, "parsed"),
               ThenPublish(r, <<StatusChanged(id, "processing", "parsed"), Parsed(id)>>)
        PROVE  Announcing(r)
    <3>1. rows'[id].status = "parsed"
      BY <2>2, <2>3, Written
    <3>2. rows'[id].status # "absent" /\ "parsed" # "absent"
      BY <3>1
    <3> QED BY <1>14, <2>1, <2>3, <3>2
  <2> QED BY <1>2, <1>15, <2>3 DEF ParseFinish
<1>16. CASE ParseFail(r)
  <2>1. At(r, "parse.fail") /\ UNCHANGED <<used, stream>> /\ "parse.fail" \in ParsingPcs
    BY <1>16 DEF ParseFail, ParsingPcs
  <2>2. id \in Ids /\ Exists(id)
    BY <1>0, <2>1 DEF At, OnRow
  <2>3. rows'[id].status # "absent" /\ "failed" # "absent"
    <3>1. WriteStatus(id, "failed") => rows'[id].status = "failed"
      BY <2>2, Written
    <3>2. WriteStatus(id, "failed") \/ UNCHANGED rows
      BY <1>16 DEF ParseFail
    <3> QED BY <2>2, <3>1, <3>2 DEF Exists
  <2>4. ThenPublish(r, <<StatusChanged(id, "processing", "failed")>>)
    BY <1>16 DEF ParseFail
  <2> QED BY <1>14, <2>1, <2>3, <2>4
<1>17. CASE IngestInsert(r)
  <2>0. At(r, "ingest.insert") /\ stream' = stream /\ req[r].out = << >>
    BY <1>17 DEF IngestInsert, At
  <2>1. ASSUME NEW i \in Ids \ used, NEW row, row.status # "absent",
               Insert(i, row), ThenAnnounce(r, i, row)
        PROVE  Announcing(r)
    <3> DEFINE more == IF row.status = "parsed" THEN <<Parsed(i)>> ELSE << >>
               out == <<Created(i, row), StatusChanged(i, "pending", row.status)>> \o more
    <3>1. req'[r].out = out
      BY <2>1 DEF ThenAnnounce, Handler, TInv, TypeOK
    <3>2. Tale(out, i) /\ out[1].action = "created" /\ NoDeletion(out)
      <4>1. more = << >> \/ more = <<Parsed(i)>>
        OBVIOUS
      <4> HIDE DEF more
      <4> QED BY <2>1, <4>1, IngestTales
    <3>3. rows'[i].status # "absent" /\ used' = used \cup {i}
      BY <2>1 DEF Insert, TInv, TypeOK
    <3> HIDE DEF out
    <3> QED BY <2>0, <3>1, <3>2, <3>3 DEF Announcing
  <2>2. \A file, found : IngestRow(file, found).status # "absent"
    BY DEF IngestRow
  <2>3. CASE \E i \in Ids \ used, found \in Parse(TRUE) :
                LET row == IngestRow(req[r].row.file, found) IN
                Insert(i, row) /\ ThenAnnounce(r, i, row)
    <3>1. PICK i \in Ids \ used : \E row :
            row.status # "absent" /\ Insert(i, row) /\ ThenAnnounce(r, i, row)
      BY <2>2, <2>3
    <3> QED BY <2>1, <3>1
  <2>4. CASE Goto(r, "ingest.cleanup") /\ UNCHANGED used
    BY <1>2, <2>0, <2>4
  <2> QED BY <1>17, <2>3, <2>4 DEF IngestInsert, AfterFailedInsert
<1>18. CASE IngestCleanup(r)
  BY <1>2, <1>18 DEF IngestCleanup
<1> QED BY <1>5, <1>6, <1>7, <1>8, <1>9, <1>10, <1>11, <1>12, <1>13, <1>15, <1>16, <1>17, <1>18
        DEF Step

LEMMA LivePublish ==
    ASSUME OneClient, TInv, OutLive, NEW r \in Slots, Publish(r)
    PROVE  OutLive'
<1> DEFINE out == req[r].out
           q == [req[r] EXCEPT !.out = Tail(out)]
<1>1. /\ out \in Seq(Event) /\ out # << >> /\ rows' = rows
      /\ req'[r] = Idle \/ req'[r] = q
  BY DEF Publish, TInv, TypeOK, Request
<1>2. q.out = Tail(out)
  BY DEF TInv, TypeOK, Request
<1>3. \A i \in DOMAIN Tail(out) : i + 1 \in DOMAIN out /\ Tail(out)[i] = out[i + 1]
  BY <1>1
<1>4. \A i \in DOMAIN Tail(out) : Live(Tail(out)[i])
  BY <1>3 DEF OutLive
<1> HIDE DEF q, out
<1>5. CASE req'[r] = Idle
  BY <1>5, IdleFields DEF OneClient, OutLive
<1>6. CASE req'[r] = q
  BY <1>1, <1>2, <1>4, <1>6 DEF OneClient, OutLive, Live, Exists
<1> QED BY <1>1, <1>5, <1>6

(* What is in the stream stays where it is. *)
LEMMA StreamGrows ==
    ASSUME TInv, [Next]_vars
    PROVE  \/ stream' = stream
           \/ \E r \in Slots : Publish(r) /\ req[r].out # << >>
                 /\ (stream' = Append(stream, Head(req[r].out))
                     \/ stream' = stream \o <<Head(req[r].out), Head(req[r].out)>>)
<1>1. ASSUME NEW r \in Slots, Arrive(r) PROVE stream' = stream
  BY <1>1 DEF Arrive, Create, Delete, UpdateRead, StatusRead, FileRead, ParseRead, IngestUpload
<1>2. ASSUME NEW r \in Slots, Step(r), ~Publish(r) PROVE stream' = stream
  BY <1>2 DEF Step, UpdateWrite, Refetch, StatusWrite, StatusRefetch, FileUpload, FileWrite,
              ParseClaim, ParseRun, ParseStore, ParseFinish, ParseFail, IngestInsert, IngestCleanup
<1>3. ASSUME NEW r \in Slots, Publish(r)
      PROVE  \/ stream' = stream
             \/ Publish(r) /\ req[r].out # << >>
                 /\ (stream' = Append(stream, Head(req[r].out))
                     \/ stream' = stream \o <<Head(req[r].out), Head(req[r].out)>>)
  BY <1>3 DEF Publish
<1>4. (\E r \in Slots : ArrivalLost(r) \/ ReplyLost(r) \/ Cancel(r)) \/ Crash \/ UNCHANGED vars
      => stream' = stream
  BY DEF ArrivalLost, ReplyLost, Cancel, Crash, vars
<1> QED BY <1>1, <1>2, <1>3, <1>4 DEF Next

LEMMA PrefixKept ==
    ASSUME TInv, [Next]_vars
    PROVE  \A i \in DOMAIN stream : i \in DOMAIN stream' /\ stream'[i] = stream[i]
<1>1. CASE stream' = stream
  BY <1>1
<1>2. ASSUME NEW r \in Slots, req[r].out # << >>,
             \/ stream' = Append(stream, Head(req[r].out))
             \/ stream' = stream \o <<Head(req[r].out), Head(req[r].out)>>
      PROVE  \A i \in DOMAIN stream : i \in DOMAIN stream' /\ stream'[i] = stream[i]
  <2>1. stream \in Seq(Event) /\ Head(req[r].out) \in Event
    BY <1>2 DEF TInv, TypeOK, Request
  <2>2. /\ stream' \in Seq(Event) /\ Len(stream') > Len(stream)
        /\ \A i \in 1..Len(stream) : stream'[i] = stream[i]
    BY <1>2, <2>1, EntriesAdded
  <2>3. /\ DOMAIN stream = 1..Len(stream) /\ Len(stream) \in Nat
        /\ DOMAIN stream' = 1..Len(stream') /\ Len(stream') \in Nat
    BY <2>1, <2>2
  <2> QED BY <2>2, <2>3
<1> QED BY <1>1, <1>2, StreamGrows

LEMMA LastKept ==
    ASSUME OneClient, ServiceInv, [Next]_vars
    PROVE  DeletionsLast'
<1> USE DEF ServiceInv
<1>1. CASE stream' = stream
  BY <1>1 DEF DeletionsLast
<1>2. ASSUME NEW r \in Slots, req[r].out # << >>,
             \/ stream' = Append(stream, Head(req[r].out))
             \/ stream' = stream \o <<Head(req[r].out), Head(req[r].out)>>
      PROVE  DeletionsLast'
  <2> DEFINE e == Head(req[r].out)
             n == Len(stream)
  <2>1. /\ stream \in Seq(Event) /\ e \in Event /\ n \in Nat
        /\ 1 \in DOMAIN req[r].out /\ e = req[r].out[1]
    BY <1>2 DEF TInv, TypeOK, Request
  <2>2. stream' = Append(stream, e) \/ stream' = stream \o <<e, e>>
    BY <1>2
  <2>3. Live(e)
    BY <2>1 DEF OutLive
  <2> HIDE DEF e
  <2>4. /\ stream' \in Seq(Event) /\ Len(stream') > n
        /\ \A i \in 1..n : stream'[i] = stream[i]
        /\ \A i \in n + 1 .. Len(stream') : stream'[i] = e
    BY <2>1, <2>2, EntriesAdded
  <2>5. DOMAIN stream = 1..n /\ DOMAIN stream' = 1..Len(stream') /\ Len(stream') \in Nat
    BY <2>1, <2>4
  <2> HIDE DEF n
  <2>6. \A i \in DOMAIN stream' : (i \in DOMAIN stream /\ stream'[i] = stream[i]) \/ stream'[i] = e
    BY <2>1, <2>4, <2>5
  <2>7. \A i \in DOMAIN stream, j \in DOMAIN stream' :
           j \notin DOMAIN stream => stream'[j] = e
    BY <2>6
  (* Nothing is still to be told of a resume whose deletion is in the stream. *)
  <2>8. ASSUME NEW i \in DOMAIN stream, stream[i].action = "deleted", e.id = stream[i].id
        PROVE  e.action = "deleted"
    <3>1. stream[i] = Deleted(e.id) /\ e.id \in Ids
      BY <2>1, <2>5, <2>8 DEF DeletionsLast, Event
    <3>2. ~Exists(e.id)
      BY <2>8, <3>1 DEF FinalInv, Announced, Deletions
    <3>3. Deleted(e.id).action = "deleted"
      BY DeletedAction
    <3> QED BY <2>3, <3>2, <3>3 DEF Live
  <2>9. ASSUME NEW i \in DOMAIN stream', stream'[i].action = "deleted"
        PROVE  /\ stream'[i] = Deleted(stream'[i].id)
               /\ \A j \in DOMAIN stream' :
                    j > i /\ stream'[j].id = stream'[i].id => stream'[j].action = "deleted"
    <3>1. CASE i \in DOMAIN stream
      <4>1. stream'[i] = stream[i] /\ stream[i] = Deleted(stream[i].id)
        BY <2>4, <2>5, <2>9, <3>1 DEF DeletionsLast
      <4>2. ASSUME NEW j \in DOMAIN stream', j > i, stream'[j].id = stream'[i].id
            PROVE  stream'[j].action = "deleted"
        <5>1. CASE j \in DOMAIN stream /\ stream'[j] = stream[j]
          BY <2>9, <3>1, <4>1, <4>2, <5>1 DEF DeletionsLast
        <5>2. CASE stream'[j] = e
          BY <2>8, <2>9, <3>1, <4>1, <4>2, <5>2
        <5> QED BY <2>6, <5>1, <5>2
      <4> QED BY <4>1, <4>2
    <3>2. CASE i \notin DOMAIN stream
      <4>1. stream'[i] = e
        BY <2>6, <3>2
      <4>2. e = Deleted(e.id)
        BY <2>3, <2>9, <4>1 DEF Live
      <4>3. \A j \in DOMAIN stream' : j > i => j \notin DOMAIN stream
        BY <2>1, <2>5, <3>2
      <4>4. \A j \in DOMAIN stream' : j > i => stream'[j] = e
        BY <2>6, <4>3
      <4> QED BY <2>9, <4>1, <4>2, <4>4
    <3> QED BY <3>1, <3>2
  <2> QED BY <2>9 DEF DeletionsLast
<1> QED BY <1>1, <1>2, StreamGrows

LEMMA NextService ==
    ASSUME OneClient, ServiceInv, [Next]_vars, TInv'
    PROVE  ServiceInv'
<1>1. TInv /\ FinalInv /\ AloneInv /\ OutLive /\ DeletionsLast
  BY DEF ServiceInv
<1>2. FinalInv' /\ AloneInv' /\ DeletionsLast'
  BY <1>1, NextFinal, NextAlone, LastKept
<1>3. OutLive'
  <2>1. ASSUME NEW r \in Slots, Arrive(r) \/ Step(r) PROVE OutLive'
    BY <1>1, <2>1, ArriveAnnounces, StepAnnounces, AnnounceLive, LivePublish
  <2>2. ASSUME NEW r \in Slots, Cancel(r) PROVE OutLive'
    <3>1. req'[r].out = req[r].out /\ rows' = rows
      BY <1>1, <2>2 DEF Cancel, TInv, TypeOK, Request
    <3> QED BY <1>1, <3>1 DEF OneClient, OutLive, Live, Exists
  <2>3. CASE Crash
    BY <2>3, IdleFields DEF Crash, OutLive
  <2>4. CASE UNCHANGED vars
    BY <1>1, <2>4 DEF vars, OutLive, Live, Exists
  <2>5. ASSUME NEW r \in Slots, ArrivalLost(r) PROVE OutLive'
    <3>1. req'[r] = Idle
      BY <2>5 DEF ArrivalLost, Accept
    <3> QED BY <3>1, IdleFields DEF OneClient, OutLive
  <2>6. ASSUME NEW r \in Slots, ReplyLost(r) PROVE OutLive'
    <3>1. req'[r].out = << >>
      BY <1>1, <2>6, LostGoto, RespondFields, GotoFields, IdleFields DEF ReplyLost
    <3> QED BY <3>1 DEF OneClient, OutLive
  <2> QED BY <2>1, <2>2, <2>3, <2>4, <2>5, <2>6 DEF Next
<1> QED BY <1>2, <1>3 DEF ServiceInv

LEMMA ServiceUntouched ==
    ASSUME ServiceInv, TInv',
           UNCHANGED <<rows, used, objects, stream, req, publisher, started>>
    PROVE  ServiceInv'
<1>1. FinalInv'
  BY DEF ServiceInv, FinalInv, Exists, Announced, Deletions
<1>2. AloneInv'
  <2>1. \A r \in Slots : Unshared(r)' <=> Unshared(r)
    BY DEF Unshared, Exists, Parsing
  <2> QED BY <2>1 DEF ServiceInv, AloneInv
<1>3. OutLive' /\ DeletionsLast'
  BY DEF ServiceInv, OutLive, DeletionsLast, Live, Exists
<1> QED BY <1>1, <1>2, <1>3 DEF ServiceInv

LEMMA InitService == Init => ServiceInv
<1> SUFFICES ASSUME Init PROVE ServiceInv
  OBVIOUS
<1>1. TInv /\ FinalInv /\ AloneInv
  BY InitTInv, InitFinal, InitAlone, BoundAssumption
<1>2. stream = << >> /\ \A r \in Slots : req[r].out = << >>
  BY IdleFields DEF Init
<1> QED BY <1>1, <1>2 DEF ServiceInv, OutLive, DeletionsLast

(* handleSearchEvent changes no document but the event's, and a deletion   *)
(* leaves none.                                                            *)
LEMMA AfterOne ==
    ASSUME docs \in [Ids -> Doc], NEW event \in Event
    PROVE  /\ event.action = "deleted" => AfterEvent(event)[event.id] = NoDoc
           /\ \A id \in Ids \ {event.id} : AfterEvent(event)[id] = docs[id]
<1>1. CASE event.action = "deleted"
  <2>1. AfterEvent(event) = DeleteResume(event)
    BY <1>1 DEF AfterEvent
  <2> QED BY <2>1 DEF DeleteResume, Event
<1>2. CASE event.action # "deleted"
  <2>1. AfterEvent(event) \in {IndexResume(event), UpdateResumeStatus(event), docs}
    BY <1>2 DEF AfterEvent
  <2> QED BY <1>2, <2>1 DEF IndexResume, UpdateResumeStatus
<1> QED BY <1>1, <1>2

(* The steps of the loop that give no message to the handler. *)
LEMMA LoopOrder ==
    ASSUME OneConsumer, PipeInv, InOrder, NEW c \in Consumers, ConsumerStep(c) \/ ConsumerFault(c)
    PROVE  InOrder' /\ UNCHANGED <<docs, applied>>
<1>1. UNCHANGED <<docs, applied>>
  BY DEF ConsumerStep, ConsumerFault, SC!Start, SC!Read, SC!Ack, SC!ReadLost, SC!Stop, SC!loop,
         indexVars
<1>2. batch \in [Consumers -> SUBSET (1..delivered)] /\ applied \subseteq 1..delivered
      /\ delivered \in Nat
  BY StreamFits, BoundAssumption DEF PipeInv, SCP!IInv, SCP!TypeOK, TInv
<1>3. CASE batch' = batch \/ batch' = [batch EXCEPT ![c] = {}]
  BY <1>1, <1>2, <1>3 DEF InOrder
<1>4. CASE batch' = [batch EXCEPT ![c] = SC!NewMessages]
  <2>1. \A b \in SC!NewMessages, e \in applied : e < b
    BY <1>2 DEF SC!NewMessages
  <2>2. \A d \in Consumers : batch'[d] = SC!NewMessages
    BY <1>2, <1>4 DEF OneConsumer
  <2> QED BY <1>1, <2>1, <2>2 DEF InOrder
<1>5. \/ batch' = batch \/ batch' = [batch EXCEPT ![c] = {}]
      \/ batch' = [batch EXCEPT ![c] = SC!NewMessages]
  BY DEF ConsumerStep, ConsumerFault, SC!Start, SC!Read, SC!Ack, SC!ReadLost, SC!Stop, SC!loop
<1> QED BY <1>1, <1>3, <1>4, <1>5

(* The handler is given the oldest message of the batch. *)
LEMMA HandleOrder ==
    ASSUME OneConsumer, PipeInv, InOrder, DeletionsLast, DeletedLeavesIndex,
           NEW c \in Consumers, handleSearchEvent(c)
    PROVE  InOrder' /\ DeletedLeavesIndex'
<1>1. /\ batch \in [Consumers -> SUBSET (1..delivered)] /\ applied \subseteq 1..delivered
      /\ delivered \in Nat /\ delivered <= Len(stream) /\ Len(stream) \in Nat
      /\ stream \in Seq(Event) /\ docs \in [Ids -> Doc] /\ stream' = stream
  BY StreamFits, BoundAssumption
     DEF PipeInv, SCP!IInv, SCP!TypeOK, TInv, TypeOK, handleSearchEvent, serviceVars
<1>2. PICK e \in DOMAIN stream, ok \in BOOLEAN :
        /\ SC!Handle(c, e, ok)
        /\ docs' = AfterEvent(stream[e]) \/ (docs' = docs /\ ~ok)
  BY DEF handleSearchEvent
<1>3. /\ e \in batch[c] /\ \A k \in batch[c] : e <= k
      /\ batch' = [batch EXCEPT ![c] = @ \ {e}]
      /\ IF ok THEN applied' = applied \cup {e} ELSE applied' = applied
  BY <1>2 DEF SC!Handle, SC!OldestOfBatch
<1>4. InOrder'
  <2>1. ASSUME NEW b \in batch[c] \ {e}, NEW d \in applied' PROVE d < b
    <3>1. e \in Nat /\ b \in Nat /\ e <= b /\ e # b
      BY <1>1, <1>3
    <3>2. d \in applied => d < b
      BY DEF InOrder
    <3> QED BY <1>3, <3>1, <3>2
  <2>2. \A d \in Consumers : batch'[d] = batch[c] \ {e}
    BY <1>1, <1>3 DEF OneConsumer
  <2> QED BY <2>1, <2>2 DEF InOrder
<1>5. ASSUME NEW d \in applied', stream[d].action = "deleted"
      PROVE  docs'[stream[d].id] = NoDoc
  <2>0. d \in DOMAIN stream /\ stream[d] \in Event /\ stream[e] \in Event /\ stream[d].id \in Ids
    <3>1. d \in applied \/ d = e
      BY <1>3
    <3>2. d \in DOMAIN stream
      <4>1. d \in applied => d \in 1..Len(stream)
        BY <1>1
      <4>2. DOMAIN stream = 1..Len(stream) /\ e \in DOMAIN stream
        BY <1>1, <1>2
      <4> QED BY <3>1, <4>1, <4>2
    <3>3. stream[d] \in Event /\ stream[e] \in Event
      BY <1>1, <1>2, <3>2
    <3> QED BY <3>2, <3>3 DEF Event
  <2>1. CASE d \in applied
    <3>1. docs[stream[d].id] = NoDoc
      BY <1>5, <2>1 DEF DeletedLeavesIndex, Indexed
    <3>2. CASE docs' = AfterEvent(stream[e])
      <4>1. CASE stream[e].id = stream[d].id
        <5>1. e > d
          BY <1>1, <1>3, <2>0, <2>1 DEF InOrder
        <5>2. stream[e].action = "deleted"
          BY <1>2, <1>5, <2>0, <4>1, <5>1 DEF DeletionsLast
        <5> QED BY <1>1, <2>0, <3>2, <4>1, <5>2, AfterOne
      <4>2. CASE stream[e].id # stream[d].id
        BY <1>1, <2>0, <3>1, <3>2, <4>2, AfterOne
      <4> QED BY <4>1, <4>2
    <3> QED BY <1>2, <3>1, <3>2
  <2>2. CASE d \notin applied
    <3>1. d = e /\ ok
      BY <1>3, <1>5, <2>2
    <3> QED BY <1>1, <1>2, <1>5, <2>0, <3>1, AfterOne
  <2> QED BY <2>1, <2>2
<1> QED BY <1>1, <1>4, <1>5 DEF DeletedLeavesIndex, Indexed

LEMMA NextLeaves ==
    ASSUME OneClient, OneConsumer, LeavesInv, [PipelineNext]_pipelineVars
    PROVE  LeavesInv'
<1>0. PipeInv /\ ServiceInv /\ InOrder /\ DeletedLeavesIndex /\ TInv /\ DeletionsLast
  BY DEF LeavesInv, ServiceInv
<1>1. PipeInv' /\ TInv'
  <2>1. PipeInv'
    BY <1>0, NextOpen
  <2> QED BY <2>1 DEF PipeInv
<1>2. CASE Service \/ UNCHANGED pipelineVars
  <2>1. [Next]_vars /\ UNCHANGED <<docs, applied, batch>>
    BY <1>2 DEF Service, pipelineVars, indexVars, consumption
  <2>2. ServiceInv'
    BY <1>0, <1>1, <2>1, NextService
  <2>3. \A d \in applied : d \in DOMAIN stream
    BY <1>0 DEF PipeInv, SCP!IInv, SCP!TypeOK, TInv, TypeOK
  <2>4. DeletedLeavesIndex'
    BY <1>0, <2>1, <2>3, PrefixKept DEF DeletedLeavesIndex, Indexed
  <2>5. InOrder'
    BY <1>0, <2>1 DEF InOrder
  <2> QED BY <1>1, <2>2, <2>4, <2>5 DEF LeavesInv
<1>3. ASSUME NEW c \in Consumers, ConsumerStep(c) \/ handleSearchEvent(c) \/ ConsumerFault(c)
      PROVE  LeavesInv'
  <2>1. UNCHANGED <<rows, used, objects, stream, req, publisher, started>>
    BY <1>3 DEF ConsumerStep, handleSearchEvent, ConsumerFault, serviceVars
  <2>2. ServiceInv'
    BY <1>0, <1>1, <2>1, ServiceUntouched
  <2>3. InOrder' /\ DeletedLeavesIndex'
    <3>1. CASE handleSearchEvent(c)
      BY <1>0, <3>1, HandleOrder
    <3>2. CASE ConsumerStep(c) \/ ConsumerFault(c)
      BY <1>0, <2>1, <3>2, LoopOrder DEF DeletedLeavesIndex, Indexed
    <3> QED BY <1>3, <3>1, <3>2
  <2> QED BY <1>1, <2>2, <2>3 DEF LeavesInv
<1> QED BY <1>2, <1>3 DEF PipelineNext

(* With one client that waits for its answers and one search-service, a    *)
(* resume whose deletion the index has applied never comes back to it,     *)
(* whatever fails or is repeated: the deletion is the last event of its    *)
(* resume in the stream, and the batch is handled oldest first.            *)
THEOREM DeletionsLeaveIndex ==
    ASSUME OneClient, OneConsumer
    PROVE  PipelineSpec => []DeletedLeavesIndex
<1>1. PipelineInit => LeavesInv
  <2> SUFFICES ASSUME PipelineInit PROVE LeavesInv
    OBVIOUS
  <2>1. PipeInv /\ ServiceInv /\ applied = {}
    BY InitPipe, InitService DEF PipelineInit, SC!ConsumerInit
  <2> QED BY <2>1 DEF LeavesInv, InOrder, DeletedLeavesIndex
<1>2. LeavesInv /\ [PipelineNext]_pipelineVars => LeavesInv'
  BY NextLeaves
<1>3. LeavesInv => DeletedLeavesIndex
  BY DEF LeavesInv
<1> QED BY <1>1, <1>2, <1>3, PTL DEF PipelineSpec

-----------------------------------------------------------------------------
(* The settled index.  What the stream tells is what the table holds       *)
(* (LogInv), and every document shows the last of its resume's events that *)
(* was given to handleSearchEvent.                                         *)

(* Something before s[i] tells the status of the same resume. *)
Earlier(s, i) == \E j \in DOMAIN s : j < i /\ s[j].id = s[i].id /\ s[j].action # "parsed"

(* Every event tells the status of its document and of a resume that was   *)
(* inserted, the first event of a resume is no change of status, and each  *)
(* resume inserted was told of.                                            *)
TalkInv ==
    /\ \A i \in DOMAIN stream :
         /\ WellFormed(stream[i]) /\ stream[i].id \in used
         /\ stream[i].action = "status_changed" => Earlier(stream, i)
    /\ \A r \in Slots : \A i \in DOMAIN req[r].out :
         /\ WellFormed(req[r].out[i]) /\ req[r].out[i].id \in used
         /\ req[r].out[i].action = "status_changed" =>
              ~Silent(stream, req[r].out[i].id) \/ Earlier(req[r].out, i)
    /\ \A id \in used : ~Silent(stream, id) \/ \E r \in Slots : ~Silent(req[r].out, id)

LEMMA TalkAnnounced ==
    ASSUME OneClient, TInv', TalkInv, NEW r \in Slots, Announcing(r)
    PROVE  TalkInv'
<1>0. /\ stream' = stream /\ \A s \in Slots : s = r
      /\ \A id \in used : ~Silent(stream, id)
  BY NothingTold DEF OneClient, Announcing, TalkInv
<1>1. CASE req'[r].out = << >> /\ UNCHANGED used
  BY <1>0, <1>1 DEF TalkInv
<1>2. ASSUME NEW id \in Ids, Tale(req'[r].out, id), used' = used \cup {id},
             id \in used \/ req'[r].out[1].action = "created"
      PROVE  TalkInv'
  <2> DEFINE out == req'[r].out
  <2>1. \A i \in DOMAIN out : i = 1 \/ 1 < i
    <3>1. out \in Seq(Event)
      BY DEF TInv, TypeOK, Request
    <3> QED BY <3>1
  <2>2. /\ 1 \in DOMAIN out /\ out[1].action # "parsed"
        /\ \A i \in DOMAIN out : WellFormed(out[i]) /\ out[i].id = id
    BY <1>2 DEF Tale, About
  <2> HIDE DEF out
  <2>3. ASSUME NEW i \in DOMAIN out, out[i].action = "status_changed"
        PROVE  ~Silent(stream, out[i].id) \/ Earlier(out, i)
    <3>1. CASE i = 1
      BY <1>0, <1>2, <2>2, <2>3, <3>1 DEF out
    <3>2. CASE 1 < i
      BY <2>2, <3>2 DEF Earlier
    <3> QED BY <2>1, <3>1, <3>2
  <2>4. ~Silent(out, id)
    BY <2>2 DEF Silent
  <2>5. /\ \A s \in Slots : \A i \in DOMAIN req'[s].out :
             /\ WellFormed(req'[s].out[i]) /\ req'[s].out[i].id \in used'
             /\ req'[s].out[i].action = "status_changed" =>
                  ~Silent(stream, req'[s].out[i].id) \/ Earlier(req'[s].out, i)
        /\ \A k \in used' : ~Silent(stream, k) \/ \E s \in Slots : ~Silent(req'[s].out, k)
    BY <1>0, <1>2, <2>2, <2>3, <2>4 DEF out
  <2>6. \A i \in DOMAIN stream :
          /\ WellFormed(stream[i]) /\ stream[i].id \in used'
          /\ stream[i].action = "status_changed" => Earlier(stream, i)
    BY <1>2 DEF TalkInv
  <2> QED BY <1>0, <2>5, <2>6 DEF TalkInv
<1> QED BY <1>1, <1>2 DEF Announcing

LEMMA TalkPublished ==
    ASSUME OneClient, OnlyRepeats, TInv, LogInv, TalkInv, NEW r \in Slots, Publish(r)
    PROVE  TalkInv'
<1> DEFINE out == req[r].out
           e == Head(out)
           rest == Tail(out)
           n == Len(stream)
<1>1. /\ out \in Seq(Event) /\ out # << >> /\ e \in Event /\ 1 \in DOMAIN out /\ e = out[1]
      /\ stream \in Seq(Event) /\ n \in Nat /\ DOMAIN stream = 1..n
      /\ publisher /\ req[r].live /\ used' = used /\ \A s \in Slots : s = r
  BY DEF Publish, TInv, TypeOK, Request, LogInv, OneClient
<1>2. req'[r].out = rest
  <2> DEFINE q == [req[r] EXCEPT !.out = rest]
  <2>1. q.out = rest
    BY DEF TInv, TypeOK, Request
  <2>2. (req'[r] = Idle /\ rest = << >>) \/ req'[r] = q
    BY DEF Publish, TInv, TypeOK
  <2> HIDE DEF q, rest
  <2> QED BY <2>1, <2>2, IdleFields
<1>3. stream' = Append(stream, e) \/ stream' = stream \o <<e, e>>
  BY <1>1, NoFailure DEF Publish
<1>4. /\ \A i \in DOMAIN rest : i + 1 \in DOMAIN out /\ rest[i] = out[i + 1]
      /\ \A j \in DOMAIN out : j \in Nat /\ (j = 1 \/ (j - 1 \in DOMAIN rest /\ rest[j - 1] = out[j]))
  <2>1. /\ Len(out) \in Nat \ {0} /\ DOMAIN out = 1..Len(out) /\ DOMAIN rest = 1 .. Len(out) - 1
        /\ \A i \in 1 .. Len(out) - 1 : rest[i] = out[i + 1]
    <3>1. rest \in Seq(Event) /\ Len(rest) = Len(out) - 1
      BY <1>1
    <3> QED BY <1>1, <3>1
  <2> HIDE DEF out, rest
  <2>2. ASSUME NEW j \in DOMAIN out, j # 1 PROVE j - 1 \in DOMAIN rest /\ rest[j - 1] = out[j]
    <3>1. j - 1 \in 1 .. Len(out) - 1 /\ (j - 1) + 1 = j
      BY <2>1, <2>2
    <3> QED BY <2>1, <3>1
  <2> QED BY <2>1, <2>2
<1>5. /\ \A i \in DOMAIN out :
           /\ WellFormed(out[i]) /\ out[i].id \in used
           /\ out[i].action = "status_changed" => ~Silent(stream, out[i].id) \/ Earlier(out, i)
      /\ \A id \in used : ~Silent(stream, id) \/ ~Silent(out, id)
  BY <1>1 DEF TalkInv
<1>6. /\ \A i \in DOMAIN rest : i \in Nat
  BY <1>1
<1> HIDE DEF out, e, rest, n
<1>7. /\ stream' \in Seq(Event) /\ Len(stream') > n /\ Len(stream') \in Nat
      /\ DOMAIN stream' = 1 .. Len(stream')
      /\ \A i \in 1..n : stream'[i] = stream[i]
      /\ \A i \in n + 1 .. Len(stream') : stream'[i] = e
  <2>1. /\ stream' \in Seq(Event) /\ Len(stream') > n
        /\ \A i \in 1..n : stream'[i] = stream[i]
        /\ \A i \in n + 1 .. Len(stream') : stream'[i] = e
    BY <1>1, <1>3, EntriesAdded DEF n
  <2> QED BY <2>1
<1>8. /\ \A i \in DOMAIN stream : i \in DOMAIN stream' /\ stream'[i] = stream[i]
      /\ \A i \in DOMAIN stream' : i \in DOMAIN stream \/ (stream'[i] = e /\ \A j \in DOMAIN stream : j < i)
      /\ n + 1 \in DOMAIN stream' /\ stream'[n + 1] = e
  BY <1>1, <1>7
(* What was told stays told, and the event is told now. *)
<1>9. /\ \A id : ~Silent(stream, id) => ~Silent(stream', id)
      /\ e.action # "parsed" => ~Silent(stream', e.id)
  BY <1>8 DEF Silent
<1>10. ASSUME NEW i \in DOMAIN stream'
       PROVE  /\ WellFormed(stream'[i]) /\ stream'[i].id \in used
              /\ stream'[i].action = "status_changed" => Earlier(stream', i)
  <2>1. CASE i \in DOMAIN stream
    <3>1. Earlier(stream, i) => Earlier(stream', i)
      BY <1>8, <2>1 DEF Earlier
    <3> QED BY <1>8, <2>1, <3>1 DEF TalkInv
  <2>2. CASE stream'[i] = e /\ \A j \in DOMAIN stream : j < i
    <3>1. ~Earlier(out, 1)
      BY <1>4, <1>6 DEF Earlier
    <3>2. e.action = "status_changed" => ~Silent(stream, e.id)
      BY <1>1, <1>5, <3>1
    <3>3. e.action = "status_changed" => Earlier(stream', i)
      BY <1>8, <2>2, <3>2 DEF Silent, Earlier
    <3> QED BY <1>1, <1>5, <2>2, <3>3
  <2> QED BY <1>8, <2>1, <2>2
<1>11. ASSUME NEW i \in DOMAIN rest
       PROVE  /\ WellFormed(rest[i]) /\ rest[i].id \in used
              /\ rest[i].action = "status_changed" =>
                   ~Silent(stream', rest[i].id) \/ Earlier(rest, i)
  <2>1. i + 1 \in DOMAIN out /\ rest[i] = out[i + 1]
    BY <1>4
  <2>2. ASSUME Earlier(out, i + 1)
        PROVE  ~Silent(stream', rest[i].id) \/ Earlier(rest, i)
    <3>1. PICK j \in DOMAIN out : j < i + 1 /\ out[j].id = out[i + 1].id /\ out[j].action # "parsed"
      BY <2>2 DEF Earlier
    <3>2. CASE j = 1
      BY <1>1, <1>9, <2>1, <3>1, <3>2
    <3>3. CASE j # 1
      <4>1. j - 1 \in DOMAIN rest /\ rest[j - 1] = out[j] /\ j - 1 < i
        BY <1>4, <1>6, <3>1, <3>3
      <4> QED BY <2>1, <3>1, <4>1 DEF Earlier
    <3> QED BY <3>2, <3>3
  <2> QED BY <1>5, <1>9, <2>1, <2>2
<1>12. ASSUME NEW id \in used PROVE ~Silent(stream', id) \/ ~Silent(rest, id)
  <2>1. ASSUME ~Silent(out, id) PROVE ~Silent(stream', id) \/ ~Silent(rest, id)
    <3>1. PICK j \in DOMAIN out : out[j].id = id /\ out[j].action # "parsed"
      BY <2>1 DEF Silent
    <3>2. CASE j = 1
      BY <1>1, <1>9, <3>1, <3>2
    <3>3. CASE j # 1
      BY <1>4, <3>1, <3>3 DEF Silent
    <3> QED BY <3>2, <3>3
  <2> QED BY <1>5, <1>9, <2>1
<1> QED BY <1>1, <1>2, <1>10, <1>11, <1>12 DEF TalkInv

LEMMA NextTalk ==
    ASSUME OneClient, OnlyRepeats, ServiceInv, LogInv, TalkInv, TInv', [Next]_vars
    PROVE  TalkInv'
<1>1. ASSUME NEW r \in Slots, Arrive(r) PROVE TalkInv'
  BY <1>1, ArriveAnnounces, TalkAnnounced DEF ServiceInv
<1>2. ASSUME NEW r \in Slots, Step(r) PROVE TalkInv'
  BY <1>2, StepAnnounces, TalkAnnounced, TalkPublished DEF ServiceInv
<1>3. ~Crash /\ \A r \in Slots : ~ArrivalLost(r) /\ ~ReplyLost(r) /\ ~Cancel(r)
  BY DEF Crash, ArrivalLost, ReplyLost, Cancel, OnlyRepeats, AllFaults
<1>4. CASE UNCHANGED vars
  BY <1>4 DEF vars, TalkInv
<1> QED BY <1>1, <1>2, <1>3, <1>4 DEF Next

LEMMA InitTalk == Init => TalkInv
BY IdleFields DEF Init, TalkInv

(* The entries given to handleSearchEvent. *)
Given == {e \in DOMAIN stream : attempts[e] > 0}

GivenInOrder == \A c \in Consumers : \A b \in batch[c], e \in Given : e < b

(* No entry was passed over: it was given, or a consumer holds it. *)
AllGiven == \A e \in 1..delivered : e \in Given \/ \E c \in Consumers : e \in batch[c]

(* The document shows the last event given that tells the status of id.    *)
Reflects(id) ==
    \/ docs[id] = NoDoc /\ \A e \in Given : stream[e].id = id => stream[e].action = "parsed"
    \/ \E e \in Given :
         /\ stream[e].id = id /\ stream[e].action # "parsed"
         /\ \A d \in Given : d > e /\ stream[d].id = id => stream[d].action = "parsed"
         /\ Indexed(id) <=> stream[e].new # "absent"
         /\ acceptsNow => docs[id].status = stream[e].new

Settling ==
    /\ LogInv /\ TalkInv
    /\ GivenInOrder /\ AllGiven
    /\ \A id \in Ids : Reflects(id)

SettledInv == PipeInv /\ ServiceInv /\ (faults = 0 => Settling)

LEMMA GivenDelivered ==
    ASSUME PipeInv
    PROVE  /\ delivered \in Nat /\ Given \subseteq 1..delivered
           /\ DOMAIN stream = 1..Len(stream) /\ Len(stream) \in Nat
           /\ delivered <= Len(stream)
<1>1. /\ stream \in Seq(Event) /\ Len(stream) \in 0..MaxEntries /\ MaxEntries \in Nat
      /\ delivered \in 0..Len(stream) /\ attempts \in [1..MaxEntries -> Nat]
  BY StreamFits, BoundAssumption
     DEF PipeInv, SCP!IInv, SCP!TypeOK, SCP!Entries, TInv, TypeOK
<1>2. \A e \in 1..MaxEntries : e > delivered => attempts[e] = 0
  BY DEF PipeInv, SCP!IInv, SCP!Untried, SCP!Entries
<1>3. ASSUME NEW e \in Given PROVE e \in 1..delivered
  <2>1. e \in 1..Len(stream) /\ attempts[e] > 0 /\ e \in 1..MaxEntries
    BY <1>1 DEF Given
  <2>2. ~(e > delivered)
    <3>1. e > delivered => attempts[e] = 0
      BY <1>2, <2>1
    <3> QED BY <2>1, <3>1
  <2> QED BY <1>1, <2>1, <2>2
<1> QED BY <1>1, <1>3

(* What is published now was not given yet. *)
LEMMA GivenKept ==
    ASSUME PipeInv, PipeInv', ServiceInv, [Next]_vars, UNCHANGED <<indexVars, consumption>>
    PROVE  /\ Given' = Given
           /\ GivenInOrder => GivenInOrder'
           /\ AllGiven => AllGiven'
           /\ \A id \in Ids : Reflects(id) => Reflects(id)'
<1>1. UNCHANGED <<docs, acceptsNow, attempts, delivered, batch>>
  BY DEF indexVars, consumption
<1>2. \A e \in DOMAIN stream : e \in DOMAIN stream' /\ stream'[e] = stream[e]
  BY PrefixKept DEF ServiceInv
<1>3. /\ delivered \in Nat /\ Len(stream) \in Nat /\ delivered <= Len(stream)
      /\ DOMAIN stream = 1..Len(stream)
  BY GivenDelivered
<1>4. Given' = Given
  <2>1. ASSUME NEW e \in DOMAIN stream', e \notin DOMAIN stream PROVE attempts[e] = 0
    <3>1. stream' \in Seq(Event) /\ Len(stream') \in 0..MaxEntries
      BY DEF PipeInv, TInv, TypeOK, SCP!IInv, SCP!TypeOK
    <3>2. MaxEntries \in Nat
      BY BoundAssumption DEF BoundAssumption, MaxEntries
    <3>3. e \in 1..MaxEntries /\ e > delivered
      BY <1>3, <2>1, <3>1, <3>2
    <3> QED BY <3>3 DEF PipeInv, SCP!IInv, SCP!Untried, SCP!Entries
  <2> QED BY <1>1, <1>2, <2>1 DEF Given
<1>5. \A e \in Given : stream'[e] = stream[e]
  BY <1>2 DEF Given
<1> HIDE DEF Given
<1>6. ASSUME NEW id \in Ids, Reflects(id) PROVE Reflects(id)'
  BY <1>1, <1>4, <1>5, <1>6 DEF Reflects, Indexed
<1> QED BY <1>1, <1>4, <1>6 DEF GivenInOrder, AllGiven

(* A step of the loop without a fault. *)
LEMMA LoopSettles ==
    ASSUME OneConsumer, PipeInv, Settling, NEW c \in Consumers, ConsumerStep(c)
    PROVE  GivenInOrder' /\ AllGiven' /\ \A id \in Ids : Reflects(id)'
<1>1. UNCHANGED <<docs, acceptsNow, attempts, stream>>
  BY DEF ConsumerStep, SC!Start, SC!Read, SC!Ack, indexVars, serviceVars
<1>2. Given' = Given
  BY <1>1 DEF Given
<1>3. \A id \in Ids : Reflects(id)'
  BY <1>1, <1>2 DEF Settling, Reflects, Indexed
<1>4. /\ delivered \in Nat /\ Given \subseteq 1..delivered
      /\ batch \in [Consumers -> SUBSET (1..delivered)]
  BY GivenDelivered DEF PipeInv, SCP!IInv, SCP!TypeOK
<1>5. CASE UNCHANGED <<delivered, batch>>
  BY <1>2, <1>3, <1>5 DEF Settling, GivenInOrder, AllGiven
<1>6. CASE SC!Read(c)
  <2>1. /\ batch[c] = {} /\ batch' = [batch EXCEPT ![c] = SC!NewMessages]
        /\ delivered' = SC!Lesser(delivered + Count, Len(stream))
        /\ SC!NewMessages = (delivered + 1)..delivered'
    BY <1>6 DEF SC!Read, SC!Take, SC!Idle, SC!NewMessages
  <2>2. delivered' \in Nat
    BY <1>4, GivenDelivered, PipelineAssumption, <2>1 DEF PipelineAssumption, SC!Lesser
  <2>3. /\ \A d \in Consumers : d = c /\ batch[d] = {} /\ batch'[d] = SC!NewMessages
        /\ c \in Consumers
    BY <1>4, <2>1 DEF OneConsumer
  <2>4. GivenInOrder'
    BY <1>2, <1>4, <2>1, <2>2, <2>3 DEF GivenInOrder
  <2>5. ASSUME NEW e \in 1..delivered' PROVE e \in Given \/ e \in batch'[c]
    <3>1. e \in 1..delivered \/ e \in (delivered + 1)..delivered'
      BY <1>4, <2>2
    <3> QED BY <2>1, <2>3, <3>1 DEF Settling, AllGiven
  <2> QED BY <1>2, <1>3, <2>4, <2>5 DEF AllGiven
<1>7. CASE SC!Start(c) \/ SC!Ack(c)
  <2>1. UNCHANGED <<delivered, batch>>
    BY <1>7 DEF SC!Start, SC!Ack, SC!GroupStart, PipeInv, SCP!IInv, SCP!GroupFirst
  <2> QED BY <1>3, <1>5, <2>1
<1> QED BY <1>3, <1>6, <1>7 DEF ConsumerStep

(* The oldest entry not yet given is given to handleSearchEvent.           *)
LEMMA HandleSettles ==
    ASSUME OneConsumer, PipeInv, ServiceInv, Settling, NEW c \in Consumers,
           handleSearchEvent(c), faults' = faults
    PROVE  GivenInOrder' /\ AllGiven' /\ \A id \in Ids : Reflects(id)'
<1>1. PICK e \in DOMAIN stream :
        /\ \E ok \in BOOLEAN : SC!Handle(c, e, ok)
        /\ \/ ~Rejected(stream[e]) /\ docs' = AfterEvent(stream[e])
           \/ Rejected(stream[e]) /\ docs' = docs
  <2>1. ~Spend("call")
    BY DEF Spend, ServiceInv, TInv, TypeOK
  <2> QED BY <2>1 DEF handleSearchEvent
<1>2. /\ e \in batch[c] /\ \A k \in batch[c] : e <= k
      /\ batch' = [batch EXCEPT ![c] = @ \ {e}]
      /\ attempts' = [attempts EXCEPT ![e] = @ + 1]
      /\ UNCHANGED <<stream, delivered, acceptsNow>>
  BY <1>1 DEF SC!Handle, SC!OldestOfBatch, SC!redis, handleSearchEvent, serviceVars
<1>3. /\ delivered \in Nat /\ Given \subseteq 1..delivered
      /\ DOMAIN stream = 1..Len(stream) /\ Len(stream) \in Nat /\ delivered <= Len(stream)
      /\ batch \in [Consumers -> SUBSET (1..delivered)] /\ e \in 1..delivered
      /\ attempts \in [1..MaxEntries -> Nat] /\ \A d \in Consumers : d = c
      /\ stream \in Seq(Event) /\ docs \in [Ids -> Doc]
  BY <1>2, GivenDelivered
     DEF OneConsumer, PipeInv, SCP!IInv, SCP!TypeOK, SCP!Entries, TInv, TypeOK
<1>4. Given' = Given \cup {e}
  <2>1. e \in 1..MaxEntries
    <3>1. Len(stream) \in 0..MaxEntries /\ MaxEntries \in Nat
      BY StreamFits, BoundAssumption DEF PipeInv, TInv
    <3> QED BY <1>1, <1>3, <3>1
  <2>2. attempts'[e] > 0 /\ \A d \in 1..MaxEntries \ {e} : attempts'[d] = attempts[d]
    BY <1>2, <1>3, <2>1
  <2>3. \A d \in DOMAIN stream : d \in 1..MaxEntries
    <3>1. Len(stream) \in 0..MaxEntries /\ MaxEntries \in Nat
      BY StreamFits, BoundAssumption DEF PipeInv, TInv
    <3> QED BY <1>3, <3>1
  <2> QED BY <1>1, <1>2, <2>2, <2>3 DEF Given
(* All given before e is older, and all that is older was given. *)
<1>5. /\ \A d \in Given : d < e
      /\ \A d \in 1..delivered : d < e => d \in Given
  <2>1. \A d \in Given : d < e
    BY <1>2 DEF Settling, GivenInOrder
  <2>2. ASSUME NEW d \in 1..delivered, d < e PROVE d \in Given
    <3>1. d \notin batch[c]
      BY <1>2, <1>3, <2>2
    <3> QED BY <1>3, <3>1 DEF Settling, AllGiven
  <2> QED BY <2>1, <2>2
<1>6. GivenInOrder'
  <2>1. \A b \in batch'[c] : b \in batch[c] /\ b # e /\ e < b
    BY <1>2, <1>3
  <2>2. \A b \in batch'[c], d \in Given' : d < b
    BY <1>4, <2>1 DEF Settling, GivenInOrder
  <2> QED BY <1>3, <2>2 DEF GivenInOrder
<1>7. AllGiven'
  <2>1. ASSUME NEW d \in 1..delivered PROVE d \in Given' \/ d \in batch'[c]
    <3>1. d \in Given \/ d \in batch[c]
      BY <1>3 DEF Settling, AllGiven
    <3> QED BY <1>2, <1>3, <1>4, <3>1
  <2> QED BY <1>2, <2>1 DEF AllGiven
<1>8. ASSUME NEW id \in Ids PROVE Reflects(id)'
  <2> DEFINE event == stream[e]
  <2>1. event \in Event /\ event.id \in Ids /\ WellFormed(event) /\ event = stream'[e]
    <3>1. event \in Event /\ event = stream'[e]
      BY <1>1, <1>2, <1>3
    <3>2. WellFormed(event)
      BY <1>1 DEF Settling, TalkInv
    <3> QED BY <3>1, <3>2 DEF Event
  <2>2. Reflects(id)
    BY DEF Settling
  <2>3. \A d \in Given : stream'[d] = stream[d]
    BY <1>2
  <2> HIDE DEF event, Given
  (* What does not tell the status of id leaves its document alone. *)
  <2>4. ASSUME event.id # id \/ event.action = "parsed" PROVE Reflects(id)'
    <3>1. docs'[id] = docs[id]
      <4>1. CASE event.action = "parsed"
        BY <1>1, <4>1 DEF AfterEvent, event
      <4>2. CASE event.id # id
        <5>1. AfterEvent(event)[id] = docs[id]
          BY <1>3, <2>1, <4>2, AfterOne
        <5> QED BY <1>1, <5>1 DEF event
      <4> QED BY <2>4, <4>1, <4>2
    <3>2. CASE docs[id] = NoDoc /\ \A d \in Given : stream[d].id = id => stream[d].action = "parsed"
      BY <1>4, <2>1, <2>3, <2>4, <3>1, <3>2 DEF Reflects
    <3>3. ASSUME NEW l \in Given, stream[l].id = id, stream[l].action # "parsed",
                 \A d \in Given : d > l /\ stream[d].id = id => stream[d].action = "parsed",
                 Indexed(id) <=> stream[l].new # "absent",
                 acceptsNow => docs[id].status = stream[l].new
          PROVE  Reflects(id)'
      BY <1>2, <1>4, <2>1, <2>3, <2>4, <3>1, <3>3 DEF Reflects, Indexed
    <3> QED BY <2>2, <3>2, <3>3 DEF Reflects
  (* What tells it is the last to do so. *)
  <2>5. ASSUME event.id = id, event.action # "parsed",
               docs'[id] # NoDoc <=> event.new # "absent",
               acceptsNow => docs'[id].status = event.new
        PROVE  Reflects(id)'
    <3>1. \A d \in Given' : ~(d > e)
      <4>1. \A d \in Given : d \in Nat /\ e \in Nat
        BY <1>3
      <4> QED BY <1>3, <1>4, <1>5, <4>1
    <3> QED BY <1>2, <1>4, <2>1, <2>5, <3>1 DEF Reflects, Indexed
  <2>6. CASE event.id = id /\ event.action \in {"created", "updated"}
    <3>1. docs' = IndexResume(event) /\ event.new = event.doc.status /\ event.new # "absent"
      BY <1>1, <2>1, <2>6 DEF AfterEvent, Rejected, WellFormed, event
    <3>2. docs'[id] = buildResumeDocument(event.doc)
      BY <1>3, <2>6, <3>1 DEF IndexResume
    <3>3. docs'[id].status = event.new /\ NoDoc.status = "absent"
      BY <3>1, <3>2 DEF buildResumeDocument, NoDoc
    <3> QED BY <2>5, <2>6, <3>1, <3>3
  <2>7. CASE event.id = id /\ event.action = "deleted"
    <3>1. docs' = AfterEvent(event) /\ event.new = "absent"
      BY <1>1, <2>1, <2>7 DEF Rejected, WellFormed, event
    <3>2. docs'[id] = NoDoc /\ NoDoc.status = "absent"
      BY <1>3, <2>1, <2>7, <3>1, AfterOne DEF NoDoc
    <3> QED BY <2>5, <2>7, <3>1, <3>2
  <2>8. CASE event.id = id /\ event.action = "status_changed"
    <3>1. event.new # "absent"
      BY <2>1, <2>8 DEF WellFormed
    (* The resume was told of before, so it is indexed. *)
    <3>2. Indexed(id)
      <4>1. Earlier(stream, e)
        BY <1>1, <2>8 DEF Settling, TalkInv, event
      <4>2. PICK j \in DOMAIN stream : j < e /\ stream[j].id = id /\ stream[j].action # "parsed"
        BY <2>8, <4>1 DEF Earlier, event
      <4>3. j \in Given
        BY <1>3, <1>5, <4>2
      <4>4. PICK l \in Given : /\ stream[l].id = id /\ stream[l].action # "parsed"
                               /\ Indexed(id) <=> stream[l].new # "absent"
        BY <2>2, <4>2, <4>3 DEF Reflects
      <4>5. l \in DOMAIN stream /\ e > l
        BY <1>3, <1>5, <4>4
      <4>6. stream[l].action # "deleted"
        BY <1>1, <2>8, <4>4, <4>5 DEF ServiceInv, DeletionsLast, event
      <4>7. stream[l].new # "absent"
        BY <4>4, <4>5, <4>6 DEF Settling, TalkInv, WellFormed
      <4> QED BY <4>4, <4>7
    <3>3. CASE acceptsNow
      <4>1. docs' = UpdateResumeStatus(event)
        BY <1>1, <2>8, <3>2, <3>3 DEF AfterEvent, Rejected, event
      <4>2. docs'[id].status = event.new /\ NoDoc.status = "absent"
        BY <1>3, <2>8, <4>1 DEF UpdateResumeStatus, Doc, NoDoc
      <4> QED BY <2>5, <2>8, <3>1, <4>2
    <3>4. CASE ~acceptsNow
      <4>1. docs' = docs
        BY <1>1, <2>8, <3>2, <3>4 DEF Rejected, event
      <4> QED BY <2>5, <2>8, <3>1, <3>2, <3>4, <4>1 DEF Indexed
    <3> QED BY <3>3, <3>4
  <2>9. event.action \in {"created", "updated", "deleted", "status_changed", "parsed"}
    BY <2>1 DEF Event, Actions
  <2> QED BY <2>4, <2>6, <2>7, <2>8, <2>9
<1> QED BY <1>6, <1>7, <1>8

LEMMA NextSettles ==
    ASSUME OneClient, OneConsumer, SettledInv, [PipelineNext]_pipelineVars
    PROVE  SettledInv'
<1>0. /\ PipeInv /\ ServiceInv /\ TInv /\ FinalInv /\ AloneInv
      /\ faults \in 0..MaxFaults /\ MaxFaults \in Nat
  BY BoundAssumption DEF SettledInv, ServiceInv, TInv, TypeOK, BoundAssumption
<1>1. PipeInv' /\ TInv'
  <2>1. PipeInv'
    BY <1>0, NextOpen
  <2> QED BY <2>1 DEF PipeInv
<1>2. CASE Service \/ UNCHANGED pipelineVars
  <2>1. [Next]_vars /\ UNCHANGED <<indexVars, consumption>>
    BY <1>2 DEF Service, pipelineVars
  <2>2. ServiceInv'
    BY <1>0, <1>1, <2>1, NextService
  <2>3. ASSUME faults' = 0 PROVE Settling'
    <3>1. faults = 0
      <4>1. faults' = faults \/ faults' = faults + 1
        BY <1>0, <2>1, FaultsLast DEF Next, ArrivalLost, ReplyLost, Cancel, Crash, Spend, vars
      <4> QED BY <1>0, <2>3, <4>1
    <3>2. OnlyRepeats
      BY <2>3, <3>1 DEF OnlyRepeats, Spend
    <3>3. Settling
      BY <3>1 DEF SettledInv
    <3>4. LogInv' /\ TalkInv'
      BY <1>0, <1>1, <2>1, <3>2, <3>3, NextLog, NextTalk DEF Settling
    <3>5. GivenInOrder' /\ AllGiven' /\ \A id \in Ids : Reflects(id)'
      BY <1>0, <1>1, <2>1, <3>3, GivenKept DEF Settling
    <3> QED BY <3>4, <3>5 DEF Settling
  <2> QED BY <1>1, <2>2, <2>3 DEF SettledInv
<1>3. ASSUME NEW c \in Consumers, ConsumerStep(c) \/ handleSearchEvent(c) \/ ConsumerFault(c)
      PROVE  SettledInv'
  <2>1. UNCHANGED <<rows, used, objects, stream, req, publisher, started>>
    BY <1>3 DEF ConsumerStep, handleSearchEvent, ConsumerFault, serviceVars
  <2>2. ServiceInv'
    BY <1>0, <1>1, <2>1, ServiceUntouched
  <2>3. ASSUME faults' = 0 PROVE Settling'
    <3>1. faults' = faults
      <4>1. faults' = faults \/ faults' = faults + 1
        BY <1>0, <1>3, ConsumerOpens DEF ConsumerMoves
      <4> QED BY <1>0, <2>3, <4>1
    <3>2. ~ConsumerFault(c)
      BY <1>0, <3>1 DEF ConsumerFault, SC!ReadLost, SC!Stop, SC!Spend
    <3>3. Settling
      BY <2>3, <3>1 DEF SettledInv
    <3>4. GivenInOrder' /\ AllGiven' /\ \A id \in Ids : Reflects(id)'
      BY <1>0, <1>3, <3>1, <3>2, <3>3, LoopSettles, HandleSettles
    <3>5. LogInv' /\ TalkInv'
      BY <2>1, <3>3 DEF Settling, LogInv, Told, Unannounced, TalkInv
    <3> QED BY <3>4, <3>5 DEF Settling
  <2> QED BY <1>1, <2>2, <2>3 DEF SettledInv
<1> QED BY <1>2, <1>3 DEF PipelineNext

(* When all is handled, every document shows the row. *)
LEMMA SettledAgrees == SettledInv => IndexSettled
<1> SUFFICES ASSUME SettledInv, faults = 0, \A r \in Slots : req[r] = Idle,
                    \A e \in DOMAIN stream : attempts[e] > 0
             PROVE  IndexAgrees
  BY DEF IndexSettled
<1>1. /\ LogInv /\ TalkInv /\ FinalInv /\ Given = DOMAIN stream
      /\ \A id \in Ids : Reflects(id)
  BY DEF SettledInv, Settling, ServiceInv, Given
<1>2. \A e \in DOMAIN stream, d \in DOMAIN stream : e = d \/ e < d \/ d < e
  BY GivenDelivered DEF SettledInv
<1>3. NoDoc.status = "absent"
  BY DEF NoDoc
<1>4. ASSUME NEW id \in Ids
      PROVE  (Indexed(id) <=> Exists(id)) /\ (acceptsNow => docs[id].status = rows[id].status)
  <2>1. CASE id \in used
    <3>1. PICK i \in DOMAIN stream :
            /\ stream[i].id = id /\ stream[i].action # "parsed" /\ stream[i].new = rows[id].status
            /\ \A j \in DOMAIN stream : j > i /\ stream[j].id = id => stream[j].action = "parsed"
      BY <1>1, <2>1, LogTells DEF LogDescribesTable, LastAnnounced
    <3>2. PICK e \in DOMAIN stream :
            /\ stream[e].id = id /\ stream[e].action # "parsed"
            /\ \A d \in DOMAIN stream : d > e /\ stream[d].id = id => stream[d].action = "parsed"
            /\ Indexed(id) <=> stream[e].new # "absent"
            /\ acceptsNow => docs[id].status = stream[e].new
      BY <1>1, <3>1 DEF Reflects
    <3>3. e = i
      BY <1>2, <3>1, <3>2
    <3> QED BY <3>1, <3>2, <3>3 DEF Exists
  <2>2. CASE id \notin used
    <3>1. rows[id].status = "absent"
      BY <1>1, <2>2 DEF FinalInv, Exists
    <3>2. \A e \in DOMAIN stream : stream[e].id # id
      BY <1>1, <2>2 DEF TalkInv
    <3>3. docs[id] = NoDoc
      BY <1>1, <3>2 DEF Reflects
    <3> QED BY <1>3, <3>1, <3>3 DEF Indexed, Exists
  <2> QED BY <2>1, <2>2
<1> QED BY <1>4 DEF IndexAgrees, IndexListsResumes, IndexShowsStatus

(* One client that waits for its answers, one search-service, no fault so  *)
(* far: whenever no request is running and every entry was given to        *)
(* handleSearchEvent, the index lists the resumes of the table, and shows  *)
(* their status if the status updates are accepted.                        *)
THEOREM IndexSettles ==
    ASSUME OneClient, OneConsumer, "redis" \notin Faults
    PROVE  PipelineSpec => []IndexSettled
<1>1. PipelineInit => SettledInv
  <2> SUFFICES ASSUME PipelineInit PROVE SettledInv
    OBVIOUS
  <2>1. PipeInv /\ ServiceInv /\ Init /\ SC!ConsumerInit
    BY InitPipe, InitService DEF PipelineInit
  <2>2. LogInv /\ TalkInv
    BY <2>1, InitLog, InitTalk
  <2>3. /\ stream = << >> /\ delivered = 0 /\ docs = [id \in Ids |-> NoDoc]
        /\ batch = [c \in Consumers |-> {}]
    BY <2>1 DEF Init, SC!ConsumerInit, PipelineInit
  <2>4. Given = {}
    BY <2>3 DEF Given
  <2>5. GivenInOrder /\ AllGiven /\ \A id \in Ids : Reflects(id)
    BY <2>3, <2>4 DEF GivenInOrder, AllGiven, Reflects
  <2> QED BY <2>1, <2>2, <2>5 DEF SettledInv, Settling
<1>2. SettledInv /\ [PipelineNext]_pipelineVars => SettledInv'
  BY NextSettles
<1> QED BY <1>1, <1>2, SettledAgrees, PTL DEF PipelineSpec

=============================================================================
