----------------------- MODULE InterviewServiceProofs -----------------------
(***************************************************************************)
(* What holds of interview-service for every number of requests, resumes,  *)
(* interviews, feedbacks and failing reads.                                *)
(***************************************************************************)
EXTENDS InterviewService, FiniteSetTheorems, TLAPS

LEMMA IdleFields ==
    Idle.pc = "idle" /\ Idle.id = None /\ Idle \in Request
BY DEF Idle, Handler, Request, InterviewStatuses

LEMMA NoInterviewFields ==
    NoInterview.resume = None /\ NoInterview \in Interview
BY DEF NoInterview, Interview, InterviewStatuses

LEMMA HandlerType ==
    ASSUME NEW pc \in {"status.write", "submit.check", "submit.insert"}, NEW id \in Interviews,
           NEW seen \in InterviewStatuses, NEW to \in InterviewStatuses
    PROVE  Handler(pc, id, seen, to) \in Request
BY DEF Handler, Request

LEMMA TransitionType ==
    ASSUME NEW from, NEW to, CanTransitionTo(from, to)
    PROVE  from \in InterviewStatuses /\ to \in InterviewStatuses
BY DEF CanTransitionTo, validInterviewStatusTransitions, InterviewStatuses

-----------------------------------------------------------------------------
(* Types *)

LEMMA NextType ==
    ASSUME InterviewAssumption, TypeOK, [Next]_vars
    PROVE  TypeOK'
<1> USE DEF TypeOK, tables
<1>1. CASE ResumeCreated
  BY <1>1 DEF ResumeCreated
<1>2. CASE ResumeDeleted
  BY <1>2, NoInterviewFields DEF ResumeDeleted
<1>3. CASE CreateInterview
  <2>1. PICK id \in Interviews \ drawn, resume \in resumes :
          /\ interviews' = [interviews EXCEPT ![id] = [resume |-> resume, status |-> "scheduled"]]
          /\ drawn' = drawn \cup {id}
    BY <1>3 DEF CreateInterview
  <2>2. [resume |-> resume, status |-> "scheduled"] \in Interview
    BY DEF Interview, InterviewStatuses
  <2> QED BY <1>3, <2>1, <2>2 DEF CreateInterview
<1>4. CASE DeleteInterview
  BY <1>4, NoInterviewFields DEF DeleteInterview
<1>5. CASE CreatePortfolio \/ DeletePortfolio
  BY <1>5 DEF CreatePortfolio, DeletePortfolio
<1>6. ASSUME NEW r \in Slots, StatusRead(r) PROVE TypeOK'
  <2>1. PICK id \in Interviews, to \in InterviewStatuses \cup {"unknown"} :
          /\ CanTransitionTo(interviews[id].status, to)
          /\ Accept(r, Handler("status.write", id, interviews[id].status, to))
    BY <1>6 DEF StatusRead
  <2>2. Handler("status.write", id, interviews[id].status, to) \in Request
    BY <2>1, TransitionType, HandlerType
  <2> QED BY <1>6, <2>1, <2>2 DEF StatusRead, Accept
<1>7. ASSUME NEW r \in Slots, StatusWrite(r) PROVE TypeOK'
  <2>1. req' \in [Slots -> Request]
    BY <1>7, IdleFields DEF StatusWrite, Respond
  <2>2. req[r].to \in InterviewStatuses /\ interviews \in [Interviews -> Interview]
    BY DEF Request
  <2>3. \A i \in Interviews : [interviews[i] EXCEPT !.status = req[r].to] \in Interview
    BY <2>2 DEF Interview
  <2>4. interviews' \in [Interviews -> Interview]
    BY <1>7, <2>2, <2>3 DEF StatusWrite
  <2> QED BY <1>7, <2>1, <2>4 DEF StatusWrite
<1>8. ASSUME NEW r \in Slots, SubmitRead(r) PROVE TypeOK'
  <2>1. PICK id \in Interviews : Accept(r, Handler("submit.check", id, "scheduled", "scheduled"))
    BY <1>8 DEF SubmitRead
  <2>2. Handler("submit.check", id, "scheduled", "scheduled") \in Request
    BY HandlerType DEF InterviewStatuses
  <2> QED BY <1>8, <2>1, <2>2 DEF SubmitRead, Accept
<1>9. ASSUME NEW r \in Slots, SubmitCheck(r) PROVE TypeOK'
  <2>1. ThenInsert(r) => req' \in [Slots -> Request]
    BY DEF ThenInsert, Request
  <2>2. Respond(r) => req' \in [Slots -> Request]
    BY IdleFields DEF Respond
  <2>3. faults' \in 0..MaxFaults
    BY <1>9 DEF SubmitCheck, InterviewAssumption
  <2> QED BY <1>9, <2>1, <2>2, <2>3 DEF SubmitCheck
<1>10. ASSUME NEW r \in Slots, SubmitInsert(r) PROVE TypeOK'
  <2>1. req' \in [Slots -> Request]
    BY <1>10, IdleFields DEF SubmitInsert, Respond
  <2>2. req[r].id \in Interviews \cup {None}
    BY DEF Request
  <2> QED BY <1>10, <2>1, <2>2 DEF SubmitInsert
<1>11. ASSUME NEW r \in Slots, Leave(r) PROVE TypeOK'
  BY <1>11, IdleFields DEF Leave, Respond
<1>12. CASE UNCHANGED vars
  BY <1>12 DEF vars
<1> QED BY <1>1, <1>2, <1>3, <1>4, <1>5, <1>6, <1>7, <1>8, <1>9, <1>10, <1>11, <1>12 DEF Next

LEMMA InitType == InterviewAssumption /\ Init => TypeOK
BY IdleFields, NoInterviewFields DEF Init, TypeOK, InterviewAssumption

(* Type correctness: in particular no status outside the table is stored.  *)
THEOREM InterviewTypes == Spec => []TypeOK
<1>1. TypeOK /\ [Next]_vars => TypeOK'
  BY NextType, InterviewAssumption
<1> QED BY <1>1, InitType, InterviewAssumption, PTL DEF Spec

-----------------------------------------------------------------------------
(* References *)

LEMMA NextDangling ==
    ASSUME InterviewAssumption, TypeOK, NoDangling, [Next]_vars
    PROVE  NoDangling'
<1> USE DEF TypeOK, NoDangling, Present, tables
<1>1. CASE ResumeCreated
  BY <1>1 DEF ResumeCreated
<1>2. CASE ResumeDeleted
  BY <1>2, NoInterviewFields DEF ResumeDeleted, InterviewAssumption
<1>3. CASE CreateInterview
  BY <1>3 DEF CreateInterview, InterviewAssumption
<1>4. CASE DeleteInterview
  BY <1>4, NoInterviewFields DEF DeleteInterview, InterviewAssumption
<1>5. CASE CreatePortfolio \/ DeletePortfolio
  BY <1>5 DEF CreatePortfolio, DeletePortfolio
<1>6. ASSUME NEW r \in Slots, StatusWrite(r) PROVE NoDangling'
  <2>1. \A i \in Interviews : interviews'[i].resume = interviews[i].resume
    BY <1>6 DEF StatusWrite, Interview
  <2> QED BY <1>6, <2>1 DEF StatusWrite, InterviewAssumption
<1>7. ASSUME NEW r \in Slots, SubmitInsert(r) PROVE NoDangling'
  BY <1>7 DEF SubmitInsert
<1>8. ASSUME UNCHANGED tables PROVE NoDangling'
  BY <1>8
<1>9. ASSUME NEW r \in Slots, StatusRead(r) \/ SubmitRead(r) \/ SubmitCheck(r) \/ Leave(r)
      PROVE  UNCHANGED tables
  BY <1>9 DEF StatusRead, SubmitRead, SubmitCheck, Leave
<1>10. CASE UNCHANGED vars
  BY <1>8, <1>10 DEF vars
<1> QED BY <1>1, <1>2, <1>3, <1>4, <1>5, <1>6, <1>7, <1>8, <1>9, <1>10 DEF Next

(* No row of interview-service refers to a row that is gone, whenever      *)
(* resume-service deletes a resume.                                        *)
THEOREM References == Spec => []NoDangling
<1>1. Init => NoDangling
  BY NoInterviewFields DEF Init, NoDangling, Present
<1>2. TypeOK /\ NoDangling /\ [Next]_vars => NoDangling'
  BY NextDangling, InterviewAssumption
<1> QED BY <1>1, <1>2, InterviewTypes, PTL DEF Spec

-----------------------------------------------------------------------------
(* Statuses *)

(* A status about to be written follows the one that was read, and only    *)
(* ids that were drawn have rows.                                          *)
MoveInv ==
    /\ \A r \in Slots : req[r].pc = "status.write" => CanTransitionTo(req[r].seen, req[r].to)
    /\ \A i \in Interviews : Present(i) => i \in drawn

LEMMA HandlerFields ==
    ASSUME NEW pc, NEW id, NEW seen, NEW to
    PROVE  /\ Handler(pc, id, seen, to).pc = pc /\ Handler(pc, id, seen, to).id = id
           /\ Handler(pc, id, seen, to).seen = seen /\ Handler(pc, id, seen, to).to = to
BY DEF Handler

LEMMA NextMove ==
    ASSUME InterviewAssumption, TypeOK, MoveInv, [Next]_vars
    PROVE  MoveInv'
<1> USE DEF tables
<1>1. ASSUME NEW r \in Slots, NEW h, req' = [req EXCEPT ![r] = h],
             h.pc = "status.write" => CanTransitionTo(h.seen, h.to)
      PROVE  \A s \in Slots : req'[s].pc = "status.write" => CanTransitionTo(req'[s].seen, req'[s].to)
  BY <1>1 DEF MoveInv, TypeOK
<1>2. ASSUME drawn \subseteq drawn',
             \A i \in Interviews : Present(i)' => Present(i) \/ i \in drawn',
             \A s \in Slots : req'[s].pc = "status.write" => CanTransitionTo(req'[s].seen, req'[s].to)
      PROVE  MoveInv'
  BY <1>2 DEF MoveInv
<1>3. ASSUME UNCHANGED req, drawn \subseteq drawn',
             \A i \in Interviews : Present(i)' => Present(i) \/ i \in drawn'
      PROVE  MoveInv'
  BY <1>3 DEF MoveInv
<1>4. CASE ResumeCreated \/ ResumeDeleted \/ CreateInterview \/ DeleteInterview
           \/ CreatePortfolio \/ DeletePortfolio
  <2>1. UNCHANGED req /\ drawn \subseteq drawn'
    BY <1>4 DEF ResumeCreated, ResumeDeleted, CreateInterview, DeleteInterview,
                CreatePortfolio, DeletePortfolio
  <2>2. \A i \in Interviews : Present(i)' => Present(i) \/ i \in drawn'
    BY <1>4, NoInterviewFields DEF ResumeCreated, ResumeDeleted, CreateInterview, DeleteInterview,
                CreatePortfolio, DeletePortfolio, Present, TypeOK
  <2> QED BY <1>3, <2>1, <2>2
<1>5. ASSUME NEW r \in Slots, StatusRead(r) PROVE MoveInv'
  <2>1. PICK id \in Interviews, to \in InterviewStatuses \cup {"unknown"} :
          /\ CanTransitionTo(interviews[id].status, to)
          /\ req' = [req EXCEPT ![r] = Handler("status.write", id, interviews[id].status, to)]
    BY <1>5 DEF StatusRead, Accept
  <2> DEFINE h == Handler("status.write", id, interviews[id].status, to)
  <2>3. req' = [req EXCEPT ![r] = h] /\ CanTransitionTo(h.seen, h.to)
    BY <2>1, HandlerFields
  <2> HIDE DEF h
  <2>2. \A s \in Slots : req'[s].pc = "status.write" => CanTransitionTo(req'[s].seen, req'[s].to)
    BY <1>1, <2>3
  <2> QED BY <1>2, <1>5, <2>2 DEF StatusRead, Present
<1>6. ASSUME NEW r \in Slots, StatusWrite(r) PROVE MoveInv'
  <2>1. \A s \in Slots : req'[s].pc = "status.write" => CanTransitionTo(req'[s].seen, req'[s].to)
    BY <1>1, <1>6, IdleFields DEF StatusWrite, Respond
  <2>2. \A i \in Interviews : Present(i)' => Present(i)
    BY <1>6 DEF StatusWrite, Present, TypeOK, Interview
  <2> QED BY <1>2, <1>6, <2>1, <2>2 DEF StatusWrite
<1>7. ASSUME NEW r \in Slots, SubmitRead(r) PROVE MoveInv'
  <2>1. PICK id : req' = [req EXCEPT ![r] = Handler("submit.check", id, "scheduled", "scheduled")]
    BY <1>7 DEF SubmitRead, Accept
  <2> DEFINE h == Handler("submit.check", id, "scheduled", "scheduled")
  <2>3. req' = [req EXCEPT ![r] = h] /\ h.pc # "status.write"
    BY <2>1, HandlerFields
  <2> HIDE DEF h
  <2>2. \A s \in Slots : req'[s].pc = "status.write" => CanTransitionTo(req'[s].seen, req'[s].to)
    BY <1>1, <2>3
  <2> QED BY <1>2, <1>7, <2>2 DEF SubmitRead, Present
<1>8. ASSUME NEW r \in Slots, ThenInsert(r) \/ Respond(r)
      PROVE  \A s \in Slots : req'[s].pc = "status.write" => CanTransitionTo(req'[s].seen, req'[s].to)
  BY <1>8, IdleFields DEF ThenInsert, Respond, MoveInv, TypeOK, Request
<1>9. ASSUME NEW r \in Slots, SubmitCheck(r) \/ Leave(r) PROVE MoveInv'
  BY <1>2, <1>8, <1>9 DEF SubmitCheck, Leave, Present
<1>10. ASSUME NEW r \in Slots, SubmitInsert(r) PROVE MoveInv'
  BY <1>2, <1>8, <1>10 DEF SubmitInsert, Present
<1>11. CASE UNCHANGED vars
  BY <1>3, <1>11 DEF vars, Present
<1> QED BY <1>4, <1>5, <1>6, <1>7, <1>9, <1>10, <1>11 DEF Next

(* The one step that changes the status of an interview that is there. *)
LEMMA MoveStep ==
    ASSUME InterviewAssumption, TypeOK, MoveInv, [Next]_vars, NEW i \in Interviews,
           Present(i), Present(i)', interviews'[i].status # interviews[i].status
    PROVE  \/ CanTransitionTo(interviews[i].status, interviews'[i].status)
           \/ \E r \in Slots : /\ req[r].pc = "status.write"
                               /\ req[r].id = i
                               /\ req[r].seen # interviews[i].status
<1> USE DEF tables
<1>1. CASE ResumeCreated \/ ResumeDeleted \/ CreateInterview \/ DeleteInterview
           \/ CreatePortfolio \/ DeletePortfolio
  BY <1>1, NoInterviewFields DEF ResumeCreated, ResumeDeleted, CreateInterview, DeleteInterview,
       CreatePortfolio, DeletePortfolio, Present, TypeOK, MoveInv
<1>2. ASSUME NEW r \in Slots,
             StatusRead(r) \/ SubmitRead(r) \/ SubmitCheck(r) \/ SubmitInsert(r) \/ Leave(r)
      PROVE  FALSE
  BY <1>2 DEF StatusRead, SubmitRead, SubmitCheck, SubmitInsert, Leave
<1>3. ASSUME NEW r \in Slots, StatusWrite(r)
      PROVE  /\ req[r].pc = "status.write" /\ req[r].id = i
             /\ interviews'[i].status = req[r].to
             /\ CanTransitionTo(req[r].seen, req[r].to)
  BY <1>3 DEF StatusWrite, TypeOK, Interview, MoveInv
<1>4. CASE UNCHANGED vars
  BY <1>4 DEF vars
<1> QED BY <1>1, <1>2, <1>3, <1>4 DEF Next

(* A status leaves the table's ways only through a request whose look at   *)
(* the interview was out of date.                                          *)
THEOREM Moves == Spec => StatusMoves
<1>1. Init => MoveInv
  BY IdleFields, NoInterviewFields DEF Init, MoveInv, Present
<1>2. TypeOK /\ MoveInv /\ [Next]_vars => MoveInv'
  BY NextMove, InterviewAssumption
<1>3. TypeOK /\ MoveInv /\ [Next]_vars =>
        [\A i \in Interviews :
           Present(i) /\ Present(i)' /\ interviews'[i].status # interviews[i].status =>
               \/ <<interviews[i].status, interviews'[i].status>> \in validInterviewStatusTransitions
               \/ \E r \in Slots : /\ req[r].pc = "status.write"
                                   /\ req[r].id = i
                                   /\ req[r].seen # interviews[i].status]_vars
  BY MoveStep, InterviewAssumption DEF CanTransitionTo
<1> QED BY <1>1, <1>2, <1>3, InterviewTypes, PTL DEF Spec, StatusMoves

-----------------------------------------------------------------------------
(* Feedbacks of one interview *)

(* The requests that found no feedback of i and will insert one. *)
Inserting(i) == {r \in Slots : req[r].pc = "submit.insert" /\ req[r].id = i}

(* A feedback that is there and one about to come both take a slot of the  *)
(* time when the first look-up found nothing, or a failed look-up.         *)
BoundInv ==
    \A i \in Interviews :
        /\ IsFiniteSet(FeedbackOf(i))
        /\ Cardinality(FeedbackOf(i)) + Cardinality(Inserting(i)) <= Cardinality(Slots) + faults

LEMMA OneMore ==
    ASSUME NEW S, IsFiniteSet(S), NEW x
    PROVE  /\ IsFiniteSet(S \cup {x}) /\ Cardinality(S \cup {x}) \in Nat
           /\ Cardinality(S \cup {x}) <= Cardinality(S) + 1
<1>1. Cardinality(S) \in Nat
  BY FS_CardinalityType
<1>2. /\ IsFiniteSet(S \cup {x})
      /\ Cardinality(S \cup {x}) = IF x \in S THEN Cardinality(S) ELSE Cardinality(S) + 1
  BY FS_AddElement, Zenon
<1> QED BY <1>1, <1>2

LEMMA Cardinals ==
    ASSUME InterviewAssumption, NEW i
    PROVE  /\ IsFiniteSet(Inserting(i)) /\ Cardinality(Inserting(i)) \in Nat
           /\ Cardinality(Slots) \in Nat
           /\ Cardinality(Inserting(i)) <= Cardinality(Slots)
<1>1. Inserting(i) \subseteq Slots
  BY DEF Inserting
<1> QED BY <1>1, FS_Subset, FS_CardinalityType DEF InterviewAssumption

(* Steps that neither add a feedback nor let a request go on to insert one. *)
LEMMA Fewer ==
    ASSUME InterviewAssumption, TypeOK, BoundInv, faults' = faults,
           \A i \in Interviews : FeedbackOf(i)' \subseteq FeedbackOf(i),
           \A i \in Interviews : Inserting(i)' \subseteq Inserting(i)
    PROVE  BoundInv'
<1> SUFFICES ASSUME NEW i \in Interviews
             PROVE  /\ IsFiniteSet(FeedbackOf(i)')
                    /\ Cardinality(FeedbackOf(i)') + Cardinality(Inserting(i)')
                         <= Cardinality(Slots) + faults'
  BY DEF BoundInv
<1>1. /\ IsFiniteSet(FeedbackOf(i)') /\ Cardinality(FeedbackOf(i)') \in Nat
      /\ Cardinality(FeedbackOf(i)) \in Nat
      /\ Cardinality(FeedbackOf(i)') <= Cardinality(FeedbackOf(i))
  BY FS_Subset, FS_CardinalityType DEF BoundInv
<1>2. /\ Cardinality(Inserting(i)') \in Nat /\ Cardinality(Inserting(i)) \in Nat
      /\ Cardinality(Inserting(i)') <= Cardinality(Inserting(i))
  BY Cardinals, FS_Subset, FS_CardinalityType
<1>3. faults \in Nat /\ Cardinality(Slots) \in Nat
  BY Cardinals DEF TypeOK
<1> QED BY <1>1, <1>2, <1>3 DEF BoundInv

LEMMA NextBound ==
    ASSUME InterviewAssumption, TypeOK, BoundInv, [Next]_vars
    PROVE  BoundInv'
<1> USE DEF tables
<1>1. ASSUME UNCHANGED <<req, faults>>,
             \A i \in Interviews : FeedbackOf(i)' \subseteq FeedbackOf(i)
      PROVE  BoundInv'
  BY <1>1, Fewer DEF Inserting
<1>2. ASSUME UNCHANGED feedbacks
      PROVE  \A i \in Interviews : FeedbackOf(i)' \subseteq FeedbackOf(i)
  BY <1>2 DEF FeedbackOf
<1>3. CASE ResumeCreated \/ CreateInterview \/ CreatePortfolio \/ DeletePortfolio
  BY <1>1, <1>2, <1>3 DEF ResumeCreated, CreateInterview, CreatePortfolio, DeletePortfolio
<1>4. CASE ResumeDeleted
  <2>1. \A i \in Interviews : FeedbackOf(i)' \subseteq FeedbackOf(i)
    BY <1>4 DEF ResumeDeleted, FeedbackOf, InterviewAssumption, TypeOK
  <2> QED BY <1>1, <1>4, <2>1 DEF ResumeDeleted
<1>5. CASE DeleteInterview
  <2>1. \A i \in Interviews : FeedbackOf(i)' \subseteq FeedbackOf(i)
    BY <1>5 DEF DeleteInterview, FeedbackOf, InterviewAssumption, TypeOK
  <2> QED BY <1>1, <1>5, <2>1 DEF DeleteInterview
(* A request that starts, or ends without an insert. *)
<1>6. ASSUME NEW r \in Slots, NEW h, req' = [req EXCEPT ![r] = h], h.pc # "submit.insert",
             UNCHANGED <<feedbacks, faults>>
      PROVE  BoundInv'
  <2>1. \A i \in Interviews : Inserting(i)' \subseteq Inserting(i)
    BY <1>6 DEF Inserting, TypeOK
  <2> QED BY <1>2, <1>6, <2>1, Fewer
<1>7. \A pc, id, seen, to : Handler(pc, id, seen, to).pc = pc
  BY DEF Handler
<1>8. ASSUME NEW r \in Slots, StatusRead(r) \/ StatusWrite(r) \/ SubmitRead(r) \/ Leave(r)
      PROVE  BoundInv'
  BY <1>6, <1>7, <1>8, IdleFields DEF StatusRead, StatusWrite, SubmitRead, Leave, Accept, Respond
<1>9. ASSUME NEW r \in Slots, SubmitCheck(r) PROVE BoundInv'
  <2> DEFINE id == req[r].id
  <2>1. CASE Respond(r) /\ UNCHANGED faults
    BY <1>6, <1>9, <2>1, IdleFields DEF SubmitCheck, Respond
  <2>2. CASE ThenInsert(r) /\ ((FeedbackOf(id) = {} /\ faults' = faults) \/ faults' = faults + 1)
    <3> SUFFICES ASSUME NEW i \in Interviews
                 PROVE  /\ IsFiniteSet(FeedbackOf(i)')
                        /\ Cardinality(FeedbackOf(i)') + Cardinality(Inserting(i)')
                             <= Cardinality(Slots) + faults'
      BY DEF BoundInv
    <3>1. FeedbackOf(i)' = FeedbackOf(i)
      BY <1>9 DEF SubmitCheck, FeedbackOf
    <3>2. IsFiniteSet(FeedbackOf(i)) /\ Cardinality(FeedbackOf(i)) \in Nat
      BY FS_CardinalityType DEF BoundInv
    <3>3. faults \in Nat /\ faults' \in Nat /\ faults' >= faults
      BY <2>2 DEF TypeOK
    <3>4. /\ Cardinality(Inserting(i)) \in Nat /\ Cardinality(Slots) \in Nat
          /\ IsFiniteSet(Inserting(i))
      BY Cardinals
    <3>5. Inserting(i)' \subseteq Slots
      BY DEF Inserting
    <3>6. Cardinality(Inserting(i)') \in Nat /\ Cardinality(Inserting(i)') <= Cardinality(Slots)
      BY <3>5, FS_Subset, FS_CardinalityType DEF InterviewAssumption
    <3>7. CASE i = id /\ FeedbackOf(id) = {}
      BY <3>1, <3>2, <3>3, <3>4, <3>6, <3>7, FS_EmptySet
    <3>8. CASE i = id /\ faults' = faults + 1
      <4>1. Inserting(i)' \subseteq Inserting(i) \cup {r}
        BY <2>2 DEF ThenInsert, Inserting, TypeOK
      <4>2. /\ IsFiniteSet(Inserting(i) \cup {r})
            /\ Cardinality(Inserting(i) \cup {r}) \in Nat
            /\ Cardinality(Inserting(i) \cup {r}) <= Cardinality(Inserting(i)) + 1
        BY <3>4, OneMore
      <4>3. Cardinality(Inserting(i)') <= Cardinality(Inserting(i) \cup {r})
        BY <4>1, <4>2, FS_Subset
      <4> QED BY <3>1, <3>2, <3>3, <3>4, <3>6, <3>8, <4>2, <4>3 DEF BoundInv
    <3>9. CASE i # id
      <4>1. Inserting(i)' = Inserting(i)
        BY <1>9, <2>2, <3>9 DEF ThenInsert, SubmitCheck, Inserting, TypeOK, Request
      <4> QED BY <3>1, <3>2, <3>3, <3>4, <4>1 DEF BoundInv
    <3> QED BY <2>2, <3>7, <3>8, <3>9
  <2> QED BY <1>9, <2>1, <2>2 DEF SubmitCheck
<1>10. ASSUME NEW r \in Slots, SubmitInsert(r) PROVE BoundInv'
  <2> DEFINE id == req[r].id
  <2>1. CASE UNCHANGED feedbacks
    BY <1>6, <1>10, <2>1, IdleFields DEF SubmitInsert, Respond
  <2>2. CASE \E f \in Feedbacks : feedbacks' = [feedbacks EXCEPT ![f] = id]
    <3>1. PICK f \in Feedbacks : feedbacks' = [feedbacks EXCEPT ![f] = id]
      BY <2>2
    <3> SUFFICES ASSUME NEW i \in Interviews
                 PROVE  /\ IsFiniteSet(FeedbackOf(i)')
                        /\ Cardinality(FeedbackOf(i)') + Cardinality(Inserting(i)')
                             <= Cardinality(Slots) + faults'
      BY DEF BoundInv
    <3>2. faults' = faults /\ faults \in Nat
      BY <1>10 DEF SubmitInsert, TypeOK
    <3>3. /\ Cardinality(Inserting(i)) \in Nat /\ Cardinality(Slots) \in Nat
          /\ IsFiniteSet(Inserting(i))
      BY Cardinals
    <3>4. IsFiniteSet(FeedbackOf(i)) /\ Cardinality(FeedbackOf(i)) \in Nat
      BY FS_CardinalityType DEF BoundInv
    <3>5. Inserting(i)' = Inserting(i) \ {r}
      BY <1>10, IdleFields DEF SubmitInsert, Respond, Inserting, TypeOK
    <3>6. CASE i = id
      <4>1. FeedbackOf(i)' \subseteq FeedbackOf(i) \cup {f}
        BY <3>1 DEF FeedbackOf, TypeOK
      <4>2. /\ IsFiniteSet(FeedbackOf(i) \cup {f})
            /\ Cardinality(FeedbackOf(i) \cup {f}) \in Nat
            /\ Cardinality(FeedbackOf(i) \cup {f}) <= Cardinality(FeedbackOf(i)) + 1
        BY <3>4, OneMore
      <4>3. /\ IsFiniteSet(FeedbackOf(i)') /\ Cardinality(FeedbackOf(i)') \in Nat
            /\ Cardinality(FeedbackOf(i)') <= Cardinality(FeedbackOf(i) \cup {f})
        BY <4>1, <4>2, FS_Subset, FS_CardinalityType
      <4>4. r \in Inserting(i)
        BY <1>10, <3>6 DEF SubmitInsert, Inserting
      <4>5. Cardinality(Inserting(i)') = Cardinality(Inserting(i)) - 1
        BY <3>3, <3>5, <4>4, FS_RemoveElement
      <4> QED BY <3>2, <3>3, <3>4, <4>2, <4>3, <4>5 DEF BoundInv
    <3>7. CASE i # id
      <4>1. FeedbackOf(i)' \subseteq FeedbackOf(i)
        BY <3>1, <3>7 DEF FeedbackOf, TypeOK
      <4>2. /\ IsFiniteSet(FeedbackOf(i)') /\ Cardinality(FeedbackOf(i)') \in Nat
            /\ Cardinality(FeedbackOf(i)') <= Cardinality(FeedbackOf(i))
        BY <3>4, <4>1, FS_Subset, FS_CardinalityType
      <4>3. Inserting(i)' = Inserting(i)
        BY <3>5, <3>7 DEF Inserting
      <4> QED BY <3>2, <3>3, <3>4, <4>2, <4>3 DEF BoundInv
    <3> QED BY <3>6, <3>7
  <2> QED BY <1>10, <2>1, <2>2 DEF SubmitInsert
<1>11. CASE UNCHANGED vars
  BY <1>1, <1>2, <1>11 DEF vars
<1> QED BY <1>3, <1>4, <1>5, <1>8, <1>9, <1>10, <1>11 DEF Next

LEMMA InitBound == InterviewAssumption /\ Init => BoundInv
<1> SUFFICES ASSUME InterviewAssumption, Init, NEW i \in Interviews
             PROVE  /\ IsFiniteSet(FeedbackOf(i))
                    /\ Cardinality(FeedbackOf(i)) + Cardinality(Inserting(i))
                         <= Cardinality(Slots) + faults
  BY DEF BoundInv
<1>1. FeedbackOf(i) = {} /\ Inserting(i) = {}
  BY IdleFields DEF Init, FeedbackOf, Inserting, InterviewAssumption
<1>2. Cardinality(Slots) \in Nat /\ faults = 0
  BY Cardinals DEF Init
<1> QED BY <1>1, <1>2, FS_EmptySet

LEMMA BoundHolds == InterviewAssumption /\ BoundInv /\ TypeOK => FeedbackBound
<1> SUFFICES ASSUME InterviewAssumption, BoundInv, TypeOK, NEW i \in Interviews
             PROVE  Cardinality(FeedbackOf(i)) <= Cardinality(Slots) + faults
  BY DEF FeedbackBound
<1>1. Cardinality(FeedbackOf(i)) \in Nat /\ faults \in Nat
  BY FS_CardinalityType DEF BoundInv, TypeOK
<1> QED BY <1>1, Cardinals DEF BoundInv

(* No more feedbacks of one interview than requests that overlap and       *)
(* look-ups that failed.                                                   *)
THEOREM FeedbackLimit == Spec => []FeedbackBound
<1>1. TypeOK /\ BoundInv /\ [Next]_vars => BoundInv'
  BY NextBound, InterviewAssumption
<1>2. Init => BoundInv
  BY InitBound, InterviewAssumption
<1>3. BoundInv /\ TypeOK => FeedbackBound
  BY BoundHolds, InterviewAssumption
<1> QED BY <1>1, <1>2, <1>3, InterviewTypes, PTL DEF Spec

(* The promise of ErrFeedbackAlreadyExists is kept where requests come one *)
(* after the other and no look-up fails.                                   *)
THEOREM OneAtATime ==
    ASSUME Cardinality(Slots) = 1, MaxFaults = 0
    PROVE  Spec => []OneFeedback
<1>1. TypeOK /\ FeedbackBound => OneFeedback
  BY DEF TypeOK, FeedbackBound, OneFeedback
<1> QED BY <1>1, InterviewTypes, FeedbackLimit, PTL

=============================================================================
