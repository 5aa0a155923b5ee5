-------------------------- MODULE InterviewService --------------------------
(***************************************************************************)
(* interview-service: interviews, their feedback and the portfolios of a   *)
(* resume, three tables that refer to the one resume-service owns.  The    *)
(* services share the database and nothing else: no call, no event.        *)
(*                                                                         *)
(* Each statement is a transaction of its own, and a request checks first  *)
(* and writes later.  Reads that nothing depends on (the re-fetch after a  *)
(* status change, the queries) have no action.                             *)
(***************************************************************************)
EXTENDS Naturals, FiniteSets

CONSTANTS
    Resumes, Interviews, Feedbacks, Portfolios,   \* what uuid.New draws from
    Slots,        \* requests that can be in flight together
    None,         \* no row
    MaxFaults     \* bound: reads that fail and are taken for "not found"

ASSUME InterviewAssumption ==
    /\ None \notin Resumes \cup Interviews
    /\ IsFiniteSet(Slots)
    /\ MaxFaults \in Nat

VARIABLES
    resumes,      \* ids in table resumes
    interviews,   \* table interviews
    feedbacks,    \* table feedbacks: the interview of each, or None
    portfolios,   \* table portfolios: the resume of each, or None
    drawn,        \* ids that were ever inserted
    req,          \* the request running in each slot
    faults        \* failed reads so far

tables == <<resumes, interviews, feedbacks, portfolios>>
vars == <<tables, drawn, req, faults>>

InterviewStatuses == {"scheduled", "completed", "cancelled"}

validInterviewStatusTransitions ==
    { <<"scheduled", "completed">>, <<"scheduled", "cancelled">>,
      <<"cancelled", "scheduled">> }

(* A mistake TypeOK and StatusMoves notice: the request's string taken as  *)
(* it comes.                                                               *)
CanTransitionToAny(from, to) == from # to

CanTransitionTo(from, to) == <<from, to>> \in validInterviewStatusTransitions

Interview == [resume : Resumes \cup {None}, status : InterviewStatuses]

NoInterview == [resume |-> None, status |-> "scheduled"]

Present(i) == interviews[i].resume # None

FeedbackOf(i) == {f \in Feedbacks : feedbacks[f] = i}

(* seen and to: the status UpdateStatus has read, and the one it will write. *)
Request == [pc : {"idle", "status.write", "submit.check", "submit.insert"},
            id : Interviews \cup {None},
            seen : InterviewStatuses, to : InterviewStatuses]

Handler(pc, id, seen, to) == [pc |-> pc, id |-> id, seen |-> seen, to |-> to]

Idle == Handler("idle", None, "scheduled", "scheduled")

Accept(r, handler) == req[r] = Idle /\ req' = [req EXCEPT ![r] = handler]

Respond(r) == req' = [req EXCEPT ![r] = Idle]

-----------------------------------------------------------------------------
(* Table resumes, changed by resume-service alone.  Its DELETE takes with  *)
(* it, by ON DELETE CASCADE, all that refers to the resume.                *)

ResumeCreated ==
    /\ \E id \in Resumes \ drawn : resumes' = resumes \cup {id} /\ drawn' = drawn \cup {id}
    /\ UNCHANGED <<interviews, feedbacks, portfolios, req, faults>>

ResumeDeleted ==
    /\ \E id \in resumes :
         /\ resumes' = resumes \ {id}
         /\ interviews' = [i \in Interviews |->
                             IF interviews[i].resume = id THEN NoInterview ELSE interviews[i]]
         /\ feedbacks' = [f \in Feedbacks |->
                            IF \E i \in Interviews : feedbacks[f] = i /\ interviews[i].resume = id
                            THEN None ELSE feedbacks[f]]
         /\ portfolios' = [p \in Portfolios |->
                             IF portfolios[p] = id THEN None ELSE portfolios[p]]
    /\ UNCHANGED <<drawn, req, faults>>

-----------------------------------------------------------------------------
(* Requests of one statement; the foreign key of an INSERT is checked by   *)
(* the database, not by the service.                                       *)

CreateInterview ==
    /\ \E id \in Interviews \ drawn, resume \in resumes :
         /\ interviews' = [interviews EXCEPT ![id] = [resume |-> resume, status |-> "scheduled"]]
         /\ drawn' = drawn \cup {id}
    /\ UNCHANGED <<resumes, feedbacks, portfolios, req, faults>>

DeleteInterview ==
    /\ \E id \in Interviews :
         /\ Present(id)
         /\ interviews' = [interviews EXCEPT ![id] = NoInterview]
         /\ feedbacks' = [f \in Feedbacks |-> IF feedbacks[f] = id THEN None ELSE feedbacks[f]]
    /\ UNCHANGED <<resumes, portfolios, drawn, req, faults>>

CreatePortfolio ==
    /\ \E id \in Portfolios \ drawn, resume \in resumes :
         /\ portfolios' = [portfolios EXCEPT ![id] = resume]
         /\ drawn' = drawn \cup {id}
    /\ UNCHANGED <<resumes, interviews, feedbacks, req, faults>>

DeletePortfolio ==
    /\ \E id \in Portfolios :
         /\ portfolios[id] # None
         /\ portfolios' = [portfolios EXCEPT ![id] = None]
    /\ UNCHANGED <<resumes, interviews, feedbacks, drawn, req, faults>>

-----------------------------------------------------------------------------
(* UpdateStatus: checked on the row read, written without looking again. *)

StatusRead(r) ==
    /\ \E id \in Interviews, to \in InterviewStatuses \cup {"unknown"} :
         /\ Present(id)
         /\ CanTransitionTo(interviews[id].status, to)
         /\ Accept(r, Handler("status.write", id, interviews[id].status, to))
    /\ UNCHANGED <<tables, drawn, faults>>

StatusWrite(r) ==
    LET id == req[r].id IN
    /\ req[r].pc = "status.write"
    /\ IF Present(id)
       THEN interviews' = [interviews EXCEPT ![id].status = req[r].to]
       ELSE UNCHANGED interviews
    /\ Respond(r)
    /\ UNCHANGED <<resumes, feedbacks, portfolios, drawn, faults>>

-----------------------------------------------------------------------------
(* Submit: the interview is looked up, then its feedback, then a feedback  *)
(* is inserted.                                                            *)

SubmitRead(r) ==
    /\ \E id \in Interviews :
         Present(id) /\ Accept(r, Handler("submit.check", id, "scheduled", "scheduled"))
    /\ UNCHANGED <<tables, drawn, faults>>

ThenInsert(r) == req' = [req EXCEPT ![r].pc = "submit.insert"]

(* A mistake FeedbackBound notices: the answer of the look-up ignored. *)
SubmitCheckIgnored(r) ==
    /\ req[r].pc = "submit.check"
    /\ ThenInsert(r)
    /\ UNCHANGED <<tables, drawn, faults>>

(* The look-up's error is dropped: when it fails the request goes on as if *)
(* there were no feedback.                                                 *)
SubmitCheck(r) ==
    /\ req[r].pc = "submit.check"
    /\ \/ /\ IF FeedbackOf(req[r].id) = {} THEN ThenInsert(r) ELSE Respond(r)
          /\ UNCHANGED faults
       \/ /\ faults < MaxFaults
          /\ faults' = faults + 1
          /\ ThenInsert(r)
    /\ UNCHANGED <<tables, drawn>>

(* A mistake NoDangling notices: trusting the interview looked up before. *)
SubmitInsertTrusting(r) ==
    /\ req[r].pc = "submit.insert"
    /\ \E f \in Feedbacks \ drawn :
         /\ feedbacks' = [feedbacks EXCEPT ![f] = req[r].id]
         /\ drawn' = drawn \cup {f}
    /\ Respond(r)
    /\ UNCHANGED <<resumes, interviews, portfolios, faults>>

(* No unique key stands in the way of a second feedback; the foreign key   *)
(* rejects one for an interview deleted since.                             *)
SubmitInsert(r) ==
    LET id == req[r].id IN
    /\ req[r].pc = "submit.insert"
    /\ \/ /\ Present(id)
          /\ \E f \in Feedbacks \ drawn :
               feedbacks' = [feedbacks EXCEPT ![f] = id] /\ drawn' = drawn \cup {f}
       \/ ~Present(id) /\ UNCHANGED <<feedbacks, drawn>>
    /\ Respond(r)
    /\ UNCHANGED <<resumes, interviews, portfolios, faults>>

(* The request ends without its next statement: the statement failed, the  *)
(* client went away (every later statement fails then), or the process     *)
(* died.                                                                   *)
Leave(r) ==
    /\ req[r] # Idle
    /\ Respond(r)
    /\ UNCHANGED <<tables, drawn, faults>>

-----------------------------------------------------------------------------
Init ==
    /\ resumes = {}
    /\ interviews = [i \in Interviews |-> NoInterview]
    /\ feedbacks = [f \in Feedbacks |-> None]
    /\ portfolios = [p \in Portfolios |-> None]
    /\ drawn = {}
    /\ req = [r \in Slots |-> Idle]
    /\ faults = 0

Next ==
    \/ ResumeCreated \/ ResumeDeleted
    \/ CreateInterview \/ DeleteInterview
    \/ CreatePortfolio \/ DeletePortfolio
    \/ \E r \in Slots :
         StatusRead(r) \/ StatusWrite(r) \/ SubmitRead(r) \/ SubmitCheck(r) \/ SubmitInsert(r)
         \/ Leave(r)

Spec == Init /\ [][Next]_vars

-----------------------------------------------------------------------------
(* Properties *)

(* Every variable has its type. *)
TypeOK ==
    /\ resumes \subseteq Resumes
    /\ interviews \in [Interviews -> Interview]
    /\ feedbacks \in [Feedbacks -> Interviews \cup {None}]
    /\ portfolios \in [Portfolios -> Resumes \cup {None}]
    /\ drawn \subseteq Resumes \cup Interviews \cup Feedbacks \cup Portfolios
    /\ req \in [Slots -> Request]
    /\ faults \in 0..MaxFaults

(* Whoever deletes resumes or interviews while a request works on them: no *)
(* interview or portfolio outlives its resume, no feedback its interview.  *)
NoDangling ==
    /\ \A i \in Interviews : Present(i) => interviews[i].resume \in resumes
    /\ \A f \in Feedbacks : feedbacks[f] # None => Present(feedbacks[f])
    /\ \A p \in Portfolios : portfolios[p] # None => portfolios[p] \in resumes

(* "feedback already exists for this interview": an interview has one      *)
(* feedback at most.                                                       *)
OneFeedback == \A i \in Interviews : Cardinality(FeedbackOf(i)) <= 1

(* What the check in Submit achieves: no more feedbacks of one interview   *)
(* than requests in flight together, and one for each look-up that failed. *)
FeedbackBound ==
    \A i \in Interviews : Cardinality(FeedbackOf(i)) <= Cardinality(Slots) + faults

(* A status moves along the table, unless the request that writes it had   *)
(* read the interview before another request changed it.                   *)
StatusMoves ==
    [][\A i \in Interviews :
         Present(i) /\ Present(i)' /\ interviews'[i].status # interviews[i].status =>
             \/ <<interviews[i].status, interviews'[i].status>> \in validInterviewStatusTransitions
             \/ \E r \in Slots : /\ req[r].pc = "status.write"
                                 /\ req[r].id = i
                                 /\ req[r].seen # interviews[i].status]_vars

=============================================================================
