--------------------------- MODULE SearchPipeline ---------------------------
(***************************************************************************)
(* The two services together: resume-service appends to the stream, the    *)
(* consumer group of search-service takes from it, and handleSearchEvent   *)
(* of cmd/search-service/main.go changes the Elasticsearch index.          *)
(*                                                                         *)
(* The stream of ResumeService is the stream StreamConsumer reads; both    *)
(* draw on one budget of faults.                                           *)
(***************************************************************************)
EXTENDS ResumeService, FiniteSets

CONSTANTS
    Consumers,     \* search-service processes
    Count,         \* the Count argument of XREADGROUP
    NowOutcomes    \* the answers to storing "now" in a date field: TRUE, it is stored

ASSUME PipelineAssumption ==
    /\ Count \in Nat \ {0}
    /\ NowOutcomes \subseteq BOOLEAN

VARIABLES
    docs,          \* the index: the document of each resume
    acceptsNow,    \* Elasticsearch stores the string "now" in a date field
    group, delivered, pending, pc, batch, cur, attempts, applied

(* A request publishes three events at most, a repeated XADD one more. *)
MaxEntries == 3 * MaxRequests + MaxFaults

SC == INSTANCE StreamConsumer WITH entries <- Len(stream)

consumption == <<group, delivered, pending, pc, batch, cur, attempts, applied>>
serviceVars == <<rows, used, objects, stream, req, publisher, started>>
indexVars == <<docs, acceptsNow>>
pipelineVars == <<vars, indexVars, consumption>>

-----------------------------------------------------------------------------
(* The index.  A document keeps what a search shows of a row. *)

Doc == [status : RowStatuses, name : Names \cup {NoName}, skills : BOOLEAN]

NoDoc == [status |-> "absent", name |-> NoName, skills |-> FALSE]

Indexed(id) == docs[id] # NoDoc

(* A mistake IndexSettled notices: every document starts as pending. *)
buildResumeDocumentPending(row) ==
    [status |-> "pending", name |-> row.name, skills |-> row.parsed]

buildResumeDocument(row) ==
    [status |-> row.status, name |-> row.name, skills |-> row.parsed]

IndexResume(event)  == [docs EXCEPT ![event.id] = buildResumeDocument(event.doc)]
DeleteResume(event) == [docs EXCEPT ![event.id] = NoDoc]

(* A mistake IndexConverges notices: the status of the event's other side. *)
UpdateResumeStatusOld(event) ==
    [docs EXCEPT ![event.id].status = event.old]

(* The partial update of the document's status. *)
UpdateResumeStatus(event) ==
    [docs EXCEPT ![event.id].status = event.new]

(* The index after a successful handleSearchEvent.  A status for a         *)
(* document that does not exist is dropped; "parsed" is ignored.           *)
AfterEvent(event) ==
    CASE event.action \in {"created", "updated"} ->
           IndexResume(event)
      [] event.action = "deleted" ->
           DeleteResume(event)
      [] event.action = "status_changed" /\ Indexed(event.id) ->
           UpdateResumeStatus(event)
      [] OTHER -> docs

(* The update sets updated_at, mapped as a plain date, to the string       *)
(* "now".  The default date format has no such value, so Elasticsearch is  *)
(* expected to reject the whole update; both answers are modelled.         *)
Rejected(event) ==
    event.action = "status_changed" /\ Indexed(event.id) /\ ~acceptsNow

(* The consumer gives the event to handleSearchEvent.  When a call to      *)
(* Elasticsearch fails the document may have been changed all the same.    *)
handleSearchEvent(c) ==
    /\ UNCHANGED <<serviceVars, acceptsNow>>
    /\ \E e \in DOMAIN stream :
           \/ /\ ~Rejected(stream[e])
              /\ docs' = AfterEvent(stream[e])
              /\ SC!Handle(c, e, TRUE)
              /\ UNCHANGED faults
           \/ /\ Rejected(stream[e])
              /\ UNCHANGED docs
              /\ SC!Handle(c, e, FALSE)
              /\ UNCHANGED faults
           \/ /\ Spend("call")
              /\ docs' \in {docs, AfterEvent(stream[e])}
              /\ SC!Handle(c, e, FALSE)

-----------------------------------------------------------------------------
(* Steps of the consumer's loop that leave the index alone. *)
ConsumerStep(c) ==
    /\ UNCHANGED <<serviceVars, indexVars>>
    /\ \/ SC!Start(c) \/ SC!Read(c)
       \/ SC!Ack(c) /\ (faults' # faults => "call" \in Faults)

(* What may happen to the loop, and need not. *)
ConsumerFault(c) ==
    /\ UNCHANGED <<serviceVars, indexVars>>
    /\ \/ "call" \in Faults /\ SC!ReadLost(c)
       \/ "crash" \in Faults /\ SC!Stop(c)

Service == Next /\ UNCHANGED <<indexVars, consumption>>

PipelineInit ==
    /\ Init
    /\ SC!ConsumerInit
    /\ docs = [id \in Ids |-> NoDoc]
    /\ acceptsNow \in NowOutcomes

PipelineNext ==
    \/ Service
    \/ \E c \in Consumers : ConsumerStep(c) \/ handleSearchEvent(c) \/ ConsumerFault(c)

PipelineSpec == PipelineInit /\ [][PipelineNext]_pipelineVars

(* A running handler goes on, and so does the loop of every consumer. *)
PipelineFairSpec ==
    /\ PipelineSpec
    /\ \A r \in Slots : WF_pipelineVars(Step(r) /\ UNCHANGED <<indexVars, consumption>>)
    /\ \A c \in Consumers : WF_pipelineVars(ConsumerStep(c) \/ handleSearchEvent(c))

-----------------------------------------------------------------------------
(* Properties *)

PipelineTypeOK ==
    /\ TypeOK
    /\ SC!TypeOK
    /\ docs \in [Ids -> Doc]
    /\ acceptsNow \in BOOLEAN

(* A resume whose deletion the index has applied never comes back to it.   *)
DeletedLeavesIndex ==
    \A e \in applied : stream[e].action = "deleted" => ~Indexed(stream[e].id)

(* The index lists the resumes that exist. *)
IndexListsResumes == \A id \in Ids : Indexed(id) <=> Exists(id)

(* Each document shows the status of its row. *)
IndexShowsStatus == \A id \in Ids : docs[id].status = rows[id].status

IndexAgrees == IndexListsResumes /\ (acceptsNow => IndexShowsStatus)

(* Requests one after the other, one consumer, no fault: whenever no       *)
(* request is running and every entry was given to handleSearchEvent, the  *)
(* index lists the resumes of the table, with their status if status       *)
(* updates are accepted.                                                   *)
IndexSettled ==
    (/\ faults = 0
     /\ \A r \in Slots : req[r] = Idle
     /\ \A e \in DOMAIN stream : attempts[e] > 0) => IndexAgrees

(* Requests one after the other, one consumer: without a fault the index   *)
(* comes to list the resumes of the table and stays so, with their status  *)
(* if status updates are accepted.                                         *)
IndexConverges == <>[](faults > 0 \/ IndexAgrees)

(* "status_changed: update the document's status": the same client sees    *)
(* every status arrive in the index.                                       *)
StatusArrives == <>[]IndexShowsStatus

=============================================================================
