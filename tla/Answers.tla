------------------------------ MODULE Answers ------------------------------
(***************************************************************************)
(* What a client is told: the handlers of resume-service and of            *)
(* interview-service over HTTP and over gRPC, the calls of the service     *)
(* methods behind them and the replies made of their errors.  One request  *)
(* is answered, while other clients delete what it is about.               *)
(*                                                                         *)
(* What the calls do to the tables is ResumeService and InterviewService;  *)
(* here a call either succeeds, fails or misses its row.  A re-read after  *)
(* a write cannot change a reply and is left out, and so is the outcome of *)
(* the parser in UploadAndParse, which is a warning within a success.      *)
(***************************************************************************)
EXTENDS Sequences

VARIABLES
    held,      \* the rows a request can be about that are in the database
    exchange   \* the request and what became of it so far

answerVars == <<held, exchange>>

-----------------------------------------------------------------------------
(* The methods of the services: the row they are about, the parts of their *)
(* input that can be wrong, and their calls in order.                      *)

Method(about, parts, calls) == [about |-> about, parts |-> parts, calls |-> calls]

resumeService == [
    CreateResume       |-> Method("nothing", {"body"}, <<"insert">>),
    GetResume          |-> Method("resume", {"id"}, <<"read">>),
    UpdateResume       |-> Method("resume", {"id", "body"}, <<"read", "write">>),
    DeleteResume       |-> Method("resume", {"id"}, <<"delete">>),
    UpdateResumeStatus |-> Method("resume", {"id", "body", "value"}, <<"read", "check", "write">>),
    UploadFile         |-> Method("resume", {"id", "body", "file"}, <<"read", "store", "write">>),
    ParseResume        |-> Method("resume", {"id"}, <<"read", "claim", "parse", "write">>),
    UploadAndParse     |-> Method("nothing", {"body", "file"}, <<"store", "insert">>)]

interviewService == [
    CreateInterview       |-> Method("resume", {"id", "body"}, <<"validate", "insert">>),
    GetInterview          |-> Method("interview", {"id"}, <<"read">>),
    UpdateInterviewStatus |-> Method("interview", {"id", "body", "value"}, <<"read", "check", "write">>),
    DeleteInterview       |-> Method("interview", {"id"}, <<"delete">>)]

feedbackService == [
    SubmitFeedback |-> Method("interview", {"id", "body", "value"}, <<"read", "lookup", "validate", "insert">>),
    GetFeedback    |-> Method("feedback", {"id"}, <<"read">>)]

portfolioService == [
    CreatePortfolio |-> Method("resume", {"id", "body", "value"}, <<"validate", "insert">>),
    GetPortfolio    |-> Method("portfolio", {"id"}, <<"read">>),
    DeletePortfolio |-> Method("portfolio", {"id"}, <<"delete">>)]

(* The operations of several tables as one. *)
Joined(tables) == [op \in UNION {DOMAIN t : t \in tables} |-> (CHOOSE t \in tables : op \in DOMAIN t)[op]]

Methods == Joined({resumeService, interviewService, feedbackService, portfolioService})

-----------------------------------------------------------------------------
(* The handlers: the parts they refuse before any call, the errors they    *)
(* know, and what they reply to every other error.                         *)

Handle(refuses, knows, otherwise) == [refuses |-> refuses, knows |-> knows, otherwise |-> otherwise]
HTTP(refuses, knows) == Handle(refuses, knows, "InternalError")
GRPC(refuses, knows) == Handle(refuses, knows, "Internal")

resumeHTTP == [
    CreateResume       |-> HTTP({"body"}, {}),
    GetResume          |-> HTTP({"id"}, {"not found"}),
    UpdateResume       |-> HTTP({"id", "body"}, {"not found"}),
    DeleteResume       |-> HTTP({"id"}, {"not found"}),
    UpdateResumeStatus |-> HTTP({"id", "body"}, {"not found", "transition"})]

filesHTTP == [
    UploadFile     |-> HTTP({"id", "body", "file"}, {"not found"}),
    ParseResume    |-> HTTP({"id"}, {"not found"}),
    UploadAndParse |-> HTTP({"body", "file"}, {"file type"})]

(* A mistake NotFoundWasAbsent notices: any error is a missing row. *)
interviewHTTPMissing == [
    CreateInterview       |-> HTTP({"body"}, {}),
    GetInterview          |-> HTTP({"id"}, {"not found"}),
    UpdateInterviewStatus |-> HTTP({"id", "body"}, {"not found", "transition"}),
    DeleteInterview       |-> Handle({"id"}, {"not found"}, "NotFound")]

interviewHTTP == [
    CreateInterview       |-> HTTP({"body"}, {}),
    GetInterview          |-> HTTP({"id"}, {"not found"}),
    UpdateInterviewStatus |-> HTTP({"id", "body"}, {"not found", "transition"}),
    DeleteInterview       |-> HTTP({"id"}, {"not found"})]

feedbackHTTP == [
    SubmitFeedback |-> HTTP({"id", "body"}, {"not found", "exists"}),
    GetFeedback    |-> HTTP({"id"}, {"not found"})]

portfolioHTTP == [
    CreatePortfolio |-> HTTP({"id", "body"}, {"file type"}),
    DeletePortfolio |-> Handle({"id"}, {}, "NotFound")]

resumeGRPC == [
    GetResume          |-> GRPC({"id"}, {"not found"}),
    CreateResume       |-> GRPC({"body"}, {}),
    UpdateResume       |-> GRPC({"id"}, {"not found"}),
    UpdateResumeStatus |-> GRPC({"id", "body", "value"}, {"not found", "transition"})]

interviewGRPC == [
    GetInterview          |-> GRPC({"id"}, {"not found"}),
    CreateInterview       |-> GRPC({"body"}, {}),
    UpdateInterviewStatus |-> GRPC({"id", "body", "value"}, {"not found", "transition"})]

feedbackGRPC == [
    GetFeedback    |-> GRPC({"id"}, {"not found"}),
    SubmitFeedback |-> GRPC({"id", "body"}, {"not found", "exists"})]

portfolioGRPC == [
    GetPortfolio    |-> Handle({"id"}, {}, "NotFound"),
    CreatePortfolio |-> GRPC({"id"}, {"file type"})]

Handlers(via) ==
    Joined(IF via = "http" THEN {resumeHTTP, filesHTTP, interviewHTTP, feedbackHTTP, portfolioHTTP}
                           ELSE {resumeGRPC, interviewGRPC, feedbackGRPC, portfolioGRPC})

(* The replies to the errors a handler knows. *)
BadRequest(err) == IF err = "not found" THEN "NotFound" ELSE "BadRequest"

StatusCode(err) ==
    CASE err = "not found"  -> "NotFound"
      [] err = "transition" -> "FailedPrecondition"
      [] err = "exists"     -> "AlreadyExists"
      [] err = "file type"  -> "InvalidArgument"

Reply(via, op, err) ==
    LET handler == Handlers(via)[op]
    IN  IF err = "nil" THEN "OK"
        ELSE IF err \notin handler.knows THEN handler.otherwise
        ELSE IF via = "http" THEN BadRequest(err) ELSE StatusCode(err)

-----------------------------------------------------------------------------
(* The exchange.  "did" is what the request itself changed, "absent" tells *)
(* whether the row it is about was missing at some time since it arrived.  *)

Absent(about) == about # "nothing" /\ about \notin held

Running(call) == exchange.todo # << >> /\ Head(exchange.todo) = call

(* The method ends with err, having changed did, and its handler replies. *)
Conclude(did, err) ==
    exchange' = [exchange EXCEPT !.todo = << >>, !.did = @ \cup did, !.err = err,
                                 !.reply = Reply(exchange.via, exchange.op, err)]

Return(err) == Conclude({}, err)

(* The call reports an error after it has changed what. *)
Lost(what) == Conclude(what, "other")

(* The call succeeded and changed what. *)
Proceed(what) ==
    IF Len(exchange.todo) = 1
    THEN Conclude(what, "nil")
    ELSE exchange' = [exchange EXCEPT !.todo = Tail(@), !.did = @ \cup what]

(* Rows that go with a row: ON DELETE CASCADE. *)
With(row) == {row} \cup CASE row = "resume"    -> {"interview", "feedback", "portfolio"}
                          [] row = "interview" -> {"feedback"}
                          [] OTHER             -> {}

(* A request arrives and its handler looks at it. *)
Arrives(op, via, flaw) ==
    LET about   == Methods[op].about
        refused == flaw \in Handlers(via)[op].refuses
    IN  /\ exchange.op = "none"
        /\ exchange' = [op |-> op, via |-> via, flaw |-> flaw, did |-> {},
                        todo   |-> IF refused THEN << >> ELSE Methods[op].calls,
                        err    |-> "none",
                        absent |-> Absent(about),
                        reply  |-> IF ~refused THEN "none"
                                   ELSE IF via = "http" THEN "BadRequest" ELSE "InvalidArgument"]
        /\ UNCHANGED held

(* A method that does not find its row at its first call names it; those   *)
(* of portfolioService make a new error each time, which no handler knows. *)
ErrNotFound == IF exchange.op \in DOMAIN portfolioService THEN "other" ELSE "not found"

(* A mistake RefusedUndone notices: a row that is gone by now is not found. *)
ErrNoRowNotFound == "not found"

(* A row that is gone by the second call is the repository's own error.    *)
ErrNoRow == "other"

Read ==
    /\ Running("read")
    /\ IF Absent(Methods[exchange.op].about) THEN Return(ErrNotFound) ELSE Proceed({})
    /\ UNCHANGED held

(* The status is looked up in the table of transitions: a word that is no  *)
(* status is in none of its rows.                                          *)
CheckStatus ==
    /\ Running("check")
    /\ \/ exchange.flaw # "value" /\ Proceed({})
       \/ Return("transition")
    /\ UNCHANGED held

(* A mistake FlawsStop notices: the recommendation is taken as it comes. *)
InvalidTrusting ==
    \/ exchange.op = "CreateInterview" /\ exchange.flaw = "id"
    \/ exchange.op = "CreatePortfolio" /\ exchange.flaw = "value"

(* What a method itself finds wrong in its input. *)
Invalid ==
    \/ exchange.op = "CreateInterview" /\ exchange.flaw = "id"
    \/ exchange.op \in {"SubmitFeedback", "CreatePortfolio"} /\ exchange.flaw = "value"

Validate ==
    /\ Running("validate")
    /\ IF Invalid
       THEN Return(IF exchange.op = "CreatePortfolio" THEN "file type" ELSE "other")
       ELSE Proceed({})
    /\ UNCHANGED held

(* Submit looks for an earlier feedback and takes a failure for none. *)
Lookup ==
    /\ Running("lookup")
    /\ \/ "feedback" \in held /\ Return("exists")
       \/ Proceed({})
    /\ UNCHANGED held

Store ==
    /\ Running("store")
    /\ Proceed({"object"}) \/ Lost({"object"})
    /\ UNCHANGED held

(* The claim of ParseResume fails for a row with another status, or none.  *)
Claim ==
    /\ Running("claim")
    /\ \/ ~Absent("resume") /\ (Proceed({"row"}) \/ Lost({"row"}))
       \/ Return("other")
    /\ UNCHANGED held

(* Download and parser: the handler of a failure writes the row once more. *)
Parsing ==
    /\ Running("parse")
    /\ Proceed({}) \/ Return("other")
    /\ UNCHANGED held

Write ==
    /\ Running("write")
    /\ IF Absent(Methods[exchange.op].about)
       THEN Return(ErrNoRow)
       ELSE Proceed({"row"}) \/ Lost({"row"})
    /\ UNCHANGED held

Remove ==
    LET row == Methods[exchange.op].about IN
    /\ Running("delete")
    /\ \/ /\ Absent(row)
          /\ Return(ErrNotFound)
          /\ UNCHANGED held
       \/ /\ ~Absent(row)
          /\ Proceed({"row"}) \/ Lost({"row"})
          /\ held' = held \ With(row)

(* A foreign key refuses a row whose parent is gone.  (UploadAndParse then  *)
(* tries to delete its object; it does not matter here whether it can.)    *)
Insert ==
    /\ Running("insert")
    /\ IF Absent(Methods[exchange.op].about)
       THEN Return("other") /\ UNCHANGED held
       ELSE /\ Proceed({"row"}) \/ Lost({"row"})
            /\ held' = IF exchange.op = "SubmitFeedback" THEN held \cup {"feedback"} ELSE held

(* A call fails without any effect. *)
Fails ==
    /\ exchange.todo # << >>
    /\ Head(exchange.todo) \notin {"check", "validate", "lookup"}
    /\ Return("other")
    /\ UNCHANGED held

(* Another client deletes a row, or submits feedback. *)
Other ==
    /\ exchange.op # "none" /\ exchange.reply = "none"
    /\ \/ \E row \in held : held' = held \ With(row)
       \/ "interview" \in held /\ held' = held \cup {"feedback"}
    /\ exchange' = [exchange EXCEPT !.absent =
                       @ \/ Methods[exchange.op].about \notin held' \cup {"nothing"}]

-----------------------------------------------------------------------------
Silence == [op |-> "none", via |-> "none", flaw |-> "none", did |-> {}, todo |-> << >>,
            err |-> "none", absent |-> FALSE, reply |-> "none"]

AnswersInit ==
    /\ exchange = Silence
    /\ held \in {{}, {"resume"}, {"resume", "interview"}, {"resume", "interview", "feedback"},
                 {"resume", "portfolio"}}

AnswersNext ==
    \/ \E via \in {"http", "grpc"} : \E op \in DOMAIN Handlers(via) :
          \E flaw \in {"none"} \cup Methods[op].parts : Arrives(op, via, flaw)
    \/ Read \/ CheckStatus \/ Validate \/ Lookup \/ Store \/ Claim \/ Parsing \/ Write \/ Remove \/ Insert
    \/ Fails \/ Other

AnswersSpec == AnswersInit /\ [][AnswersNext]_answerVars

-----------------------------------------------------------------------------
(* Properties *)

Refusals == {"BadRequest", "NotFound", "InvalidArgument", "FailedPrecondition", "AlreadyExists"}

(* A client that is told that its request was refused, or its row not      *)
(* found, may take it that the request did nothing: whatever fails or is   *)
(* deleted on the way, no write, no row and no stored file of it is left.  *)
(* (DELETE of a portfolio answers 404 to every error.)                     *)
RefusedUndone ==
    exchange.reply \in Refusals /\ exchange.op # "DeletePortfolio" => exchange.did = {}

(* "not found" is told only of a row that was missing at some time since   *)
(* the request arrived, and never of a statement that failed.  (Portfolios *)
(* are the exception over both transports.)                                *)
NotFoundWasAbsent ==
    exchange.reply = "NotFound" /\ exchange.op \notin DOMAIN portfolioService => exchange.absent

(* A malformed id, a word outside its enumeration and a file of the wrong  *)
(* kind change nothing, over either transport: what one handler leaves to  *)
(* the method behind it, that method has to stop before its first write.   *)
FlawsStop ==
    exchange.flaw \in {"id", "value", "file"} => exchange.did = {}

=============================================================================
