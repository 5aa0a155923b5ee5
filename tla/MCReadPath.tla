---------------------------- MODULE MCReadPath -----------------------------
(***************************************************************************)
(* Values for checking with TLC what lies between a client and its answer: *)
(* the gateway with the processes it finds, the pages of a list, the query *)
(* of a search, and the handlers' replies.  The four share no variable, so *)
(* a behaviour moves one of them, chosen at the beginning, and leaves the  *)
(* others as they start.                                                   *)
(***************************************************************************)
EXTENDS ServiceRegistry, Listing, SearchQuery, Answers, TLC

CONSTANTS p1, p2, a1, a2, r1, r2, r3, go, Go, pending, parsed, upload

VARIABLE part

(* Two processes one after the other, or at once, at one address; one      *)
(* service at two addresses; two services behind one gateway.              *)
MCDeployments ==
    LET Together == p1 :> a1 @@ p2 :> a1
        Apart    == p1 :> a1 @@ p2 :> a2
        Deploy(first, second, address) ==
            [service |-> a1 :> first @@ a2 :> second, address |-> address]
    IN  { Deploy("interview-service", "interview-service", Together),
          Deploy("search-service", "search-service", Apart),
          Deploy("resume-service", "interview-service", Apart) }

(* Zero and what is below it, the first pages, the largest int32, the      *)
(* largest int.                                                            *)
MCPageArgs == {-1, 1, 2, Narrow, Half - 1}
MCSizeArgs == {0, 1, 2, Narrow, Half - 1}

(* One skill in two spellings, only one of them as the analyzer writes it. *)
MCAnalyzed == go :> {go} @@ Go :> {go}

-----------------------------------------------------------------------------
RegistryRests == Init /\ deployed = CHOOSE d \in Deployments : TRUE

ListRests ==
    ListInit /\ table = << >> /\ walk.list = "http" /\ walk.rule = "empty" /\ walk.page = 1 /\ walk.size = 1

QueryRests == QueryInit /\ document = CHOOSE d \in Document : TRUE

AnswersRest == AnswersInit /\ held = {}

ReadInit ==
    \/ part = "registry" /\ Init /\ ListRests /\ QueryRests /\ AnswersRest
    \/ part = "list"     /\ RegistryRests /\ ListInit /\ QueryRests /\ AnswersRest
    \/ part = "query"    /\ RegistryRests /\ ListRests /\ QueryInit /\ AnswersRest
    \/ part = "answers"  /\ RegistryRests /\ ListRests /\ QueryRests /\ AnswersInit

ReadNext ==
    \/ part = "registry" /\ Next        /\ UNCHANGED <<part, listVars, queryVars, answerVars>>
    \/ part = "list"     /\ ListNext    /\ UNCHANGED <<part, vars, queryVars, answerVars>>
    \/ part = "query"    /\ QueryNext   /\ UNCHANGED <<part, vars, listVars, answerVars>>
    \/ part = "answers"  /\ AnswersNext /\ UNCHANGED <<part, vars, listVars, queryVars>>

ReadSpec ==
    /\ ReadInit
    /\ [][ReadNext]_<<part, vars, listVars, queryVars, answerVars>>
    /\ RegistryFairness

=============================================================================
