---------------------------- MODULE SearchQuery ----------------------------
(***************************************************************************)
(* What a search filter asks of a document: the query search-service sends *)
(* to Elasticsearch, what Elasticsearch takes it to mean with the mappings *)
(* of the index, and the in-memory repository the tests search instead.    *)
(***************************************************************************)
EXTENDS Naturals, FiniteSets

CONSTANTS
    Texts,      \* skills and words of a query, as people write them
    Terms,      \* what the standard analyzer makes of text: words in lower case
    Analyzed,   \* the terms of each text
    Statuses,   \* the statuses of documents
    Sources,    \* the sources of documents
    Years,      \* years of experience
    None        \* a text, status or source that is not given

ASSUME QueryAssumption ==
    /\ Terms \subseteq Texts
    /\ Analyzed \in [Texts -> SUBSET Terms]
    /\ \A t \in Terms : Analyzed[t] = {t}
    /\ Years \subseteq Nat
    /\ None \notin Texts \cup Statuses \cup Sources

VARIABLES
    document,   \* a document of the index
    filter      \* a filter some client sends

queryVars == <<document, filter>>

(* text: the name, the education and the work history. *)
Document == [text : Texts, skills : SUBSET Texts, status : Statuses, source : Sources,
             years : Years]

Filter == [query : Texts \cup {None}, skills : SUBSET Texts,
           status : Statuses \cup {None}, source : Sources \cup {None},
           min : Years, max : Years]

NoFilter == [query |-> None, skills |-> {}, status |-> None, source |-> None,
             min |-> 0, max |-> 0]

-----------------------------------------------------------------------------
(* The query: a set of clauses that must all hold.  A range names only the *)
(* bounds above zero.                                                      *)

Clause(kind, field, value) == [kind |-> kind, field |-> field, value |-> value]

(* A mistake TestsSearchAlike notices: one bound is enough for both. *)
ExperienceRangeBoth(f) ==
    IF f.min > 0 \/ f.max > 0
    THEN {Clause("gte", "years", f.min), Clause("lte", "years", f.max)} ELSE {}

ExperienceRange(f) ==
    (IF f.min > 0 THEN {Clause("gte", "years", f.min)} ELSE {})
      \cup (IF f.max > 0 THEN {Clause("lte", "years", f.max)} ELSE {})

(* The words of the query, in any field of text; that Elasticsearch also   *)
(* finds words spelt almost like them is left out.                         *)
QueryWords(f) == IF f.query # None THEN {Clause("match", "text", f.query)} ELSE {}

(* A mistake SkillsAsListed notices: every skill is required. *)
SkillsAll(f) == {Clause("terms", "skills", {s}) : s \in f.skills}

SkillsAny(f) == IF f.skills # {} THEN {Clause("terms", "skills", f.skills)} ELSE {}

buildSearchQuery(f) ==
    QueryWords(f) \cup SkillsAny(f) \cup ExperienceRange(f)
      \cup (IF f.status # None THEN {Clause("term", "status", f.status)} ELSE {})
      \cup (IF f.source # None THEN {Clause("term", "source", f.source)} ELSE {})

-----------------------------------------------------------------------------
(* Elasticsearch.  A text field is found by its terms: match analyzes what *)
(* it looks for, term and terms take it as it is.                          *)

TermsOf(texts) == UNION {Analyzed[t] : t \in texts}

Holds(d, clause) ==
    CASE clause.kind = "match" ->
           Analyzed[clause.value] \cap TermsOf({d.text} \cup d.skills) # {}
      [] clause.kind = "terms" -> clause.value \cap TermsOf(d.skills) # {}
      [] clause.kind = "term"  ->
           clause.value = IF clause.field = "status" THEN d.status ELSE d.source
      [] clause.kind = "gte"   -> d.years >= clause.value
      [] clause.kind = "lte"   -> d.years <= clause.value

Found(d, f) == \A clause \in buildSearchQuery(f) : Holds(d, clause)

(* MockRepository.Search: it looks at neither the query nor the skills. *)
FoundByMock(d, f) ==
    /\ f.status # None => d.status = f.status
    /\ f.source # None => d.source = f.source
    /\ f.min > 0 => d.years >= f.min
    /\ f.max > 0 => d.years <= f.max

-----------------------------------------------------------------------------
(* Every document against every filter. *)

QueryInit ==
    /\ document \in Document
    /\ filter = NoFilter

AskSearch ==
    /\ filter = NoFilter
    /\ filter' \in Filter
    /\ UNCHANGED document

QueryNext == AskSearch

QuerySpec == QueryInit /\ [][QueryNext]_queryVars

-----------------------------------------------------------------------------
(* Properties *)

(* Without query and skills the search finds what the in-memory repository *)
(* of the tests finds, and with them it finds nothing else.                *)
TestsSearchAlike ==
    /\ Found(document, filter) => FoundByMock(document, filter)
    /\ filter.query = None /\ filter.skills = {} =>
         (Found(document, filter) <=> FoundByMock(document, filter))

(* Skills asked for exactly as a resume lists them: its document is found  *)
(* if one of them is a term, a single word in lower case, and missed if    *)
(* none is: a resume that lists Go is not found by Go.  The repository of  *)
(* the tests finds it either way.                                          *)
SkillsAsListed ==
    /\ filter.skills # {} /\ filter.skills \subseteq document.skills
    /\ [filter EXCEPT !.skills = {}] = NoFilter
    => /\ Found(document, filter) <=> filter.skills \cap Terms # {}
       /\ FoundByMock(document, filter)

=============================================================================
