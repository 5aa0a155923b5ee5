------------------------------ MODULE Listing ------------------------------
(***************************************************************************)
(* Lists page by page: GET /resumes and ListResumes of resume-service,     *)
(* ListInterviews and ListPortfolios of interview-service, and the search. *)
(*                                                                         *)
(* A client walks the pages of one list while others insert and delete     *)
(* rows, and rows change places: a search asks for no order at all.        *)
(* Nothing ties the pages of a walk together, and the total of a page of   *)
(* resumes comes from a statement of its own.  Page number and page size   *)
(* reach the OFFSET from the client.                                       *)
(***************************************************************************)
EXTENDS Integers, Sequences, FiniteSets

CONSTANTS
    Rows,       \* what can be listed
    Default,    \* the page size of a request that names none
    Cap,        \* the largest page of the gRPC lists and of the search
    Narrow,     \* the largest int32, the type of page and size over gRPC
    Half,       \* an int is one of -Half .. Half - 1
    Window,     \* Elasticsearch gives nothing beyond this many hits
    Counted,    \* and counts no more than this many
    PageArgs,   \* the page numbers clients begin with
    SizeArgs    \* the page sizes they ask for

ASSUME ListingAssumption ==
    /\ IsFiniteSet(Rows)
    /\ {Default, Cap, Narrow, Half, Window, Counted} \subseteq Nat \ {0}
    /\ Default <= Cap
    /\ Narrow * Cap < Half
    /\ 2 * Cardinality(Rows) < Half
    /\ PageArgs \subseteq -Half .. Half - 1
    /\ SizeArgs \subseteq -Half .. Half - 1

VARIABLES
    table,      \* the rows that match the filter of the walk, in their order
    walk,       \* the client's walk
    entered,    \* since it began rows came to a place: inserted, changed into the
                \* filter, or moved there
    left        \* since it began rows left a place: deleted, changed out of the
                \* filter, or moved away

listVars == <<table, walk, entered, left>>

-----------------------------------------------------------------------------
Lists == {"http", "grpc", "interviews", "portfolios", "search"}

OverGRPC == {"grpc", "interviews", "portfolios"}

(* When the client stops: after one page; at an empty page; at a page with *)
(* fewer rows than it asked for; when page times size reaches the total.   *)
Rules == {"once", "empty", "short", "total"}

(* page, size: as the client sends them; total: what is counted for the    *)
(* page under way; seen: the rows so far; repeated: one of them came       *)
(* twice; steady: the rows that matched throughout.                        *)
Walk == [pc : {"asked", "counted", "done", "refused"}, list : Lists, rule : Rules,
         scoped : BOOLEAN, page : Int, size : Int,
         total : Nat, seen : SUBSET Rows, repeated : BOOLEAN, steady : SUBSET Rows]

Elements(s) == {s[k] : k \in DOMAIN s}

(* A list without repetitions. *)
Distinct(s) == \A i, j \in DOMAIN s : s[i] = s[j] => i = j

Tables == {s \in UNION {[1 .. n -> Rows] : n \in 0 .. Cardinality(Rows)} : Distinct(s)}

(* Arithmetic of an int. *)
Wrap(n) == ((n + Half) % (2 * Half)) - Half

-----------------------------------------------------------------------------
(* What becomes of the arguments *)

(* Every list takes a page below one for the first. *)
PageNumber(page) == IF page < 1 THEN 1 ELSE page

SizeHTTP(size) == IF size < 1 THEN Default ELSE size

(* A mistake PageExact notices: no limit on the size. *)
SizeUncapped(size) == IF size < 1 THEN Default ELSE size

(* ListResumes, ListInterviews and ListPortfolios alike. *)
SizeGRPC(size) ==
    IF size < 1 THEN Default ELSE IF size > Cap THEN Cap ELSE size

(* Search does not cut a size that is too large, it drops it. *)
SizeSearch(size) == IF size < 1 \/ size > Cap THEN Default ELSE size

PageSize(list, size) ==
    IF list = "http" THEN SizeHTTP(size)
    ELSE IF list = "search" THEN SizeSearch(size) ELSE SizeGRPC(size)

(* A mistake NoSkip notices: the first page is page zero. *)
OffsetFromZero(page, size) == Wrap(page * size)

Offset(page, size) == Wrap((page - 1) * size)

(* LIMIT size OFFSET offset; what Elasticsearch makes of from and size. *)
Limited(s, offset, size) ==
    SubSeq(s, offset + 1, IF offset + size < Len(s) THEN offset + size ELSE Len(s))

(* A mistake NoRepeat notices: the last row of a page opens the next one.  *)
SliceInclusive(s, start, size) ==
    IF start >= Len(s) THEN << >>
    ELSE LET end == Wrap(start + size + 1)
         IN  SubSeq(s, start + 1, IF end > Len(s) THEN Len(s) ELSE end)

(* A page cut out of the whole list in memory. *)
Slice(s, start, size) ==
    IF start >= Len(s) THEN << >>
    ELSE LET end == Wrap(start + size)
         IN  SubSeq(s, start + 1, IF end > Len(s) THEN Len(s) ELSE end)

-----------------------------------------------------------------------------
(* The writers.  created_at is drawn before the row is committed and the   *)
(* filter looks at columns that change, so a row may appear anywhere.      *)
(* What they do after the walk is of no interest.                          *)

Underway == walk.pc \in {"asked", "counted"}

(* A mistake ListTypeOK notices: the id of a new row is one that is taken. *)
AnyRow == Rows

(* What may come into the list: a new row has an id drawn for it.          *)
NewRow == Rows \ Elements(table)

Enter ==
    /\ Underway
    /\ \E r \in NewRow, i \in 1 .. Len(table) + 1 :
         table' = [k \in 1 .. Len(table) + 1 |->
                      IF k < i THEN table[k] ELSE IF k = i THEN r ELSE table[k - 1]]
    /\ entered' = TRUE
    /\ UNCHANGED <<walk, left>>

Leave ==
    /\ Underway
    /\ \E i \in DOMAIN table :
         /\ table' = [k \in 1 .. Len(table) - 1 |-> IF k < i THEN table[k] ELSE table[k + 1]]
         /\ walk' = [walk EXCEPT !.steady = @ \ {table[i]}]
    /\ left' = TRUE
    /\ UNCHANGED entered

(* Rows change places.  The query of a search has no sort: hits come by    *)
(* score, which shifts with the other documents, and where scores tie by   *)
(* the order of the index, which a document loses when it is written       *)
(* again.  ORDER BY created_at leaves the order of a tie open.             *)
Rearrange ==
    /\ Underway
    /\ table' \in {s \in Tables : Elements(s) = Elements(table)}
    /\ entered' = TRUE
    /\ left' = TRUE
    /\ UNCHANGED walk

Writers == UNCHANGED <<table, entered, left>>

-----------------------------------------------------------------------------
(* The client *)

Stops(rows, total) ==
    CASE walk.rule = "once"  -> TRUE
      [] walk.rule = "empty" -> rows = << >>
      [] walk.rule = "short" -> Len(rows) < walk.size
      [] walk.rule = "total" -> walk.page * walk.size >= total

(* An answer arrives, and the client stops or asks for the next page. *)
Answer(rows, total) ==
    /\ walk' = [walk EXCEPT
                  !.total = 0,
                  !.repeated = @ \/ Elements(rows) \cap walk.seen # {},
                  !.seen = @ \cup Elements(rows),
                  !.pc = IF Stops(rows, total) THEN "done" ELSE "asked",
                  !.page = IF Stops(rows, total) THEN @ ELSE @ + 1]
    /\ Writers

(* The answer is an error whatever is in the table. *)
Refuse ==
    /\ walk' = [walk EXCEPT !.pc = "refused"]
    /\ Writers

(* What the server makes of the request. *)
TheSize == PageSize(walk.list, walk.size)
TheOffset == Offset(PageNumber(walk.page), TheSize)

-----------------------------------------------------------------------------
(* The lists *)

(* GET /resumes and ListResumes: SELECT COUNT( * ), then the page. *)
CountResumes ==
    /\ walk.list \in {"http", "grpc"} /\ walk.pc = "asked"
    /\ walk' = [walk EXCEPT !.pc = "counted", !.total = Len(table)]
    /\ Writers

(* A negative OFFSET is an error. *)
SelectResumes ==
    /\ walk.pc = "counted"
    /\ \/ TheOffset >= 0 /\ Answer(Limited(table, TheOffset, TheSize), walk.total)
       \/ TheOffset < 0 /\ Refuse

(* The second statement fails; the client repeats the request. *)
SelectFails ==
    /\ walk.pc = "counted"
    /\ walk' = [walk EXCEPT !.pc = "asked"]
    /\ Writers

(* Nothing is listed unless the request names a resume. *)
Unscoped ==
    /\ walk.list \in {"interviews", "portfolios"} /\ walk.pc = "asked"
    /\ ~walk.scoped
    /\ Answer(<< >>, 0)

(* All interviews of the resume, filtered by status in memory. *)
ListInterviews ==
    /\ walk.list = "interviews" /\ walk.pc = "asked" /\ walk.scoped
    /\ Answer(Slice(table, TheOffset, TheSize), Len(table))

ListPortfolios ==
    /\ walk.list = "portfolios" /\ walk.pc = "asked" /\ walk.scoped
    /\ Answer(Slice(table, TheOffset, TheSize), Len(table))

(* Elasticsearch counts and pages in one request, and refuses one that     *)
(* reaches below zero or beyond its window.  Unless told to track the      *)
(* total it stops counting.                                                *)
CountedHits == IF Len(table) < Counted THEN Len(table) ELSE Counted

Search ==
    /\ walk.list = "search" /\ walk.pc = "asked"
    /\ \/ /\ TheOffset >= 0 /\ TheOffset + TheSize <= Window
          /\ Answer(Limited(table, TheOffset, TheSize), CountedHits)
       \/ /\ ~(TheOffset >= 0 /\ TheOffset + TheSize <= Window)
          /\ Refuse

-----------------------------------------------------------------------------
ListInit ==
    /\ table \in Tables
    /\ \E list \in Lists, rule \in Rules, scoped \in BOOLEAN,
          page \in PageArgs, size \in SizeArgs :
         /\ list \in OverGRPC => page <= Narrow /\ size <= Narrow
         /\ rule # "once" => page = 1
         /\ rule \in {"short", "total"} => size >= 1
         /\ ~scoped => list \in {"interviews", "portfolios"}
         /\ walk = [pc |-> "asked", list |-> list, rule |-> rule, scoped |-> scoped,
                    page |-> page, size |-> size, total |-> 0, seen |-> {},
                    repeated |-> FALSE, steady |-> Elements(table)]
    /\ entered = FALSE
    /\ left = FALSE

ListNext ==
    \/ Enter \/ Leave \/ Rearrange
    \/ CountResumes \/ SelectResumes \/ SelectFails
    \/ Unscoped \/ ListInterviews \/ ListPortfolios
    \/ Search

ListSpec == ListInit /\ [][ListNext]_listVars

-----------------------------------------------------------------------------
(* Properties *)

(* Every variable has its type, the list holds no row twice, and a row     *)
(* that matched throughout is in it.                                       *)
ListTypeOK ==
    /\ table \in Seq(Rows)
    /\ Distinct(table)
    /\ walk \in Walk
    /\ walk.steady \subseteq Elements(table)
    /\ entered \in BOOLEAN
    /\ left \in BOOLEAN

(* The client's way to stop fits what the server does with its page size,  *)
(* and a total it goes by is counted together with the rows and to the end.*)
Trusted ==
    /\ walk.scoped
    /\ \/ walk.rule = "empty"
       \/ /\ walk.size = TheSize
          /\ \/ walk.rule = "short"
             \/ walk.rule = "total" /\ walk.list \in {"interviews", "portfolios"}

(* A walk meets every row that matched from its beginning to its end,      *)
(* however many rows are inserted meanwhile, unless some row left or       *)
(* changed places.                                                         *)
NoSkip ==
    walk.pc = "done" /\ Trusted /\ ~left => walk.steady \subseteq walk.seen

(* A row comes twice only if rows were inserted or changed places during   *)
(* the walk: no deletion makes a page overlap the one before.              *)
NoRepeat == walk.repeated => entered

(* The rows a client means by a page, with numbers that never overflow. *)
Meant(page, size) ==
    [k \in {k \in 1 .. Len(table) : (page - 1) * size < k /\ k <= page * size} |-> table[k]]

(* Over gRPC one request is answered with the page that was asked for,     *)
(* whatever numbers an int32 can carry: the product does not wrap.         *)
PageExact ==
    [][ /\ walk.list \in OverGRPC /\ walk.scoped /\ walk.rule = "once"
        /\ walk.pc # "done" /\ walk'.pc = "done"
        => walk'.seen = Elements(Meant(PageNumber(walk.page), TheSize)) ]_listVars

=============================================================================
