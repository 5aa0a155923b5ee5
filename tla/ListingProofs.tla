--------------------------- MODULE ListingProofs ---------------------------
(***************************************************************************)
(* What holds of the lists for every number of rows, every limit and every *)
(* width of the integers, and of the search for every analyzer.            *)
(***************************************************************************)
EXTENDS Listing, SearchQuery, FiniteSetTheorems, SequenceTheorems, TLAPS

-----------------------------------------------------------------------------
(* Numbers *)

LEMMA Bounds ==
    /\ Default \in Nat \ {0} /\ Cap \in Nat \ {0} /\ Narrow \in Nat \ {0}
    /\ Half \in Nat \ {0} /\ Window \in Nat \ {0} /\ Counted \in Nat \ {0}
    /\ Default <= Cap /\ Narrow * Cap < Half
    /\ Cardinality(Rows) \in Nat /\ 2 * Cardinality(Rows) < Half
BY ListingAssumption, FS_CardinalityType DEF ListingAssumption

LEMMA CapFits == Cap < Half
<1>1. ASSUME NEW a \in Nat \ {0}, NEW b \in Nat \ {0} PROVE b <= a * b
  BY <1>1
<1>2. Cap <= Narrow * Cap
  BY <1>1, Bounds
<1>3. Narrow * Cap \in Nat
  BY Bounds
<1> QED BY <1>2, <1>3, Bounds

(* What fits an int stays as it is. *)
LEMMA Fits ==
    ASSUME NEW n \in -Half .. Half - 1
    PROVE  Wrap(n) = n
<1>1. \A a \in Nat, m \in Nat : a < m => a % m = a
  OBVIOUS
<1>2. n + Half \in Nat /\ 2 * Half \in Nat /\ n + Half < 2 * Half
  BY Bounds
<1> QED BY <1>1, <1>2, Bounds DEF Wrap

LEMMA Wrapped ==
    ASSUME NEW n \in Int
    PROVE  Wrap(n) \in Int
<1>1. \A a \in Int, m \in Nat \ {0} : a % m \in Int
  OBVIOUS
<1>2. n + Half \in Int /\ 2 * Half \in Nat \ {0}
  BY Bounds
<1> QED BY <1>1, <1>2, Bounds DEF Wrap

LEMMA OneMore ==
    ASSUME NEW p \in Int, NEW s \in Int
    PROVE  /\ p * s \in Int /\ (p - 1) * s \in Int
           /\ p * s = (p - 1) * s + s
OBVIOUS

LEMMA AtLeastOnePage ==
    ASSUME NEW p \in Int, NEW s \in Nat, p >= 2
    PROVE  (p - 1) * s >= s
<1>1. p - 2 \in Nat /\ (p - 2) * s \in Nat
  OBVIOUS
<1>2. (p - 1) * s = (p - 2) * s + s
  OBVIOUS
<1> QED BY <1>1, <1>2, OneMore

LEMMA Products ==
    ASSUME NEW a \in Nat, NEW b \in Nat, NEW c \in Nat, NEW d \in Nat, a <= c, b <= d
    PROVE  a * b \in Nat /\ a * b <= c * d
<1>1. /\ a * b \in Nat /\ c * b \in Nat /\ c * d \in Nat
  OBVIOUS
<1>2. c * b = a * b + (c - a) * b /\ (c - a) * b \in Nat
  OBVIOUS
<1>3. c * d = c * b + c * (d - b) /\ c * (d - b) \in Nat
  OBVIOUS
<1> QED BY <1>1, <1>2, <1>3

-----------------------------------------------------------------------------
(* Pages *)

(* The rows of a page are the rows at its places. *)
LEMMA LimitedRows ==
    ASSUME NEW s \in Seq(Rows), NEW o \in Nat, NEW size \in Nat \ {0}
    PROVE  /\ Limited(s, o, size) \in Seq(Rows)
           /\ Elements(Limited(s, o, size)) = {s[k] : k \in {k \in 1..Len(s) : o < k /\ k <= o + size}}
           /\ Limited(s, o, size) = << >> <=> o >= Len(s)
           /\ Len(Limited(s, o, size)) < size => o + size > Len(s)
           /\ Elements(Limited(s, o, size)) \subseteq Rows
<1> DEFINE end == IF o + size < Len(s) THEN o + size ELSE Len(s)
           page == SubSeq(s, o + 1, end)
<1>1. /\ Len(s) \in Nat /\ DOMAIN s = 1..Len(s) /\ \A k \in 1..Len(s) : s[k] \in Rows
  BY LenProperties, ElementOfSeq
<1>2. /\ end \in Nat /\ end <= Len(s)
      /\ \A k \in Int : k \in o + 1 .. end <=> k \in 1..Len(s) /\ o < k /\ k <= o + size
      /\ o + 1 <= end <=> o < Len(s)
      /\ (IF o + 1 <= end THEN end - o ELSE 0) < size => o + size > Len(s)
  <2> DEFINE n == Len(s)
  <2>1. n \in Nat /\ end = IF o + size < n THEN o + size ELSE n
    BY <1>1
  <2> HIDE DEF n, end
  <2>2. /\ end \in Nat /\ end <= n
        /\ \A k \in Int : k \in o + 1 .. end <=> k \in 1..n /\ o < k /\ k <= o + size
        /\ o + 1 <= end <=> o < n
        /\ (IF o + 1 <= end THEN end - o ELSE 0) < size => o + size > n
    BY <2>1
  <2> QED BY <2>2 DEF n
<1>3. \A k \in o + 1 .. end : s[k] \in Rows
  <2>1. \A k \in o + 1 .. end : k \in 1..Len(s)
    BY <1>2
  <2> QED BY <1>1, <2>1
<1>4. /\ page \in Seq(Rows)
      /\ Len(page) = IF o + 1 <= end THEN end - (o + 1) + 1 ELSE 0
      /\ \A i \in 1 .. end - (o + 1) + 1 : page[i] = s[o + 1 + i - 1]
  <2>1. o + 1 \in Int /\ end \in Int
    BY <1>2
  <2> HIDE DEF end
  <2> QED BY <1>3, <2>1, SubSeqProperties
<1>5. Len(page) = (IF o + 1 <= end THEN end - o ELSE 0) /\ DOMAIN page = 1..Len(page)
  <2>1. DOMAIN page = 1..Len(page)
    BY <1>4, LenProperties
  <2> QED BY <1>2, <1>4, <2>1
<1>6. \A i \in 1..Len(page) : page[i] = s[o + i] /\ o + i \in o + 1 .. end
  BY <1>2, <1>4, <1>5
<1>7. \A k \in o + 1 .. end : k - o \in 1..Len(page) /\ page[k - o] = s[k]
  <2> HIDE DEF page, end
  <2> SUFFICES ASSUME NEW k \in o + 1 .. end
               PROVE  k - o \in 1..Len(page) /\ page[k - o] = s[k]
    OBVIOUS
  <2>1. k - o \in 1..Len(page) /\ o + (k - o) = k
    BY <1>2, <1>5
  <2> QED BY <1>6, <2>1
<1>8. Elements(page) = {s[k] : k \in o + 1 .. end}
  <2> HIDE DEF page, end
  <2>1. Elements(page) \subseteq {s[k] : k \in o + 1 .. end}
    BY <1>5, <1>6 DEF Elements
  <2>2. {s[k] : k \in o + 1 .. end} \subseteq Elements(page)
    BY <1>5, <1>7 DEF Elements
  <2> QED BY <2>1, <2>2
<1>9. o + 1 .. end = {k \in 1..Len(s) : o < k /\ k <= o + size}
  <2> HIDE DEF end
  <2>1. o + 1 .. end \subseteq Int /\ 1..Len(s) \subseteq Int
    OBVIOUS
  <2> QED BY <1>2, <2>1
<1>10. page = << >> <=> Len(page) = 0
  BY <1>4, EmptySeq
<1>11. page = Limited(s, o, size)
  BY DEF Limited
<1> HIDE DEF page, end
<1>12. Elements(page) \subseteq Rows
  BY <1>3, <1>8
<1>13. Elements(page) = {s[k] : k \in {k \in 1..Len(s) : o < k /\ k <= o + size}}
  BY <1>8, <1>9
<1>14. /\ page = << >> <=> o >= Len(s)
       /\ Len(page) < size => o + size > Len(s)
  BY <1>1, <1>2, <1>5, <1>10
<1> QED BY <1>4, <1>11, <1>12, <1>13, <1>14

(* A page cut in memory is the same, as long as the numbers fit an int. *)
LEMMA SliceRows ==
    ASSUME NEW s \in Seq(Rows), NEW o \in Nat, NEW size \in Nat \ {0},
           o < Len(s) => o + size < Half
    PROVE  Slice(s, o, size) = Limited(s, o, size)
<1>1. Len(s) \in Nat
  BY LenProperties
<1>2. CASE o >= Len(s)
  <2>1. SubSeq(s, o + 1, Len(s)) = << >>
    BY <1>1, <1>2, SubSeqEmpty
  <2>2. ~(o + size < Len(s))
    BY <1>1, <1>2
  <2>3. Limited(s, o, size) = << >>
    BY <2>1, <2>2 DEF Limited
  <2> QED BY <1>2, <2>3 DEF Slice
<1>3. CASE o < Len(s)
  <2>1. Wrap(o + size) = o + size
    BY <1>3, Fits, Bounds
  <2> QED BY <1>1, <1>3, <2>1 DEF Slice, Limited
<1> QED BY <1>1, <1>2, <1>3

(* A list without repetitions is no longer than there are rows. *)
LEMMA ShortEnough ==
    ASSUME NEW s \in Seq(Rows), Distinct(s)
    PROVE  Len(s) \in Nat /\ Len(s) <= Cardinality(Rows)
<1>1. Len(s) \in Nat /\ DOMAIN s = 1..Len(s) /\ s \in [1..Len(s) -> Rows]
  BY LenProperties
<1>2. s \in Injection(1..Len(s), Rows)
  <2>1. IsInjective(s)
    BY DEF Distinct, IsInjective
  <2> QED BY <1>1, <2>1 DEF Injection
<1>3. Cardinality(1..Len(s)) <= Cardinality(Rows)
  BY <1>2, FS_Injection, ListingAssumption DEF ListingAssumption
<1>4. Cardinality(1..Len(s)) = Len(s)
  BY <1>1, FS_Interval
<1> QED BY <1>1, <1>3, <1>4

-----------------------------------------------------------------------------
(* Walks *)

(* The pages of a walk begin at numbers that fit an int: one that goes on  *)
(* has either met a row of the page before or is below the total.          *)
WalkInv ==
    /\ walk.size \in -Half .. Half - 1
    /\ walk.rule \in {"short", "total"} => walk.size >= 1
    /\ walk.rule = "once" =>
         /\ walk.page \in -Half .. Half - 1
         /\ walk.list \in OverGRPC => walk.page <= Narrow
    /\ Underway =>
         IF walk.rule = "once" THEN walk.seen = {}
         ELSE walk.page >= 1 /\ (walk.page - 1) * TheSize < Half
    /\ walk.pc = "counted" => walk.total <= Cardinality(Rows) /\ walk.list \in {"http", "grpc"}

LInv == ListTypeOK /\ WalkInv

LEMMA Sizes ==
    ASSUME LInv
    PROVE  /\ TheSize \in Nat \ {0} /\ TheSize < Half
           /\ walk.list \in OverGRPC => TheSize <= Cap
           /\ walk.size >= 1 => TheSize <= walk.size
<1>1. walk.size \in Int /\ walk.size < Half
  BY Bounds DEF LInv, WalkInv
<1> QED BY <1>1, Bounds, CapFits
      DEF TheSize, PageSize, SizeHTTP, SizeGRPC, SizeSearch, OverGRPC

(* Where the page of a walk begins, and the next. *)
LEMMA Begins ==
    ASSUME LInv, Underway
    PROVE  /\ walk.rule # "once" =>
                /\ TheOffset \in Nat
                /\ TheOffset = (walk.page - 1) * TheSize
                /\ walk.page * TheSize = TheOffset + TheSize
                /\ TheOffset < Cardinality(Rows) => TheOffset + TheSize < Half
           /\ walk.rule = "once" /\ walk.list \in OverGRPC =>
                /\ TheOffset \in Nat
                /\ TheOffset = (PageNumber(walk.page) - 1) * TheSize
                /\ PageNumber(walk.page) * TheSize = TheOffset + TheSize
                /\ TheOffset + TheSize < Half
           /\ TheOffset \in Int
<1>1. /\ TheSize \in Nat \ {0} /\ TheSize < Half /\ walk.page \in Int
      /\ walk.list \in OverGRPC => TheSize <= Cap
  BY Sizes DEF LInv, ListTypeOK, Walk
<1> DEFINE size == TheSize
           first == PageNumber(walk.page)
<1> HIDE DEF size
<1>2. /\ first \in Nat \ {0} /\ (walk.page >= 1 => first = walk.page)
      /\ TheOffset = Wrap((first - 1) * size)
      /\ size \in Nat \ {0} /\ size < Half
  BY <1>1 DEF PageNumber, TheOffset, Offset, size
<1> HIDE DEF first
<1>3. (first - 1) * size \in Nat /\ first * size = (first - 1) * size + size
  <2>1. first - 1 \in Nat /\ (first - 1) * size \in Nat
    BY <1>2, Products
  <2> QED BY <1>2, <2>1, OneMore
<1>4. TheOffset \in Int
  BY <1>2, <1>3, Wrapped
<1>5. ASSUME walk.rule # "once"
      PROVE  /\ TheOffset \in Nat
             /\ TheOffset = (walk.page - 1) * size
             /\ walk.page * size = TheOffset + size
             /\ TheOffset < Cardinality(Rows) => TheOffset + size < Half
  <2>1. first = walk.page /\ (first - 1) * size < Half
    BY <1>2, <1>5 DEF LInv, WalkInv, size
  <2>2. TheOffset = (first - 1) * size
    BY <1>2, <1>3, <2>1, Fits, Bounds
  <2>3. first = 1 \/ (first - 1) * size >= size
    BY <1>2, AtLeastOnePage
  <2>4. first = 1 => (first - 1) * size = 0
    BY <1>2
  <2>5. TheOffset < Cardinality(Rows) => TheOffset + size < Half
    BY <1>2, <1>3, <2>2, <2>3, <2>4, Bounds
  <2> QED BY <1>3, <2>1, <2>2, <2>5
<1>6. ASSUME walk.rule = "once", walk.list \in OverGRPC
      PROVE  /\ TheOffset \in Nat
             /\ TheOffset = (first - 1) * size
             /\ first * size = TheOffset + size
             /\ TheOffset + size < Half
  <2>1. first <= Narrow /\ size <= Cap
    <3>1. walk.page <= Narrow
      BY <1>6 DEF LInv, WalkInv
    <3>2. first <= Narrow
      BY <1>1, <3>1, Bounds DEF first, PageNumber
    <3> QED BY <1>1, <1>6, <3>2 DEF size
  <2>2. first * size \in Nat /\ first * size <= Narrow * Cap
    BY <1>2, <2>1, Products, Bounds
  <2>3. Narrow * Cap \in Nat
    BY Bounds
  <2>4. (first - 1) * size + size < Half
    BY <1>2, <1>3, <2>2, <2>3, Bounds
  <2>5. TheOffset = (first - 1) * size
    BY <1>2, <1>3, <2>4, Fits, Bounds
  <2> QED BY <1>2, <1>3, <2>4, <2>5
<1> QED BY <1>4, <1>5, <1>6 DEF size, first

(* What a list answers: the rows of one page, or an error. *)
ServesPage(t) ==
    /\ TheOffset \in Nat
    /\ walk.list \in {"interviews", "portfolios"} => t = Len(table)
    /\ Answer(Limited(table, TheOffset, TheSize), t)

LEMMA Answers ==
    ASSUME LInv, SelectResumes \/ ListInterviews \/ ListPortfolios \/ Search
    PROVE  \/ Refuse
           \/ \E t \in 0..Cardinality(Rows) : ServesPage(t)
<1>1. /\ table \in Seq(Rows) /\ Distinct(table) /\ walk.total \in Nat
      /\ TheSize \in Nat \ {0}
  BY Sizes DEF LInv, ListTypeOK, Walk
<1>2. Len(table) \in 0..Cardinality(Rows)
  BY <1>1, ShortEnough, Bounds
<1>3. CASE SelectResumes
  <2>1. Underway /\ walk.total \in 0..Cardinality(Rows) /\ walk.list \in {"http", "grpc"}
    BY <1>1, <1>3, Bounds DEF SelectResumes, Underway, LInv, WalkInv
  <2>2. TheOffset >= 0 => TheOffset \in Nat
    BY <2>1, Begins
  <2> QED BY <1>3, <2>1, <2>2 DEF SelectResumes, ServesPage
<1>4. CASE ListInterviews \/ ListPortfolios
  <2>1. /\ Underway /\ walk.list \in OverGRPC /\ walk.list \notin {"http", "grpc"}
        /\ Answer(Slice(table, TheOffset, TheSize), Len(table))
    BY <1>4 DEF ListInterviews, ListPortfolios, Underway, OverGRPC
  <2>2. TheOffset \in Nat /\ (TheOffset < Len(table) => TheOffset + TheSize < Half)
    BY <1>2, <2>1, Begins, Bounds
  <2>3. Slice(table, TheOffset, TheSize) = Limited(table, TheOffset, TheSize)
    BY <1>1, <2>2, SliceRows
  <2> QED BY <1>2, <2>1, <2>2, <2>3 DEF ServesPage
<1>5. CASE Search
  <2>1. Underway /\ walk.list = "search"
    BY <1>5 DEF Search, Underway
  <2>2. TheOffset >= 0 => TheOffset \in Nat
    BY <2>1, Begins
  <2>3. CountedHits \in 0..Cardinality(Rows)
    BY <1>2, Bounds DEF CountedHits
  <2> QED BY <1>5, <2>1, <2>2, <2>3 DEF Search, ServesPage
<1> QED BY <1>3, <1>4, <1>5

-----------------------------------------------------------------------------
(* Writers *)

LEMMA Entering ==
    ASSUME LInv, Enter
    PROVE  \E i \in 1 .. Len(table) + 1 :
             /\ Len(table) \in Nat /\ DOMAIN table = 1..Len(table)
             /\ table' \in Seq(Rows) /\ Len(table') = Len(table) + 1
             /\ DOMAIN table' = 1..Len(table) + 1
             /\ table'[i] \in Rows /\ \A k \in DOMAIN table : table[k] # table'[i]
             /\ \A k \in 1..Len(table) : IF k < i THEN table'[k] = table[k]
                                         ELSE table'[k + 1] = table[k]
             /\ \A k \in 1..Len(table) + 1 :
                   table'[k] = IF k < i THEN table[k] ELSE IF k = i THEN table'[i] ELSE table[k - 1]
<1>1. /\ Len(table) \in Nat /\ DOMAIN table = 1..Len(table)
      /\ \A k \in 1..Len(table) : table[k] \in Rows
  BY LenProperties, ElementOfSeq DEF LInv, ListTypeOK
<1>2. PICK r \in NewRow, i \in 1 .. Len(table) + 1 :
         table' = [k \in 1 .. Len(table) + 1 |->
                      IF k < i THEN table[k] ELSE IF k = i THEN r ELSE table[k - 1]]
  BY DEF Enter
<1> DEFINE n == Len(table)
<1> HIDE DEF n
<1>3. /\ n \in Nat /\ i \in 1 .. n + 1 /\ DOMAIN table = 1..n
      /\ \A k \in 1..n : table[k] \in Rows
      /\ table' = [k \in 1 .. n + 1 |->
                      IF k < i THEN table[k] ELSE IF k = i THEN r ELSE table[k - 1]]
  BY <1>1, <1>2 DEF n
<1>4. r \in Rows /\ \A k \in DOMAIN table : table[k] # r
  BY DEF NewRow, Elements
<1>5. \A k \in 1..n + 1 : (IF k < i THEN table[k] ELSE IF k = i THEN r ELSE table[k - 1]) \in Rows
  <2> SUFFICES ASSUME NEW k \in 1..n + 1
               PROVE  (IF k < i THEN table[k] ELSE IF k = i THEN r ELSE table[k - 1]) \in Rows
    OBVIOUS
  <2>1. k < i => k \in 1..n
    BY <1>3
  <2>2. ~(k < i) /\ k # i => k - 1 \in 1..n
    BY <1>3
  <2> QED BY <1>3, <1>4, <2>1, <2>2
<1>6. table' \in [1..n + 1 -> Rows] /\ n + 1 \in Nat
  BY <1>3, <1>5
<1>7. table' \in Seq(Rows) /\ Len(table') = n + 1 /\ DOMAIN table' = 1..n + 1
  BY <1>6
<1>8. /\ i \in 1..n + 1 /\ table'[i] = r
      /\ \A k \in 1..n + 1 : table'[k] = IF k < i THEN table[k] ELSE IF k = i THEN r ELSE table[k - 1]
  BY <1>3
<1>9. \A k \in 1..n : IF k < i THEN table'[k] = table[k] ELSE table'[k + 1] = table[k]
  <2> SUFFICES ASSUME NEW k \in 1..n
               PROVE  IF k < i THEN table'[k] = table[k] ELSE table'[k + 1] = table[k]
    OBVIOUS
  <2>1. k \in 1..n + 1 /\ k + 1 \in 1..n + 1 /\ (k + 1) - 1 = k
    BY <1>3
  <2>2. ~(k < i) => ~(k + 1 < i) /\ k + 1 # i
    BY <1>3
  <2> QED BY <1>8, <2>1, <2>2
<1> QED BY <1>3, <1>4, <1>7, <1>8, <1>9 DEF n

LEMMA Leaving ==
    ASSUME LInv, Leave
    PROVE  \E i \in 1 .. Len(table) :
             /\ Len(table) \in Nat /\ DOMAIN table = 1..Len(table)
             /\ table' \in Seq(Rows) /\ Len(table') = Len(table) - 1
             /\ DOMAIN table' = 1..Len(table) - 1
             /\ walk' = [walk EXCEPT !.steady = @ \ {table[i]}]
             /\ \A k \in 1..Len(table) - 1 :
                   table'[k] = IF k < i THEN table[k] ELSE table[k + 1]
             /\ \A k \in 1..Len(table) : k # i =>
                   IF k < i THEN table'[k] = table[k] ELSE table'[k - 1] = table[k]
<1>1. /\ Len(table) \in Nat /\ DOMAIN table = 1..Len(table)
      /\ \A k \in 1..Len(table) : table[k] \in Rows
  BY LenProperties, ElementOfSeq DEF LInv, ListTypeOK
<1>2. PICK i \in DOMAIN table :
         /\ table' = [k \in 1 .. Len(table) - 1 |-> IF k < i THEN table[k] ELSE table[k + 1]]
         /\ walk' = [walk EXCEPT !.steady = @ \ {table[i]}]
  BY DEF Leave
<1> DEFINE n == Len(table)
<1> HIDE DEF n
<1>3. /\ n \in Nat /\ i \in 1..n /\ DOMAIN table = 1..n
      /\ \A k \in 1..n : table[k] \in Rows
      /\ table' = [k \in 1 .. n - 1 |-> IF k < i THEN table[k] ELSE table[k + 1]]
  BY <1>1, <1>2 DEF n
<1>4. \A k \in 1..n - 1 : k \in 1..n /\ k + 1 \in 1..n
  BY <1>3
<1>5. table' \in [1..n - 1 -> Rows] /\ n - 1 \in Nat
  BY <1>3, <1>4
<1>6. table' \in Seq(Rows) /\ Len(table') = n - 1 /\ DOMAIN table' = 1..n - 1
  BY <1>5
<1>7. \A k \in 1..n : k # i => IF k < i THEN table'[k] = table[k] ELSE table'[k - 1] = table[k]
  <2> SUFFICES ASSUME NEW k \in 1..n, k # i
               PROVE  IF k < i THEN table'[k] = table[k] ELSE table'[k - 1] = table[k]
    OBVIOUS
  <2>1. /\ k < i => k \in 1..n - 1
        /\ ~(k < i) => k - 1 \in 1..n - 1 /\ ~(k - 1 < i) /\ (k - 1) + 1 = k
    BY <1>3
  <2> QED BY <1>3, <2>1
<1> QED BY <1>2, <1>3, <1>6, <1>7 DEF n

-----------------------------------------------------------------------------
(* Types *)

(* What an answer changes. *)
LEMMA Answered ==
    ASSUME LInv, NEW rows, NEW total, Answer(rows, total), Elements(rows) \subseteq Rows
    PROVE  /\ walk' \in Walk
           /\ walk'.list = walk.list /\ walk'.rule = walk.rule /\ walk'.scoped = walk.scoped
           /\ walk'.size = walk.size /\ walk'.steady = walk.steady
           /\ walk'.seen = walk.seen \cup Elements(rows)
           /\ walk'.repeated = (walk.repeated \/ Elements(rows) \cap walk.seen # {})
           /\ Stops(rows, total) => walk'.pc = "done" /\ walk'.page = walk.page
           /\ ~Stops(rows, total) => walk'.pc = "asked" /\ walk'.page = walk.page + 1
           /\ TheSize' = TheSize
           /\ table' = table /\ entered' = entered /\ left' = left
<1>1. walk \in Walk
  BY DEF LInv, ListTypeOK
<1>2. walk' = [walk EXCEPT
                 !.total = 0,
                 !.repeated = @ \/ Elements(rows) \cap walk.seen # {},
                 !.seen = @ \cup Elements(rows),
                 !.pc = IF Stops(rows, total) THEN "done" ELSE "asked",
                 !.page = IF Stops(rows, total) THEN @ ELSE @ + 1]
      /\ table' = table /\ entered' = entered /\ left' = left
  BY DEF Answer, Writers
<1>3. /\ walk'.list = walk.list /\ walk'.rule = walk.rule /\ walk'.scoped = walk.scoped
      /\ walk'.size = walk.size /\ walk'.steady = walk.steady /\ walk'.total = 0
      /\ walk'.seen = walk.seen \cup Elements(rows)
      /\ walk'.repeated = (walk.repeated \/ Elements(rows) \cap walk.seen # {})
      /\ walk'.pc = IF Stops(rows, total) THEN "done" ELSE "asked"
      /\ walk'.page = IF Stops(rows, total) THEN walk.page ELSE walk.page + 1
  BY <1>1, <1>2 DEF Walk
<1>4. walk' \in Walk
  <2> DEFINE page == IF Stops(rows, total) THEN walk.page ELSE walk.page + 1
             pc == IF Stops(rows, total) THEN "done" ELSE "asked"
             again == walk.repeated \/ Elements(rows) \cap walk.seen # {}
             seen == walk.seen \cup Elements(rows)
  <2>1. /\ page \in Int /\ pc \in {"asked", "counted", "done", "refused"}
        /\ again \in BOOLEAN /\ seen \subseteq Rows /\ 0 \in Nat
    BY <1>1 DEF Walk
  <2>2. walk' = [walk EXCEPT !.total = 0, !.repeated = again, !.seen = seen, !.pc = pc, !.page = page]
    BY <1>2
  <2> HIDE DEF page, pc, again, seen
  <2> QED BY <1>1, <2>1, <2>2 DEF Walk
<1>5. TheSize' = TheSize
  BY <1>3 DEF TheSize
<1> QED BY <1>2, <1>3, <1>4, <1>5

(* A walk that goes on has met a row, or is below the total. *)
LEMMA GoesOn ==
    ASSUME LInv, NEW rows, NEW total, ~Stops(rows, total)
    PROVE  /\ walk.rule # "once"
           /\ walk.rule = "empty" => rows # << >>
           /\ walk.rule = "short" => ~(Len(rows) < walk.size)
           /\ walk.rule = "total" => ~(walk.page * walk.size >= total)
BY DEF LInv, ListTypeOK, Walk, Rules, Stops

LEMMA Ends ==
    ASSUME LInv, NEW rows, NEW total, Stops(rows, total)
    PROVE  /\ walk.rule = "empty" => rows = << >>
           /\ walk.rule = "short" => Len(rows) < walk.size
           /\ walk.rule = "total" => walk.page * walk.size >= total
BY DEF LInv, ListTypeOK, Walk, Rules, Stops

LEMMA PageKeeps ==
    ASSUME LInv, Underway, NEW t \in 0..Cardinality(Rows), ServesPage(t)
    PROVE  LInv'
<1> DEFINE rows == Limited(table, TheOffset, TheSize)
<1>1. /\ table \in Seq(Rows) /\ Distinct(table) /\ TheSize \in Nat \ {0} /\ TheSize < Half
      /\ walk.page \in Int /\ walk.size \in Int /\ TheOffset \in Nat /\ Answer(rows, t)
      /\ walk.size >= 1 => TheSize <= walk.size
  BY Sizes DEF LInv, ListTypeOK, Walk, ServesPage
<1>2. Elements(rows) \subseteq Rows /\ (rows = << >> <=> TheOffset >= Len(table))
  BY <1>1, LimitedRows
<1> HIDE DEF rows
<1>3. Len(table) \in Nat /\ Len(table) <= Cardinality(Rows) /\ Len(<< >>) = 0
  BY <1>1, ShortEnough, EmptySeq
<1>4. ListTypeOK'
  BY <1>1, <1>2, Answered DEF LInv, ListTypeOK, Distinct, Elements
<1>5. ASSUME walk.rule # "once", ~Stops(rows, t)
      PROVE  walk.page >= 1 /\ walk.page * TheSize < Half
  <2>1. /\ walk.page >= 1 /\ walk.page * TheSize = TheOffset + TheSize
        /\ TheOffset < Cardinality(Rows) => TheOffset + TheSize < Half
    BY <1>5, Begins DEF LInv, WalkInv
  <2>2. CASE walk.rule \in {"empty", "short"}
    <3>1. rows # << >>
      BY <1>3, <1>5, <2>2, GoesOn DEF LInv, WalkInv
    <3> QED BY <1>1, <1>2, <1>3, <2>1, <3>1, Bounds
  <2>3. CASE walk.rule = "total"
    <3>1. walk.size >= 1 /\ ~(walk.page * walk.size >= t)
      BY <1>5, <2>3, GoesOn DEF LInv, WalkInv
    <3>2. walk.page * TheSize <= walk.page * walk.size /\ walk.page * walk.size \in Nat
      BY <1>1, <2>1, <3>1, Products
    <3> QED BY <1>1, <2>1, <3>1, <3>2, Bounds
  <2> QED BY <1>5, <2>2, <2>3 DEF LInv, ListTypeOK, Walk, Rules
<1>6. WalkInv'
  <2>1. /\ walk'.size \in -Half .. Half - 1
        /\ walk'.rule \in {"short", "total"} => walk'.size >= 1
        /\ walk'.pc # "counted"
    BY <1>1, <1>2, Answered DEF LInv, WalkInv
  <2>2. CASE walk.rule = "once"
    <3>1. Stops(rows, t)
      BY <2>2, GoesOn
    <3> QED BY <1>1, <1>2, <2>1, <2>2, <3>1, Answered DEF LInv, WalkInv, Underway
  <2>3. CASE walk.rule # "once"
    <3>1. CASE Stops(rows, t)
      BY <1>1, <1>2, <2>1, <2>3, <3>1, Answered DEF WalkInv, Underway
    <3>2. CASE ~Stops(rows, t)
      <4>1. walk'.page = walk.page + 1 /\ TheSize' = TheSize /\ walk'.rule # "once"
        BY <1>1, <1>2, <2>3, <3>2, Answered
      <4>2. walk'.page >= 1 /\ (walk'.page - 1) * TheSize' < Half
        BY <1>1, <1>5, <2>3, <3>2, <4>1
      <4> QED BY <2>1, <4>1, <4>2 DEF WalkInv
    <3> QED BY <3>1, <3>2
  <2> QED BY <2>2, <2>3
<1> QED BY <1>4, <1>6 DEF LInv

LEMMA UnscopedEnds ==
    ASSUME LInv, Unscoped
    PROVE  /\ Answer(<< >>, 0) /\ Stops(<< >>, 0) /\ Elements(<< >>) = {}
           /\ walk'.pc = "done" /\ LInv'
<1>1. Elements(<< >>) = {} /\ Len(<< >>) = 0
  BY EmptySeq DEF Elements
<1>2. Underway /\ Answer(<< >>, 0)
  BY DEF Unscoped, Underway
<1>3. Stops(<< >>, 0)
  <2>1. ASSUME ~Stops(<< >>, 0) PROVE FALSE
    <3>1. walk.rule = "total"
      BY <1>1, <2>1, GoesOn DEF LInv, ListTypeOK, Walk, Rules, WalkInv
    <3>2. walk.page \in Int /\ walk.page >= 1 /\ walk.size \in Int /\ walk.size >= 1
      BY <1>2, <3>1 DEF LInv, ListTypeOK, Walk, WalkInv
    <3>3. walk.page * walk.size \in Nat
      BY <3>2, Products
    <3> QED BY <2>1, <3>1, <3>3, GoesOn
  <2> QED BY <2>1
<1>4. /\ walk' \in Walk
      /\ walk'.list = walk.list /\ walk'.rule = walk.rule /\ walk'.scoped = walk.scoped
      /\ walk'.size = walk.size /\ walk'.steady = walk.steady
      /\ walk'.pc = "done" /\ walk'.page = walk.page
      /\ table' = table /\ entered' = entered /\ left' = left
  BY <1>1, <1>2, <1>3, Answered
<1>5. ListTypeOK'
  BY <1>4 DEF LInv, ListTypeOK, Distinct, Elements
<1>6. WalkInv'
  BY <1>4 DEF LInv, WalkInv, Underway
<1> QED BY <1>1, <1>2, <1>3, <1>4, <1>5, <1>6 DEF LInv

(* Every step is of one of these kinds, and none is taken after the walk. *)
LEMMA Kinds ==
    ASSUME LInv, ListNext
    PROVE  /\ Underway
           /\ \/ Enter \/ Leave \/ Rearrange \/ CountResumes \/ SelectFails \/ Unscoped \/ Refuse
              \/ \E t \in 0..Cardinality(Rows) : ServesPage(t)
<1>1. Underway
  BY DEF ListNext, Underway, Enter, Leave, Rearrange, CountResumes, SelectResumes, SelectFails,
         Unscoped, ListInterviews, ListPortfolios, Search
<1> QED BY <1>1, Answers DEF ListNext

LEMMA EnterKeeps ==
    ASSUME LInv, Enter
    PROVE  LInv'
<1> DEFINE n == Len(table)
<1>1. PICK i \in 1 .. n + 1 :
        /\ n \in Nat /\ DOMAIN table = 1..n
        /\ table' \in Seq(Rows) /\ DOMAIN table' = 1..n + 1
        /\ \A k \in DOMAIN table : table[k] # table'[i]
        /\ \A k \in 1..n : IF k < i THEN table'[k] = table[k] ELSE table'[k + 1] = table[k]
        /\ \A k \in 1..n + 1 :
             table'[k] = IF k < i THEN table[k] ELSE IF k = i THEN table'[i] ELSE table[k - 1]
  BY Entering
<1> HIDE DEF n
<1>2. walk' = walk /\ left' = left /\ entered' = TRUE
  BY DEF Enter
<1>3. Distinct(table')
  <2> SUFFICES ASSUME NEW a \in 1..n + 1, NEW b \in 1..n + 1, table'[a] = table'[b]
               PROVE  a = b
    BY <1>1 DEF Distinct
  <2> DEFINE Old(k) == IF k < i THEN k ELSE k - 1
  <2>1. \A k \in 1..n + 1 : k # i => Old(k) \in 1..n /\ table'[k] = table[Old(k)]
    BY <1>1
  <2>2. \A k \in 1..n + 1 : k # i => table'[k] # table'[i]
    BY <1>1, <2>1
  <2>3. \A j, k \in 1..n : table[j] = table[k] => j = k
    BY <1>1 DEF LInv, ListTypeOK, Distinct
  <2> HIDE DEF Old
  <2>4. a # i /\ b # i => Old(a) = Old(b)
    BY <2>1, <2>3
  <2>5. a = i <=> b = i
    BY <2>2
  <2>6. Old(a) = Old(b) /\ a # i /\ b # i => a = b
    BY <1>1 DEF Old
  <2> QED BY <2>4, <2>5, <2>6
<1>4. Elements(table) \subseteq Elements(table')
  <2>1. \A k \in 1..n : \E j \in 1..n + 1 : table'[j] = table[k]
    <3> SUFFICES ASSUME NEW k \in 1..n PROVE \E j \in 1..n + 1 : table'[j] = table[k]
      OBVIOUS
    <3>1. k \in 1..n + 1 /\ k + 1 \in 1..n + 1
      BY <1>1
    <3> QED BY <1>1, <3>1
  <2>2. ASSUME NEW r \in Elements(table) PROVE r \in Elements(table')
    <3>1. PICK k \in 1..n : table[k] = r
      BY <1>1, <2>2 DEF Elements
    <3>2. PICK j \in 1..n + 1 : table'[j] = r
      BY <2>1, <3>1
    <3> QED BY <1>1, <3>2 DEF Elements
  <2> QED BY <2>2
<1>5. ListTypeOK'
  BY <1>1, <1>2, <1>3, <1>4 DEF LInv, ListTypeOK, Distinct, Elements
<1>6. WalkInv'
  BY <1>2 DEF LInv, WalkInv, Underway, TheSize
<1> QED BY <1>5, <1>6 DEF LInv

LEMMA LeaveKeeps ==
    ASSUME LInv, Leave
    PROVE  /\ LInv' /\ TheSize' = TheSize
           /\ walk' = [walk EXCEPT !.steady = walk'.steady]
<1> DEFINE n == Len(table)
<1>1. PICK i \in 1 .. n :
        /\ n \in Nat /\ DOMAIN table = 1..n
        /\ table' \in Seq(Rows) /\ DOMAIN table' = 1..n - 1
        /\ walk' = [walk EXCEPT !.steady = @ \ {table[i]}]
        /\ \A k \in 1..n - 1 : table'[k] = IF k < i THEN table[k] ELSE table[k + 1]
        /\ \A k \in 1..n : k # i =>
             IF k < i THEN table'[k] = table[k] ELSE table'[k - 1] = table[k]
  BY Leaving
<1> HIDE DEF n
<1>2. walk \in Walk /\ left' = TRUE /\ entered' = entered
  BY DEF LInv, ListTypeOK, Leave
<1>3. /\ walk' \in Walk /\ walk'.steady = walk.steady \ {table[i]}
      /\ walk'.pc = walk.pc /\ walk'.list = walk.list /\ walk'.rule = walk.rule
      /\ walk'.size = walk.size /\ walk'.page = walk.page /\ walk'.seen = walk.seen
      /\ walk'.total = walk.total
      /\ walk' = [walk EXCEPT !.steady = walk'.steady]
  <2> DEFINE steady == walk.steady \ {table[i]}
  <2>1. steady \subseteq Rows /\ walk' = [walk EXCEPT !.steady = steady]
    BY <1>1, <1>2 DEF Walk
  <2> HIDE DEF steady
  <2>2. /\ walk' \in Walk /\ walk'.steady = steady
        /\ walk'.pc = walk.pc /\ walk'.list = walk.list /\ walk'.rule = walk.rule
        /\ walk'.size = walk.size /\ walk'.page = walk.page /\ walk'.seen = walk.seen
        /\ walk'.total = walk.total
    BY <1>2, <2>1 DEF Walk
  <2> QED BY <2>1, <2>2 DEF steady
<1>4. Distinct(table')
  <2> SUFFICES ASSUME NEW a \in 1..n - 1, NEW b \in 1..n - 1, table'[a] = table'[b]
               PROVE  a = b
    BY <1>1 DEF Distinct
  <2> DEFINE Old(k) == IF k < i THEN k ELSE k + 1
  <2>1. \A k \in 1..n - 1 : Old(k) \in 1..n /\ table'[k] = table[Old(k)]
    BY <1>1
  <2>2. Old(a) = Old(b)
    BY <1>1, <2>1 DEF LInv, ListTypeOK, Distinct
  <2> QED BY <1>1, <2>2
<1>5. walk'.steady \subseteq Elements(table')
  <2> SUFFICES ASSUME NEW r \in walk'.steady
               PROVE  \E j \in 1..n - 1 : table'[j] = r
    BY <1>1 DEF Elements
  <2>1. PICK k \in 1..n : table[k] = r
    BY <1>1, <1>3 DEF LInv, ListTypeOK, Elements
  <2>2. k # i
    BY <1>3, <2>1
  <2>3. /\ k < i => k \in 1..n - 1
        /\ ~(k < i) => k - 1 \in 1..n - 1
    BY <1>1, <2>2
  <2> QED BY <1>1, <2>1, <2>2, <2>3
<1>6. ListTypeOK'
  BY <1>1, <1>2, <1>3, <1>4, <1>5 DEF LInv, ListTypeOK, Distinct, Elements
<1>7. WalkInv' /\ TheSize' = TheSize
  BY <1>3 DEF LInv, WalkInv, Underway, TheSize
<1> QED BY <1>3, <1>6, <1>7 DEF LInv

LEMMA RearrangeKeeps ==
    ASSUME LInv, Rearrange
    PROVE  LInv' /\ walk' = walk /\ entered' = TRUE /\ left' = TRUE
<1>1. /\ table' \in Tables /\ Elements(table') = Elements(table)
      /\ walk' = walk /\ entered' = TRUE /\ left' = TRUE
  BY DEF Rearrange
<1>2. table' \in Seq(Rows) /\ Distinct(table')
  <2>1. PICK n \in 0..Cardinality(Rows) : table' \in [1..n -> Rows]
    BY <1>1 DEF Tables
  <2> QED BY <1>1, <2>1, Bounds DEF Tables
<1>3. ListTypeOK'
  <2>1. Distinct(table)' /\ Elements(table)' = Elements(table')
    BY <1>2 DEF Distinct, Elements
  <2> QED BY <1>1, <1>2, <2>1 DEF LInv, ListTypeOK
<1>4. WalkInv'
  BY <1>1 DEF LInv, WalkInv, Underway, TheSize
<1> QED BY <1>1, <1>3, <1>4 DEF LInv

(* Only the place of the walk in its request changes. *)
LEMMA CountKeeps ==
    ASSUME LInv, CountResumes \/ SelectFails \/ (Refuse /\ Underway)
    PROVE  /\ LInv' /\ TheSize' = TheSize
           /\ table' = table /\ entered' = entered /\ left' = left
           /\ walk'.pc # "done"
           /\ walk'.rule = walk.rule /\ walk'.page = walk.page /\ walk'.seen = walk.seen
           /\ walk'.repeated = walk.repeated /\ walk'.steady = walk.steady
<1>1. /\ walk \in Walk /\ Len(table) \in Nat /\ Len(table) <= Cardinality(Rows) /\ Underway
  BY ShortEnough DEF LInv, ListTypeOK, CountResumes, SelectFails, Underway
<1>2. PICK pc \in {"asked", "counted", "refused"}, total \in Nat :
         /\ walk' = [walk EXCEPT !.pc = pc, !.total = total]
         /\ pc = "counted" => total <= Cardinality(Rows) /\ walk.list \in {"http", "grpc"}
  <2>1. CASE CountResumes
    BY <1>1, <2>1 DEF CountResumes
  <2>2. CASE SelectFails
    <3>1. walk' = [walk EXCEPT !.pc = "asked", !.total = walk.total] /\ walk.total \in Nat
      BY <1>1, <2>2 DEF SelectFails, Walk
    <3> QED BY <3>1
  <2>3. CASE Refuse
    <3>1. walk' = [walk EXCEPT !.pc = "refused", !.total = walk.total] /\ walk.total \in Nat
      BY <1>1, <2>3 DEF Refuse, Walk
    <3> QED BY <3>1
  <2> QED BY <2>1, <2>2, <2>3
<1>3. /\ walk' \in Walk /\ walk'.steady = walk.steady /\ walk'.repeated = walk.repeated
      /\ walk'.pc = pc /\ walk'.list = walk.list /\ walk'.rule = walk.rule
      /\ walk'.size = walk.size /\ walk'.page = walk.page /\ walk'.seen = walk.seen
      /\ walk'.total = total
  BY <1>1, <1>2 DEF Walk
<1>4. table' = table /\ entered' = entered /\ left' = left
  BY DEF CountResumes, SelectFails, Refuse, Writers
<1>5. ListTypeOK'
  BY <1>3, <1>4 DEF LInv, ListTypeOK, Distinct, Elements
<1>6. TheSize' = TheSize
  BY <1>3 DEF TheSize
<1>7. WalkInv'
  BY <1>1, <1>2, <1>3, <1>6 DEF LInv, WalkInv, Underway
<1> QED BY <1>3, <1>4, <1>5, <1>6, <1>7 DEF LInv

LEMMA LInvInit == ListInit => LInv
<1> SUFFICES ASSUME ListInit PROVE LInv
  OBVIOUS
<1>1. table \in Seq(Rows) /\ Distinct(table)
  <2>1. PICK n \in 0..Cardinality(Rows) : table \in [1..n -> Rows]
    BY DEF ListInit, Tables
  <2> QED BY <2>1, Bounds DEF ListInit, Tables
<1>2. Elements(table) \subseteq Rows
  BY <1>1, ElementOfSeq, LenProperties DEF Elements
<1>3. PICK list \in Lists, rule \in Rules, scoped \in BOOLEAN,
           page \in PageArgs, size \in SizeArgs :
         /\ list \in OverGRPC => page <= Narrow /\ size <= Narrow
         /\ rule # "once" => page = 1
         /\ rule \in {"short", "total"} => size >= 1
         /\ ~scoped => list \in {"interviews", "portfolios"}
         /\ walk = [pc |-> "asked", list |-> list, rule |-> rule, scoped |-> scoped,
                    page |-> page, size |-> size, total |-> 0, seen |-> {},
                    repeated |-> FALSE, steady |-> Elements(table)]
  BY DEF ListInit
<1>4. page \in -Half .. Half - 1 /\ size \in -Half .. Half - 1 /\ page \in Int /\ size \in Int
  <2>1. PageArgs \subseteq -Half .. Half - 1 /\ SizeArgs \subseteq -Half .. Half - 1
    BY ListingAssumption DEF ListingAssumption
  <2>2. \A n \in -Half .. Half - 1 : n \in Int
    OBVIOUS
  <2>3. page \in -Half .. Half - 1 /\ size \in -Half .. Half - 1
    BY <2>1
  <2> QED BY <2>2, <2>3
<1>5. walk \in Walk
  BY <1>2, <1>3, <1>4 DEF Walk
<1>6. ListTypeOK
  BY <1>1, <1>3, <1>5 DEF ListInit, ListTypeOK
<1>7. TheSize \in Int
  BY <1>3, <1>4, Bounds DEF TheSize, PageSize, SizeHTTP, SizeGRPC, SizeSearch
<1>8. walk.page = 1 => walk.page >= 1 /\ (walk.page - 1) * TheSize < Half
  BY <1>7, Bounds
<1>9. WalkInv
  BY <1>3, <1>4, <1>8 DEF WalkInv, Underway
<1> QED BY <1>6, <1>9 DEF LInv

LEMMA LInvNext == LInv /\ [ListNext]_listVars => LInv'
<1> SUFFICES ASSUME LInv, [ListNext]_listVars PROVE LInv'
  OBVIOUS
<1>1. CASE UNCHANGED listVars
  BY <1>1 DEF listVars, LInv, ListTypeOK, WalkInv, Underway, TheSize, Distinct, Elements
<1>2. CASE ListNext
  <2>1. Underway
    BY <1>2, Kinds
  <2> QED BY <1>2, <2>1, Kinds, EnterKeeps, LeaveKeeps, RearrangeKeeps, CountKeeps, UnscopedEnds,
         PageKeeps
<1> QED BY <1>1, <1>2

(* Whatever is inserted, deleted and asked for, every variable keeps its   *)
(* type, no row is in the list twice and a steady row is in it.            *)
THEOREM ListTypes == ListSpec => []ListTypeOK
<1>1. LInv => ListTypeOK
  BY DEF LInv
<1> QED BY <1>1, LInvInit, LInvNext, PTL DEF ListSpec

-----------------------------------------------------------------------------
(* What a walk meets *)

(* As long as no row left, the steady rows not met yet lie ahead. *)
Covered ==
    ~left /\ walk.rule # "once" /\ Underway =>
        \A k \in DOMAIN table : table[k] \in walk.steady =>
            table[k] \in walk.seen \/ k > (walk.page - 1) * TheSize

(* As long as no row was inserted, the rows met already lie behind. *)
Fresh ==
    ~entered /\ walk.rule # "once" /\ Underway =>
        \A k \in DOMAIN table : table[k] \in walk.seen => k <= (walk.page - 1) * TheSize

(* What one page adds. *)
LEMMA PageRows ==
    ASSUME LInv, Underway, NEW t \in 0..Cardinality(Rows), ServesPage(t)
    PROVE  LET rows == Limited(table, TheOffset, TheSize)
           IN  /\ DOMAIN table = 1..Len(table) /\ Len(table) \in Nat
               /\ TheOffset \in Nat /\ TheSize \in Nat \ {0}
               /\ Answer(rows, t)
               /\ Elements(rows) \subseteq Rows
               /\ \A k \in DOMAIN table :
                    TheOffset < k /\ k <= TheOffset + TheSize => table[k] \in Elements(rows)
               /\ \A r \in Elements(rows) : \E k \in DOMAIN table :
                    table[k] = r /\ TheOffset < k /\ k <= TheOffset + TheSize
               /\ rows = << >> => Len(table) <= TheOffset
               /\ Len(rows) < TheSize => Len(table) < TheOffset + TheSize
<1>1. /\ table \in Seq(Rows) /\ TheSize \in Nat \ {0} /\ TheOffset \in Nat
      /\ Answer(Limited(table, TheOffset, TheSize), t)
      /\ DOMAIN table = 1..Len(table) /\ Len(table) \in Nat
  BY Sizes, LenProperties DEF LInv, ListTypeOK, ServesPage
<1> DEFINE rows == Limited(table, TheOffset, TheSize)
           here == {k \in 1..Len(table) : TheOffset < k /\ k <= TheOffset + TheSize}
<1>2. /\ Elements(rows) = {table[k] : k \in here}
      /\ rows = << >> <=> TheOffset >= Len(table)
      /\ Len(rows) < TheSize => TheOffset + TheSize > Len(table)
      /\ Elements(rows) \subseteq Rows
  BY <1>1, LimitedRows
<1> HIDE DEF rows
<1>3. rows = << >> => Len(table) <= TheOffset
  BY <1>1, <1>2
<1>4. Len(rows) < TheSize => Len(table) < TheOffset + TheSize
  BY <1>1, <1>2
<1>5. \A k \in DOMAIN table : k \in here <=> TheOffset < k /\ k <= TheOffset + TheSize
  BY <1>1
<1>6. here \subseteq DOMAIN table
  BY <1>1
<1> HIDE DEF here
<1>7. \A k \in DOMAIN table : k \in here => table[k] \in Elements(rows)
  BY <1>2
<1>8. \A r \in Elements(rows) : \E k \in here : table[k] = r
  BY <1>2
<1> QED BY <1>1, <1>2, <1>3, <1>4, <1>5, <1>6, <1>7, <1>8 DEF rows

(* After a page, the steady rows not met lie behind its end, and those met *)
(* before it.                                                              *)
LEMMA PageCovers ==
    ASSUME LInv, Covered, Underway, walk.rule # "once", ~left,
           NEW t \in 0..Cardinality(Rows), ServesPage(t)
    PROVE  \A k \in DOMAIN table : table[k] \in walk.steady =>
              table[k] \in walk'.seen \/ k > TheOffset + TheSize
<1> DEFINE rows == Limited(table, TheOffset, TheSize)
<1>1. /\ DOMAIN table = 1..Len(table) /\ TheOffset \in Nat /\ TheSize \in Nat
      /\ Answer(rows, t) /\ Elements(rows) \subseteq Rows
      /\ \A k \in DOMAIN table :
           TheOffset < k /\ k <= TheOffset + TheSize => table[k] \in Elements(rows)
  BY PageRows
<1>2. TheOffset = (walk.page - 1) * TheSize
  BY Begins
<1> HIDE DEF rows
<1>3. walk'.seen = walk.seen \cup Elements(rows)
  BY <1>1, Answered
<1> SUFFICES ASSUME NEW k \in DOMAIN table, table[k] \in walk.steady, k <= TheOffset + TheSize
             PROVE  table[k] \in walk'.seen
  <2>1. \A k \in DOMAIN table : k \in Int
    BY <1>1
  <2> QED BY <1>1, <2>1
<1>4. table[k] \in walk.seen \/ k > TheOffset
  BY <1>2 DEF Covered
<1> QED BY <1>1, <1>3, <1>4

LEMMA CoveredNext ==
    ASSUME LInv, Covered, ListNext
    PROVE  Covered'
<1> SUFFICES ASSUME ~left', walk'.rule # "once", Underway'
             PROVE  \A k \in DOMAIN table' : table'[k] \in walk'.steady =>
                       table'[k] \in walk'.seen \/ k > (walk'.page - 1) * TheSize'
  BY DEF Covered
<1>1. CASE Enter
  <2>1. walk' = walk /\ left' = left /\ TheSize' = TheSize
    BY <1>1 DEF Enter, TheSize
  <2>2. PICK i \in 1 .. Len(table) + 1 :
          /\ Len(table) \in Nat /\ DOMAIN table = 1..Len(table)
          /\ DOMAIN table' = 1..Len(table) + 1
          /\ \A k \in DOMAIN table : table[k] # table'[i]
          /\ \A k \in 1..Len(table) + 1 :
             table'[k] = IF k < i THEN table[k] ELSE IF k = i THEN table'[i] ELSE table[k - 1]
    BY <1>1, Entering
  <2>3. table'[i] \notin walk.steady
    BY <2>2 DEF LInv, ListTypeOK, Elements
  <2>4. (walk.page - 1) * TheSize \in Int
    BY Sizes, OneMore DEF LInv, ListTypeOK, Walk
  <2> DEFINE X == (walk.page - 1) * TheSize
             n == Len(table)
  <2>5. /\ X \in Int /\ n \in Nat /\ i \in 1..n + 1
        /\ \A k \in 1..n : table[k] \in walk.steady => table[k] \in walk.seen \/ k > X
    BY <2>1, <2>2, <2>4 DEF Covered, Underway
  <2>6. \A k \in 1..n + 1 :
             table'[k] = IF k < i THEN table[k] ELSE IF k = i THEN table'[i] ELSE table[k - 1]
    BY <2>2
  <2> HIDE DEF X, n
  <2>7. \A k \in 1..n + 1 : table'[k] \in walk.steady => table'[k] \in walk.seen \/ k > X
    <3> SUFFICES ASSUME NEW k \in 1..n + 1, table'[k] \in walk.steady
                 PROVE  table'[k] \in walk.seen \/ k > X
      OBVIOUS
    <3>1. k # i
      BY <2>3
    <3>2. CASE k < i
      <4>1. k \in 1..n
        BY <2>5, <3>2
      <4> QED BY <2>5, <2>6, <3>2, <4>1
    <3>3. CASE ~(k < i)
      <4>1. k - 1 \in 1..n
        BY <2>5, <3>1, <3>3
      <4>2. table'[k] = table[k - 1]
        BY <2>6, <3>1, <3>3
      <4> QED BY <2>5, <4>1, <4>2
    <3> QED BY <3>2, <3>3
  <2> QED BY <2>1, <2>2, <2>7 DEF X, n
<1>2. CASE Leave \/ Rearrange
  BY <1>2 DEF Leave, Rearrange
<1>3. CASE CountResumes \/ SelectFails \/ (Refuse /\ Underway)
  <2>1. Underway
    BY <1>3 DEF CountResumes, SelectFails, Underway
  <2> QED BY <1>3, <2>1, CountKeeps DEF Covered
<1>4. CASE Unscoped
  BY <1>4, UnscopedEnds DEF Underway
<1>5. ASSUME Underway, NEW t \in 0..Cardinality(Rows), ServesPage(t)
      PROVE  \A k \in DOMAIN table' : table'[k] \in walk'.steady =>
                table'[k] \in walk'.seen \/ k > (walk'.page - 1) * TheSize'
  <2> DEFINE rows == Limited(table, TheOffset, TheSize)
  <2>1. Answer(rows, t) /\ Elements(rows) \subseteq Rows
    BY <1>5, PageRows
  <2> HIDE DEF rows
  <2>2. /\ walk'.rule = walk.rule /\ walk'.steady = walk.steady /\ TheSize' = TheSize
        /\ Stops(rows, t) => walk'.pc = "done"
        /\ ~Stops(rows, t) => walk'.page = walk.page + 1
        /\ table' = table /\ left' = left
    BY <2>1, Answered
  <2>3. walk'.page = walk.page + 1
    BY <2>2 DEF Underway
  <2>4. (walk'.page - 1) * TheSize' = TheOffset + TheSize
    <3>1. walk.page \in Int /\ (walk.page + 1) - 1 = walk.page
      BY DEF LInv, ListTypeOK, Walk
    <3> QED BY <1>5, <2>2, <2>3, <3>1, Begins
  <2> QED BY <1>5, <2>2, <2>4, PageCovers
<1> QED BY <1>1, <1>2, <1>3, <1>4, <1>5, Kinds

(* A walk that ends has left no steady row out. *)
LEMMA WalkEnds ==
    ASSUME LInv, Covered, ListNext, walk'.pc = "done", Trusted', ~left'
    PROVE  walk'.steady \subseteq walk'.seen
<1>1. ~(Enter \/ Leave \/ Rearrange \/ CountResumes \/ SelectFails \/ Refuse)
  <2>1. ASSUME Leave \/ Rearrange PROVE FALSE
    BY <2>1 DEF Leave, Rearrange
  <2>2. ASSUME Enter PROVE FALSE
    <3>1. Underway /\ walk' = walk
      BY <2>2 DEF Enter
    <3> QED BY <3>1 DEF Underway
  <2> QED BY <2>1, <2>2, Kinds, CountKeeps
<1>2. ASSUME Unscoped PROVE FALSE
  <2>1. walk'.scoped = walk.scoped /\ ~walk.scoped
    BY <1>2, UnscopedEnds, Answered DEF Unscoped
  <2> QED BY <2>1 DEF Trusted
<1>3. PICK t \in 0..Cardinality(Rows) : ServesPage(t) /\ Underway
  BY <1>1, <1>2, Kinds
<1> DEFINE rows == Limited(table, TheOffset, TheSize)
<1>4. /\ DOMAIN table = 1..Len(table) /\ Len(table) \in Nat
      /\ TheOffset \in Nat /\ TheSize \in Nat \ {0}
      /\ Answer(rows, t) /\ Elements(rows) \subseteq Rows
      /\ rows = << >> => Len(table) <= TheOffset
      /\ Len(rows) < TheSize => Len(table) < TheOffset + TheSize
  BY <1>3, PageRows
<1>5. walk.list \in {"interviews", "portfolios"} => t = Len(table)
  BY <1>3 DEF ServesPage
<1> HIDE DEF rows
<1>6. /\ walk'.rule = walk.rule /\ walk'.steady = walk.steady /\ TheSize' = TheSize
      /\ walk'.size = walk.size /\ walk'.list = walk.list /\ left' = left
      /\ ~Stops(rows, t) => walk'.pc = "asked"
  BY <1>4, Answered
<1>7. Stops(rows, t) /\ walk.rule # "once" /\ ~left
  BY <1>6 DEF Trusted
<1>8. walk.page * TheSize = TheOffset + TheSize
  BY <1>3, <1>7, Begins
<1>9. Len(table) <= TheOffset + TheSize
  <2>1. CASE walk.rule = "empty"
    BY <1>4, <1>7, <2>1, Ends
  <2>2. CASE walk.rule = "short" /\ walk.size = TheSize
    BY <1>4, <1>7, <2>2, Ends
  <2>3. CASE walk.rule = "total" /\ walk.size = TheSize /\ walk.list \in {"interviews", "portfolios"}
    BY <1>4, <1>5, <1>7, <1>8, <2>3, Ends
  <2> QED BY <1>6, <2>1, <2>2, <2>3 DEF Trusted
<1>10. \A k \in DOMAIN table : table[k] \in walk.steady => table[k] \in walk'.seen
  <2> SUFFICES ASSUME NEW k \in DOMAIN table, table[k] \in walk.steady
               PROVE  table[k] \in walk'.seen
    OBVIOUS
  <2>1. table[k] \in walk'.seen \/ k > TheOffset + TheSize
    BY <1>3, <1>7, PageCovers
  <2> QED BY <1>4, <1>9, <2>1
<1> QED BY <1>6, <1>10 DEF LInv, ListTypeOK, Elements

(* However many rows are inserted while a client walks the pages, and      *)
(* wherever they sort, a walk that stops in a way that fits the list has   *)
(* met every row that was there throughout, unless some row left or        *)
(* changed places.                                                         *)
THEOREM NoneSkipped == ListSpec => []NoSkip
<1>1. ListInit => LInv /\ Covered /\ NoSkip
  <2> SUFFICES ASSUME ListInit PROVE LInv /\ Covered /\ NoSkip
    OBVIOUS
  <2>1. LInv
    BY LInvInit
  <2>2. walk.pc = "asked" /\ (walk.rule # "once" => walk.page = 1)
    BY DEF ListInit
  <2>3. TheSize \in Nat
    BY <2>1, Sizes
  <2>4. walk.page = 1 => (walk.page - 1) * TheSize = 0
    BY <2>3
  <2>5. \A k \in DOMAIN table : k > 0
    BY <2>1, LenProperties DEF LInv, ListTypeOK
  <2> QED BY <2>1, <2>2, <2>4, <2>5 DEF Covered, NoSkip
<1>2. LInv /\ Covered /\ NoSkip /\ [ListNext]_listVars => LInv' /\ Covered' /\ NoSkip'
  <2> SUFFICES ASSUME LInv, Covered, NoSkip, [ListNext]_listVars
               PROVE  LInv' /\ Covered' /\ NoSkip'
    OBVIOUS
  <2>1. LInv'
    BY LInvNext
  <2>2. CASE UNCHANGED listVars
    BY <2>1, <2>2 DEF listVars, Covered, NoSkip, Underway, Trusted, TheSize
  <2>3. CASE ListNext
    BY <2>1, <2>3, CoveredNext, WalkEnds DEF NoSkip
  <2> QED BY <2>2, <2>3
<1> QED BY <1>1, <1>2, PTL DEF ListSpec

LEMMA FreshNext ==
    ASSUME LInv, Fresh, NoRepeat, ListNext
    PROVE  Fresh' /\ NoRepeat'
<1> SUFFICES ASSUME ~entered'
             PROVE  /\ walk'.rule # "once" /\ Underway' =>
                          \A k \in DOMAIN table' : table'[k] \in walk'.seen =>
                              k <= (walk'.page - 1) * TheSize'
                    /\ ~walk'.repeated
  <2>1. walk'.repeated \in BOOLEAN
    BY LInvNext DEF LInv, ListTypeOK, Walk
  <2> QED BY <2>1 DEF Fresh, NoRepeat
<1>1. ~entered /\ ~walk.repeated
  <2>1. ~entered
    BY Kinds, CountKeeps, LeaveKeeps, UnscopedEnds
       DEF Enter, Leave, Rearrange, Answer, Writers, ServesPage
  <2> QED BY <2>1 DEF NoRepeat
<1>2. CASE Leave
  <2>1. PICK i \in 1 .. Len(table) :
             /\ Len(table) \in Nat /\ DOMAIN table = 1..Len(table)
             /\ DOMAIN table' = 1..Len(table) - 1
             /\ walk' = [walk EXCEPT !.steady = @ \ {table[i]}]
             /\ \A k \in 1..Len(table) - 1 :
                   table'[k] = IF k < i THEN table[k] ELSE table[k + 1]
    BY <1>2, Leaving
  <2>2. /\ walk'.repeated = walk.repeated /\ walk'.rule = walk.rule /\ walk'.pc = walk.pc
        /\ walk'.page = walk.page /\ walk'.seen = walk.seen /\ TheSize' = TheSize
    BY <1>2, <2>1, LeaveKeeps DEF LInv, ListTypeOK, Walk
  <2> DEFINE X == (walk.page - 1) * TheSize
             n == Len(table)
  <2>3. X \in Int
    BY Sizes, OneMore DEF LInv, ListTypeOK, Walk
  <2>4. ASSUME walk.rule # "once", Underway
        PROVE  \A k \in DOMAIN table' : table'[k] \in walk.seen => k <= X
    <3>1. \A k \in 1..n : table[k] \in walk.seen => k <= X
      BY <1>1, <2>1, <2>4 DEF Fresh
    <3>2. /\ n \in Nat /\ DOMAIN table' = 1..n - 1
          /\ \A k \in 1..n - 1 : table'[k] = IF k < i THEN table[k] ELSE table[k + 1]
      BY <2>1
    <3> HIDE DEF X, n
    <3> SUFFICES ASSUME NEW k \in 1..n - 1, table'[k] \in walk.seen
                 PROVE  k <= X
      BY <3>2
    <3>3. k \in 1..n /\ k + 1 \in 1..n
      BY <3>2
    <3> QED BY <2>3, <3>1, <3>2, <3>3
  <2> QED BY <1>1, <2>2, <2>4 DEF Underway
<1>3. CASE CountResumes \/ SelectFails \/ (Refuse /\ Underway)
  <2>1. Underway
    BY <1>3 DEF CountResumes, SelectFails, Underway
  <2> QED BY <1>1, <1>3, <2>1, CountKeeps DEF Fresh
<1>4. CASE Unscoped
  <2>1. walk'.repeated = (walk.repeated \/ {} \cap walk.seen # {})
    BY <1>4, UnscopedEnds, Answered
  <2> QED BY <1>1, <1>4, <2>1, UnscopedEnds DEF Underway
<1>5. ASSUME Underway, NEW t \in 0..Cardinality(Rows), ServesPage(t)
      PROVE  /\ walk'.rule # "once" /\ Underway' =>
                   \A k \in DOMAIN table' : table'[k] \in walk'.seen =>
                       k <= (walk'.page - 1) * TheSize'
             /\ ~walk'.repeated
  <2> DEFINE rows == Limited(table, TheOffset, TheSize)
  <2>1. /\ Answer(rows, t) /\ Elements(rows) \subseteq Rows
        /\ TheOffset \in Nat /\ TheSize \in Nat
        /\ DOMAIN table = 1..Len(table)
        /\ \A r \in Elements(rows) : \E k \in DOMAIN table :
             table[k] = r /\ TheOffset < k /\ k <= TheOffset + TheSize
    BY <1>5, PageRows
  <2> HIDE DEF rows
  <2>2. /\ walk'.rule = walk.rule /\ TheSize' = TheSize /\ table' = table
        /\ walk'.seen = walk.seen \cup Elements(rows)
        /\ walk'.repeated = (walk.repeated \/ Elements(rows) \cap walk.seen # {})
        /\ Stops(rows, t) => walk'.pc = "done"
        /\ ~Stops(rows, t) => walk'.page = walk.page + 1
    BY <2>1, Answered
  <2>3. walk.rule # "once" =>
          /\ TheOffset = (walk.page - 1) * TheSize /\ walk.page * TheSize = TheOffset + TheSize
          /\ \A k \in DOMAIN table : table[k] \in walk.seen => k <= TheOffset
    BY <1>1, <1>5, Begins DEF Fresh
  <2>4. Elements(rows) \cap walk.seen = {}
    <3>1. CASE walk.rule = "once"
      BY <1>5, <3>1 DEF LInv, WalkInv
    <3>2. CASE walk.rule # "once"
      <4> SUFFICES ASSUME NEW r \in Elements(rows), r \in walk.seen PROVE FALSE
        OBVIOUS
      <4>1. PICK k \in DOMAIN table : table[k] = r /\ TheOffset < k
        BY <2>1
      <4>2. k <= TheOffset
        BY <2>3, <3>2, <4>1
      <4> QED BY <2>1, <4>1, <4>2
    <3> QED BY <3>1, <3>2
  <2>5. ASSUME walk'.rule # "once", Underway'
        PROVE  \A k \in DOMAIN table' : table'[k] \in walk'.seen =>
                  k <= (walk'.page - 1) * TheSize'
    <3>1. walk'.page = walk.page + 1
      BY <2>2, <2>5 DEF Underway
    <3>2. walk.page \in Int /\ (walk.page + 1) - 1 = walk.page
      BY DEF LInv, ListTypeOK, Walk
    <3>3. (walk'.page - 1) * TheSize' = TheOffset + TheSize
      BY <2>2, <2>3, <2>5, <3>1, <3>2
    <3>4. \A j, k \in DOMAIN table : table[j] = table[k] => j = k
      BY DEF LInv, ListTypeOK, Distinct
    <3>5. ASSUME NEW k \in DOMAIN table, table[k] \in walk.seen \/ table[k] \in Elements(rows)
          PROVE  k <= TheOffset + TheSize
      <4>1. CASE table[k] \in walk.seen
        <5>1. k <= TheOffset
          BY <2>2, <2>3, <2>5, <4>1
        <5> QED BY <2>1, <5>1
      <4>2. CASE table[k] \in Elements(rows)
        <5>1. PICK j \in DOMAIN table : table[j] = table[k] /\ j <= TheOffset + TheSize
          BY <2>1, <4>2
        <5> QED BY <3>4, <5>1
      <4> QED BY <3>5, <4>1, <4>2
    <3> QED BY <2>2, <3>3, <3>5
  <2> QED BY <1>1, <2>2, <2>4, <2>5
<1>6. ASSUME Enter \/ Rearrange PROVE FALSE
  BY <1>6 DEF Enter, Rearrange
<1> QED BY <1>2, <1>3, <1>4, <1>5, <1>6, Kinds

(* Whatever is deleted while a client walks the pages, no row comes twice  *)
(* unless rows were inserted or changed places.                            *)
THEOREM NoneRepeated == ListSpec => []NoRepeat
<1>1. ListInit => LInv /\ Fresh /\ NoRepeat
  <2> SUFFICES ASSUME ListInit PROVE LInv /\ Fresh /\ NoRepeat
    OBVIOUS
  <2>1. walk.seen = {} /\ ~walk.repeated
    BY DEF ListInit
  <2> QED BY <2>1, LInvInit DEF Fresh, NoRepeat
<1>2. LInv /\ Fresh /\ NoRepeat /\ [ListNext]_listVars => LInv' /\ Fresh' /\ NoRepeat'
  <2> SUFFICES ASSUME LInv, Fresh, NoRepeat, [ListNext]_listVars
               PROVE  LInv' /\ Fresh' /\ NoRepeat'
    OBVIOUS
  <2>1. CASE UNCHANGED listVars
    BY <2>1, LInvNext DEF listVars, Fresh, NoRepeat, Underway, TheSize
  <2>2. CASE ListNext
    BY <2>2, LInvNext, FreshNext
  <2> QED BY <2>1, <2>2
<1> QED BY <1>1, <1>2, PTL DEF ListSpec

(* A gRPC request for one page is answered with the rows of that page,     *)
(* whatever page number and size its int32 fields carry: the product of    *)
(* the two, after the size is cut to the cap, fits an int.                 *)
THEOREM PagesExact == ListSpec => PageExact
<1>1. ASSUME LInv, [ListNext]_listVars,
             walk.list \in OverGRPC, walk.scoped, walk.rule = "once",
             walk.pc # "done", walk'.pc = "done"
      PROVE  walk'.seen = Elements(Meant(PageNumber(walk.page), TheSize))
  <2>1. ListNext
    BY <1>1 DEF listVars
  <2>2. ~(Enter \/ Leave \/ Rearrange \/ CountResumes \/ SelectFails \/ Refuse \/ Unscoped)
    <3>1. ASSUME Leave PROVE FALSE
      BY <1>1, <3>1, LeaveKeeps, Leaving DEF LInv, ListTypeOK, Walk
    <3>2. ASSUME Enter \/ Rearrange PROVE FALSE
      BY <1>1, <3>2 DEF Enter, Rearrange
    <3>3. ASSUME Unscoped PROVE FALSE
      BY <1>1, <3>3 DEF Unscoped
    <3> QED BY <1>1, <2>1, <3>1, <3>2, <3>3, Kinds, CountKeeps
  <2>3. PICK t \in 0..Cardinality(Rows) : ServesPage(t) /\ Underway
    BY <1>1, <2>1, <2>2, Kinds
  <2> DEFINE rows == Limited(table, TheOffset, TheSize)
             here == {k \in 1..Len(table) : TheOffset < k /\ k <= TheOffset + TheSize}
             first == PageNumber(walk.page)
  <2>4. /\ TheOffset = (first - 1) * TheSize /\ first * TheSize = TheOffset + TheSize
        /\ walk.seen = {}
    BY <1>1, <2>3, Begins DEF LInv, WalkInv
  <2>5. Answer(rows, t) /\ Elements(rows) \subseteq Rows
    BY <1>1, <2>3, PageRows
  <2>6. Elements(rows) = {table[k] : k \in here}
    <3>1. table \in Seq(Rows) /\ TheOffset \in Nat /\ TheSize \in Nat \ {0}
      BY <1>1, <2>3, PageRows DEF LInv, ListTypeOK
    <3> QED BY <3>1, LimitedRows
  <2> HIDE DEF rows
  <2>7. walk'.seen = Elements(rows)
    BY <1>1, <2>4, <2>5, Answered
  <2>8. Meant(first, TheSize) = [k \in here |-> table[k]]
    BY <2>4 DEF Meant
  <2> HIDE DEF here, first
  <2>9. Elements(Meant(first, TheSize)) = {table[k] : k \in here}
    BY <2>8 DEF Elements
  <2> QED BY <2>6, <2>7, <2>9 DEF first
<1> QED BY <1>1, LInvInit, LInvNext, PTL DEF ListSpec, PageExact

-----------------------------------------------------------------------------
(* What a search filter finds. *)

(* What each kind of clause asks of a document. *)
LEMMA KindMeanings ==
    ASSUME NEW d, NEW clause
    PROVE  /\ clause.kind = "match" =>
                (Holds(d, clause) <=>
                   Analyzed[clause.value] \cap TermsOf({d.text} \cup d.skills) # {})
           /\ clause.kind = "terms" =>
                (Holds(d, clause) <=> clause.value \cap TermsOf(d.skills) # {})
           /\ clause.kind = "term" /\ clause.field = "status" =>
                (Holds(d, clause) <=> clause.value = d.status)
           /\ clause.kind = "term" /\ clause.field = "source" =>
                (Holds(d, clause) <=> clause.value = d.source)
           /\ clause.kind = "gte" => (Holds(d, clause) <=> d.years >= clause.value)
           /\ clause.kind = "lte" => (Holds(d, clause) <=> d.years <= clause.value)
<1>1. CASE clause.kind = "match"
  <2>1. Holds(d, clause) <=> Analyzed[clause.value] \cap TermsOf({d.text} \cup d.skills) # {}
    BY <1>1, Zenon DEF Holds
  <2> QED BY <1>1, <2>1
<1>2. CASE clause.kind = "terms"
  <2>1. Holds(d, clause) <=> clause.value \cap TermsOf(d.skills) # {}
    BY <1>2, Zenon DEF Holds
  <2> QED BY <1>2, <2>1
<1>3. clause.kind = "term" /\ clause.field = "status" =>
        (Holds(d, clause) <=> clause.value = d.status)
  BY DEF Holds
<1>4. clause.kind = "term" /\ clause.field = "source" =>
        (Holds(d, clause) <=> clause.value = d.source)
  BY DEF Holds
<1>5. clause.kind = "gte" => (Holds(d, clause) <=> d.years >= clause.value)
  BY DEF Holds
<1>6. clause.kind = "lte" => (Holds(d, clause) <=> d.years <= clause.value)
  BY DEF Holds
<1> QED BY <1>1, <1>2, <1>3, <1>4, <1>5, <1>6

(* The same of the clauses the query is made of. *)
LEMMA ClauseMeanings ==
    ASSUME NEW d, NEW v
    PROVE  /\ Holds(d, Clause("match", "text", v)) <=>
                Analyzed[v] \cap TermsOf({d.text} \cup d.skills) # {}
           /\ Holds(d, Clause("terms", "skills", v)) <=> v \cap TermsOf(d.skills) # {}
           /\ Holds(d, Clause("term", "status", v)) <=> v = d.status
           /\ Holds(d, Clause("term", "source", v)) <=> v = d.source
           /\ Holds(d, Clause("gte", "years", v)) <=> d.years >= v
           /\ Holds(d, Clause("lte", "years", v)) <=> d.years <= v
<1>1. ASSUME NEW kind, NEW field
      PROVE  /\ Clause(kind, field, v).kind = kind
             /\ Clause(kind, field, v).field = field
             /\ Clause(kind, field, v).value = v
  BY DEF Clause
<1> QED BY <1>1, KindMeanings

(* The clauses of a filter, and so its meaning, field by field. *)
LEMMA FoundByClauses ==
    ASSUME NEW d, NEW f
    PROVE  Found(d, f) <=>
             /\ f.query # None => Holds(d, Clause("match", "text", f.query))
             /\ f.skills # {} => Holds(d, Clause("terms", "skills", f.skills))
             /\ f.status # None => Holds(d, Clause("term", "status", f.status))
             /\ f.source # None => Holds(d, Clause("term", "source", f.source))
             /\ f.min > 0 => Holds(d, Clause("gte", "years", f.min))
             /\ f.max > 0 => Holds(d, Clause("lte", "years", f.max))
BY DEF Found, buildSearchQuery, QueryWords, SkillsAny, ExperienceRange

(* What a search finds, without the clauses: the in-memory repository     *)
(* looks at neither words nor skills, and is right about the rest.         *)
LEMMA FoundMeans ==
    ASSUME NEW d, NEW f
    PROVE  Found(d, f) <=>
             /\ f.query # None => Analyzed[f.query] \cap TermsOf({d.text} \cup d.skills) # {}
             /\ f.skills # {} => f.skills \cap TermsOf(d.skills) # {}
             /\ FoundByMock(d, f)
BY FoundByClauses, ClauseMeanings DEF FoundByMock

(* Whatever the analyzer makes of text: the query that is built and the    *)
(* repository the tests search differ in words and skills alone.           *)
THEOREM MockAgrees == QuerySpec => []TestsSearchAlike
<1>1. TestsSearchAlike
  BY FoundMeans DEF TestsSearchAlike
<1> QED BY <1>1, PTL

(* Whatever the analyzer makes of text: of skills written as the resume    *)
(* lists them one must be a term, as the analyzer writes it, or the search *)
(* misses the resume, which the repository of the tests does not.          *)
THEOREM SkillsFound == QuerySpec => []SkillsAsListed
<1> DEFINE Typed == document.skills \subseteq Texts
<1>1. QueryInit => Typed
  BY DEF QueryInit, Document
<1>2. Typed /\ [QueryNext]_queryVars => Typed'
  BY DEF QueryNext, AskSearch, queryVars
<1>3. Typed => SkillsAsListed
  <2> SUFFICES ASSUME Typed, filter.skills # {}, filter.skills \subseteq document.skills,
                      [filter EXCEPT !.skills = {}] = NoFilter
               PROVE  /\ Found(document, filter) <=> filter.skills \cap Terms # {}
                      /\ FoundByMock(document, filter)
    BY DEF SkillsAsListed
  <2>1. filter.query = None /\ FoundByMock(document, filter)
    BY DEF NoFilter, FoundByMock
  <2>2. Found(document, filter) <=> filter.skills \cap TermsOf(document.skills) # {}
    BY <2>1, FoundMeans
  <2>3. TermsOf(document.skills) \subseteq Terms
    <3>1. \A t \in document.skills : Analyzed[t] \subseteq Terms
      BY QueryAssumption DEF QueryAssumption
    <3> QED BY <3>1 DEF TermsOf
  <2>4. ASSUME NEW t \in filter.skills \cap Terms PROVE t \in TermsOf(document.skills)
    <3>1. t \in document.skills /\ Analyzed[t] = {t}
      BY QueryAssumption DEF QueryAssumption
    <3> QED BY <3>1 DEF TermsOf
  <2> QED BY <2>1, <2>2, <2>3, <2>4
<1> QED BY <1>1, <1>2, <1>3, PTL DEF QuerySpec

=============================================================================
