------------------------ MODULE ShipmentListingProofs ------------------------
(***************************************************************************)
(* What a listing guarantees for every collection, query and size of page: *)
(* ListingInv is inductive, and the invariants follow from it.             *)
(***************************************************************************)
EXTENDS ShipmentListing, FiniteSetTheorems, TLAPS

-----------------------------------------------------------------------------
(* The inductive invariant.                                                 *)

\* A query that was sent has a limit in range, and it is answered when both commands are.
AskedInv ==
    /\ pc # "idle" => query.limit \in 1 .. MAX_LIMIT
    /\ pc = "answered" => commands = {}

BoundInv == Len(data) <= MAX_LIMIT

\* The shipments a command matched may differ from today's in those written since.
MatchedBut(M) == M \ written = Matches(query) \ written

\* What one command returned fits what the other has returned or would return now, but
\* for the shipments written in between.
PageInv ==
    pc \in {"querying", "answered"} =>
        /\ commands = {"countDocuments"} =>
              \E M \in SUBSET Ids : MatchedBut(M) /\ Len(data) = Fullness(Cardinality(M), query)
        /\ commands = {"find"} =>
              \E M \in SUBSET Ids : MatchedBut(M) /\ totalItems = Cardinality(M)
        /\ commands = {} =>
              \E n \in 0 .. Cardinality(Ids) :
                 /\ Len(data) = Fullness(n, query)
                 /\ n <= totalItems + Cardinality(written)
                 /\ totalItems <= n + Cardinality(written)

\* How many shipments of the sorted matches the client has gone past.
passed == IF pc = "answered" THEN query.page * query.limit ELSE skip(query)

\* The shipments the client has been given, the page under way included.
given == IF pc = "answered" THEN Range(seen) ELSE Range(seen) \cup Range(data)

\* The matches that come before a match.
Before(q, m) == {i \in Matches(q) : i # m /\ InOrder(q, i, m)}

Walking == pc \in {"querying", "answered"} /\ fromStart

\* As long as others only create shipments, a match that was there when the walk began
\* and has not been given stands behind what the client has gone past.
ReachInv ==
    Walking /\ SortKeysDiffer /\ ~ changed =>
        \A m \in Matches(query) \ arrived :
            /\ m \notin Range(seen) => passed <= Cardinality(Before(query, m))
            /\ "find" \notin commands /\ m \notin given =>
                  query.page * query.limit <= Cardinality(Before(query, m))

\* So once a count says that nothing is left behind the page, nothing is.
CompleteInv ==
    /\ Walking /\ SortKeysDiffer /\ ~ changed
    /\ commands = {} /\ written = {} /\ totalItems <= query.page * query.limit
    => Matches(query) \ arrived \subseteq given

\* Until a write comes, the count returned is the number of matches.
CountInv ==
    pc \in {"querying", "answered"} /\ Undisturbed /\ "countDocuments" \notin commands =>
        totalItems = Cardinality(Matches(query))

\* How many shipments an undisturbed walk has been given, whatever the order of ties.
LengthInv ==
    Walking /\ Undisturbed =>
        LET items == Cardinality(Matches(query)) IN
        /\ seen \in Seq(Matches(query)) /\ data \in Seq(Matches(query))
        /\ Len(seen) = IF passed > items THEN items ELSE passed
        /\ "find" \notin commands => Len(data) = Fullness(items, query)

ListingInv ==
    /\ TypeOK /\ AskedInv /\ BoundInv
    /\ PageInv /\ ReachInv /\ CompleteInv /\ CountInv /\ LengthInv

-----------------------------------------------------------------------------
(* Queries.                                                                 *)

\* null stands for no document.
LEMMA NullIsNoDocument == \A document \in Document : document # null
  BY SentinelAssumption

\* Instants are compared as numbers.
LEMMA InstantsAreNumbers == Instants \subseteq Nat
  BY MaxTimeAssumption DEF Instants

\* Whatever was asked for, the query has a page of at least 1 and a limit in range.
LEMMA ParsedQuery ==
    ASSUME NEW raw \in RawQueries
    PROVE  /\ parseQueryParams(raw) \in Queries
           /\ parseQueryParams(raw).page >= 1
           /\ parseQueryParams(raw).limit \in 1 .. MAX_LIMIT
  <1> DEFINE q == parseQueryParams(raw)
             limit == AtLeastOne(raw.limit, DEFAULT_LIMIT)
  <1>1. raw \in RawQueryParams
    BY RawQueriesAssumption
  <1>2. AtLeastOne(raw.page, 1) \in Nat /\ AtLeastOne(raw.page, 1) >= 1
    BY <1>1 DEF RawQueryParams, AtLeastOne
  <1>3. limit \in Nat /\ limit >= 1
    BY <1>1, ListingAssumption DEF RawQueryParams, AtLeastOne
  <1>4. q.page = AtLeastOne(raw.page, 1) /\ q.limit \in 1 .. MAX_LIMIT /\ q.limit \in Nat
    BY <1>3, ListingAssumption DEF parseQueryParams
  <1>5. Given(raw.sortBy, "createdAt") \in SortFields
    BY <1>1 DEF RawQueryParams, Given, SortFields
  <1>6. q \in Queries
    BY <1>1, <1>2, <1>4, <1>5 DEF parseQueryParams, Queries, RawQueryParams
  <1> QED
    BY <1>2, <1>4, <1>6

\* The matches are finitely many, and no more than there are identifiers.
LEMMA MatchesAreFinite ==
    ASSUME NEW q
    PROVE  /\ IsFiniteSet(Matches(q))
           /\ Cardinality(Matches(q)) \in 0 .. Cardinality(Ids)
           /\ Cardinality(Ids) \in Nat
  <1>1. Matches(q) \in SUBSET Ids /\ IsFiniteSet(Ids)
    BY ListingAssumption DEF Matches
  <1> QED
    BY <1>1, FS_Subset, FS_CardinalityType

\* The sequences that list a set list each of its members once.
LEMMA ListsOfASet ==
    ASSUME NEW S \in SUBSET Ids, NEW s \in SetToSeqs(S)
    PROVE  /\ s \in Seq(Ids) /\ Len(s) = Cardinality(S)
           /\ Cardinality(S) \in Nat /\ DOMAIN s = 1 .. Cardinality(S)
           /\ \A m \in DOMAIN s : s[m] \in S
           /\ \A m, n \in DOMAIN s : m # n => s[m] # s[n]
  <1>1. /\ s \in [1 .. Cardinality(S) -> S]
        /\ \A m, n \in 1 .. Cardinality(S) : m # n => s[m] # s[n]
    BY DEF SetToSeqs
  <1>2. Cardinality(S) \in Nat
    BY ListingAssumption, FS_Subset, FS_CardinalityType
  <1> QED
    BY <1>1, <1>2

\* A sorted listing holds each match once.
LEMMA SortedFacts ==
    ASSUME NEW q, NEW s \in Sorted(q)
    PROVE  /\ s \in SetToSeqs(Matches(q))
           /\ s \in Seq(Ids) /\ s \in Seq(Matches(q)) /\ Len(s) = Cardinality(Matches(q))
           /\ Cardinality(Matches(q)) \in Nat /\ DOMAIN s = 1 .. Cardinality(Matches(q))
           /\ \A m \in DOMAIN s : s[m] \in Matches(q)
           /\ \A m, n \in DOMAIN s : m # n => s[m] # s[n]
  <1>1. s \in SetToSeqs(Matches(q)) /\ Matches(q) \in SUBSET Ids
    BY DEF Sorted, Matches
  <1>2. /\ s \in Seq(Ids) /\ Len(s) = Cardinality(Matches(q))
        /\ Cardinality(Matches(q)) \in Nat /\ DOMAIN s = 1 .. Cardinality(Matches(q))
        /\ \A m \in DOMAIN s : s[m] \in Matches(q)
        /\ \A m, n \in DOMAIN s : m # n => s[m] # s[n]
    BY <1>1, ListsOfASet
  <1>3. s \in Seq(Matches(q))
    BY <1>2
  <1> QED
    BY <1>1, <1>2, <1>3

-----------------------------------------------------------------------------
(* Pages.                                                                   *)

\* Where a page begins and ends.
LEMMA SkipFacts ==
    ASSUME NEW q \in Queries, q.page >= 1
    PROVE  /\ skip(q) \in Nat
           /\ skip(q) + q.limit = q.page * q.limit
  <1>1. q.page \in Nat /\ q.limit \in Nat
    BY DEF Queries
  <1>2. PICK p \in Nat : q.page = p + 1
    BY <1>1
  <1>3. skip(q) = p * q.limit
    BY <1>1, <1>2 DEF skip
  <1>4. p * q.limit \in Nat /\ (p + 1) * q.limit = p * q.limit + q.limit
    BY <1>1
  <1> QED
    BY <1>2, <1>3, <1>4

\* There is a page after this one just when shipments remain: totalPages rounds up.
LEMMA CeilFacts ==
    ASSUME NEW items \in Nat, NEW limit \in Nat, limit >= 1, NEW page \in Nat
    PROVE  page < totalPages(items, limit) <=> page * limit < items
  <1> DEFINE pages == totalPages(items, limit)
  <1>1. pages \in Nat /\ pages * limit <= items + limit - 1 /\ items + limit - 1 < pages * limit + limit
    BY DEF totalPages
  <1> HIDE DEF pages
  <1>2. CASE page < pages
    <2> DEFINE d == pages - (page + 1)
    <2>1. d \in Nat /\ pages = page + 1 + d
      BY <1>1, <1>2
    <2> HIDE DEF d
    <2>2. pages * limit = page * limit + limit + d * limit /\ d * limit \in Nat /\ page * limit \in Nat
      BY <2>1
    <2> QED
      BY <1>1, <1>2, <2>2 DEF pages
  <1>3. CASE page >= pages
    <2> DEFINE d == page - pages
    <2>1. d \in Nat /\ page = pages + d
      BY <1>1, <1>3
    <2> HIDE DEF d
    <2>2. page * limit = pages * limit + d * limit /\ d * limit \in Nat /\ pages * limit \in Nat
      BY <1>1, <2>1
    <2> QED
      BY <1>1, <1>3, <2>2 DEF pages
  <1>4. QED
    BY <1>1, <1>2, <1>3 DEF pages

\* A page of n sorted shipments holds Fullness(n, q) of them.
LEMMA PageFacts ==
    ASSUME NEW q \in Queries, q.page >= 1, q.limit >= 1, NEW S, NEW s \in Seq(S)
    PROVE  /\ Page(s, q) \in Seq(S)
           /\ Len(Page(s, q)) = Fullness(Len(s), q)
           /\ Len(Page(s, q)) <= q.limit
  <1>1. skip(q) \in Nat /\ q.limit \in Nat /\ Len(s) \in Nat
    BY SkipFacts DEF Queries
  <1> DEFINE first == skip(q) + 1
             last  == IF skip(q) + q.limit > Len(s) THEN Len(s) ELSE skip(q) + q.limit
  <1>2. Page(s, q) = SubSeq(s, first, last)
    BY <1>1 DEF Page
  <1>3. first \in Nat /\ first >= 1 /\ last \in Nat /\ last <= Len(s)
    BY <1>1
  <1>4. SubSeq(s, first, last) \in Seq(S)
    BY <1>3
  <1>5. Len(SubSeq(s, first, last)) = IF first <= last THEN last - first + 1 ELSE 0
    BY <1>3
  <1>6. Fullness(Len(s), q) = IF first <= last THEN last - first + 1 ELSE 0
    BY <1>1 DEF Fullness
  <1>7. Fullness(Len(s), q) <= q.limit
    BY <1>1 DEF Fullness
  <1> QED
    BY <1>2, <1>4, <1>5, <1>6, <1>7

\* What the next page asks for is the same but for its number.
LEMMA SameMatches ==
    ASSUME UNCHANGED docs, query'.filters = query.filters,
           query'.sortBy = query.sortBy, query'.order = query.order
    PROVE  /\ Matches(query)' = Matches(query)
           /\ SortKeysDiffer' = SortKeysDiffer
           /\ \A m : Before(query, m)' = Before(query, m)
  <1>1. Matches(query)' = Matches(query)
    BY DEF Matches
  <1>2. \A i, j : InOrder(query, i, j)' = InOrder(query, i, j)
    BY DEF InOrder
  <1>3. \A m : Before(query, m)' = Before(query, m)
    BY <1>1, <1>2 DEF Before
  <1>4. SortKeysDiffer' = SortKeysDiffer
    BY <1>1 DEF SortKeysDiffer
  <1> QED
    BY <1>1, <1>3, <1>4

-----------------------------------------------------------------------------
(* Ranks.  If no two matches agree on the sort field, a match stands in a    *)
(* sorted listing behind the matches that come before it.                   *)

\* Sort fields are compared as numbers.
LEMMA SortKeysAreNumbers ==
    ASSUME NEW document \in Document, NEW sortBy \in SortFields
    PROVE  SortKey(document, sortBy) \in Nat
  <1>1. /\ document.createdAt \in Nat /\ document.updatedAt \in Nat
        /\ document.trackingNumber \in Nat /\ document.status \in SHIPMENT_STATUSES
        /\ \A f \in TextFields : document.text[f] \in Nat
    BY InstantsAreNumbers, ListingAssumption DEF Document
  <1>2. CASE sortBy = "createdAt"
    BY <1>1, <1>2 DEF SortKey
  <1>3. CASE sortBy = "updatedAt"
    BY <1>1, <1>3 DEF SortKey
  <1>4. CASE sortBy = "trackingNumber"
    BY <1>1, <1>4 DEF SortKey
  <1>5. CASE sortBy = "status"
    BY <1>1, <1>5 DEF SortKey, SHIPMENT_STATUSES
  <1>6. CASE sortBy \notin {"createdAt", "updatedAt", "trackingNumber", "status"}
    BY <1>1, <1>6 DEF SortKey, SortFields
  <1> QED
    BY <1>2, <1>3, <1>4, <1>5, <1>6

\* Between matches that differ in the sort field, the order goes one way only.
LEMMA OrderIsStrict ==
    ASSUME docs \in [Ids -> Document \cup {null}], query \in Queries, SortKeysDiffer,
           NEW i \in Matches(query), NEW j \in Matches(query),
           InOrder(query, i, j), InOrder(query, j, i)
    PROVE  i = j
  <1>1. docs[i] \in Document /\ docs[j] \in Document /\ query.sortBy \in SortFields
    BY DEF Matches, Queries
  <1>2. SortKey(docs[i], query.sortBy) \in Nat /\ SortKey(docs[j], query.sortBy) \in Nat
    BY <1>1, SortKeysAreNumbers
  <1>3. SortKey(docs[i], query.sortBy) = SortKey(docs[j], query.sortBy)
    BY <1>2 DEF InOrder
  <1> QED
    BY <1>3 DEF SortKeysDiffer

\* A sorted listing has every match in it.
LEMMA SortedListsAll ==
    ASSUME NEW q, NEW s \in Sorted(q), NEW i \in Matches(q)
    PROVE  \E m \in DOMAIN s : s[m] = i
  <1> DEFINE n == Cardinality(Matches(q))
  <1>1. /\ s \in [1 .. n -> Matches(q)] /\ n \in Nat
        /\ \A k, l \in 1 .. n : k # l => s[k] # s[l]
    BY SortedFacts DEF Sorted, SetToSeqs
  <1>2. IsFiniteSet(Matches(q)) /\ Cardinality(1 .. n) = n
    BY <1>1, MatchesAreFinite, FS_Interval
  <1>3. s \in Injection(1 .. n, Matches(q))
    BY <1>1 DEF Injection, IsInjective
  <1>4. s \in Surjection(1 .. n, Matches(q))
    BY <1>2, <1>3, FS_Injection
  <1> QED
    BY <1>1, <1>4 DEF Surjection

\* Where a match stands in a sorted listing is how many matches come before it.
LEMMA PositionIsRank ==
    ASSUME docs \in [Ids -> Document \cup {null}], query \in Queries, SortKeysDiffer,
           NEW s \in Sorted(query), NEW m \in DOMAIN s
    PROVE  Cardinality(Before(query, s[m])) = m - 1
  <1> DEFINE before == {j \in Matches(query) : j # s[m] /\ InOrder(query, j, s[m])}
             f == [k \in 1 .. (m - 1) |-> s[k]]
             n == Cardinality(Matches(query))
  <1>1. /\ n \in Nat /\ DOMAIN s = 1 .. n
        /\ \A k \in 1 .. n : s[k] \in Matches(query)
        /\ \A k, l \in 1 .. n : k # l => s[k] # s[l]
        /\ m \in 1 .. n
    BY SortedFacts
  <1>2. \A k, l \in 1 .. n : k < l => InOrder(query, s[k], s[l])
    BY <1>1 DEF Sorted
  <1> HIDE DEF n
  <1>3. f \in [1 .. (m - 1) -> before]
    <2>1. ASSUME NEW k \in 1 .. (m - 1) PROVE s[k] \in before
      <3>1. k \in 1 .. n /\ k < m
        BY <1>1, <2>1
      <3> QED
        BY <1>1, <1>2, <3>1
    <2> QED
      BY <2>1
  <1>4. \A k, l \in 1 .. (m - 1) : f[k] = f[l] => k = l
    BY <1>1
  <1>5. \A j \in before : \E k \in 1 .. (m - 1) : f[k] = j
    <2>1. SUFFICES ASSUME NEW j \in before PROVE \E k \in 1 .. (m - 1) : s[k] = j
      OBVIOUS
    <2>2. PICK k \in 1 .. n : s[k] = j
      BY <1>1, SortedListsAll
    <2>3. ~ (m < k)
      <3>1. SUFFICES ASSUME m < k PROVE FALSE
        OBVIOUS
      <3>2. InOrder(query, s[m], j) /\ InOrder(query, j, s[m])
        BY <1>1, <1>2, <2>2, <3>1
      <3>3. s[m] \in Matches(query) /\ j \in Matches(query) /\ j # s[m]
        BY <1>1
      <3> QED
        BY <3>2, <3>3, OrderIsStrict
    <2>4. k # m
      BY <2>2
    <2> QED
      BY <1>1, <2>2, <2>3, <2>4
  <1>6. f \in Bijection(1 .. (m - 1), before)
    <2>1. f \in Injection(1 .. (m - 1), before)
      BY <1>3, <1>4 DEF Injection, IsInjective
    <2>2. f \in Surjection(1 .. (m - 1), before)
      BY <1>3, <1>5 DEF Surjection
    <2> QED
      BY <2>1, <2>2 DEF Bijection
  <1>7. IsFiniteSet(1 .. (m - 1)) /\ Cardinality(1 .. (m - 1)) = m - 1
    BY <1>1, FS_Interval
  <1> QED
    BY <1>6, <1>7, FS_Bijection DEF ExistsBijection, Before

\* A rank is less than the number of matches.
LEMMA RankIsBelow ==
    ASSUME NEW q, NEW m \in Matches(q)
    PROVE  /\ Cardinality(Before(q, m)) \in Nat /\ Cardinality(Matches(q)) \in Nat
           /\ Cardinality(Before(q, m)) < Cardinality(Matches(q))
  <1>1. IsFiniteSet(Matches(q)) /\ Cardinality(Matches(q)) \in Nat
    BY MatchesAreFinite
  <1>2. Before(q, m) \subseteq Matches(q) /\ m \notin Before(q, m)
    BY DEF Before
  <1> QED
    BY <1>1, <1>2, FS_Subset, FS_CardinalityType

\* Creations take no shipment off the front of the listing: whoever was a match is one
\* still, at the same rank or a later one.
LEMMA CreationsKeepRanks ==
    ASSUME query' = query, \A i \in Ids : docs[i] # null => docs'[i] = docs[i]
    PROVE  /\ Matches(query) \subseteq Matches(query)'
           /\ SortKeysDiffer' => SortKeysDiffer
           /\ \A m \in Matches(query) :
                 /\ Cardinality(Before(query, m)) \in Nat
                 /\ Cardinality(Before(query, m)') \in Nat
                 /\ Cardinality(Before(query, m)) <= Cardinality(Before(query, m)')
  <1>1. \A m \in Matches(query) : m \in Ids /\ docs'[m] = docs[m] /\ m \in Matches(query)'
    BY DEF Matches
  <1>2. SortKeysDiffer' => SortKeysDiffer
    BY <1>1 DEF SortKeysDiffer
  <1>3. ASSUME NEW m \in Matches(query)
        PROVE  /\ Before(query, m) \subseteq Before(query, m)'
               /\ Before(query, m)' \subseteq Ids
    BY <1>1, <1>3 DEF Before, InOrder, Matches
  <1>4. IsFiniteSet(Ids)
    BY ListingAssumption
  <1> QED
    BY <1>1, <1>2, <1>3, <1>4, FS_Subset, FS_CardinalityType

\* The position a page covers is on the page.
LEMMA PageHolds ==
    ASSUME NEW q \in Queries, q.page >= 1, q.limit >= 1, NEW S, NEW s \in Seq(S),
           NEW k \in 1 .. Len(s), skip(q) < k, k <= skip(q) + q.limit
    PROVE  s[k] \in Range(Page(s, q))
  <1> DEFINE last == IF skip(q) + q.limit > Len(s) THEN Len(s) ELSE skip(q) + q.limit
  <1>1. skip(q) \in Nat /\ q.limit \in Nat /\ Len(s) \in Nat
    BY SkipFacts DEF Queries
  <1>2. Page(s, q) = SubSeq(s, skip(q) + 1, last)
    <2>1. q.limit # 0
      BY <1>1
    <2> QED
      BY ONLY <2>1 DEF Page
  <1>3. last \in Nat /\ k <= last /\ last <= Len(s)
    BY <1>1
  <1> HIDE DEF last
  <1>4. Len(SubSeq(s, skip(q) + 1, last)) = last - skip(q)
    BY <1>1, <1>3
  <1> DEFINE n == k - skip(q)
  <1>5. n \in 1 .. (last - skip(q)) /\ skip(q) + 1 + n - 1 = k
    BY <1>1, <1>3
  <1>6. SubSeq(s, skip(q) + 1, last)[n] = s[k]
    BY <1>1, <1>3, <1>5
  <1>7. n \in DOMAIN SubSeq(s, skip(q) + 1, last)
    BY <1>1, <1>3, <1>4, <1>5
  <1> QED
    BY <1>2, <1>6, <1>7 DEF Range

\* What two sequences hold is what they hold joined.
LEMMA RangeOfJoin ==
    ASSUME NEW S, NEW s \in Seq(S), NEW t \in Seq(S)
    PROVE  Range(s \o t) = Range(s) \cup Range(t)
  <1>1. /\ s \o t \in Seq(S) /\ Len(s) \in Nat /\ Len(t) \in Nat
        /\ Len(s \o t) = Len(s) + Len(t)
        /\ DOMAIN s = 1 .. Len(s) /\ DOMAIN t = 1 .. Len(t)
        /\ DOMAIN (s \o t) = 1 .. (Len(s) + Len(t))
    OBVIOUS
  <1>2. \A k \in 1 .. (Len(s) + Len(t)) : (s \o t)[k] = IF k <= Len(s) THEN s[k] ELSE t[k - Len(s)]
    OBVIOUS
  <1>3. ASSUME NEW k \in DOMAIN (s \o t) PROVE (s \o t)[k] \in Range(s) \cup Range(t)
    <2>1. CASE k <= Len(s)
      BY <1>1, <1>2, <2>1 DEF Range
    <2>2. CASE ~ (k <= Len(s))
      <3>1. k - Len(s) \in DOMAIN t
        BY <1>1, <2>2
      <3> QED
        BY <1>1, <1>2, <2>2, <3>1 DEF Range
    <2> QED
      BY <2>1, <2>2
  <1>4. ASSUME NEW k \in DOMAIN s PROVE s[k] \in Range(s \o t)
    <2>1. k \in DOMAIN (s \o t) /\ (s \o t)[k] = s[k]
      BY <1>1, <1>2
    <2> QED
      BY <2>1 DEF Range
  <1>5. ASSUME NEW k \in DOMAIN t PROVE t[k] \in Range(s \o t)
    <2>1. Len(s) + k \in DOMAIN (s \o t) /\ ~ (Len(s) + k <= Len(s)) /\ (Len(s) + k) - Len(s) = k
      BY <1>1
    <2>2. (s \o t)[Len(s) + k] = t[k]
      BY <1>1, <1>2, <2>1
    <2> QED
      BY <2>1, <2>2 DEF Range
  <1> QED
    BY <1>3, <1>4, <1>5 DEF Range

\* Two sets that differ only in the members of a third differ in size by no more.
LEMMA DifferByFew ==
    ASSUME NEW M \in SUBSET Ids, NEW N \in SUBSET Ids, NEW W \in SUBSET Ids,
           M \ W = N \ W
    PROVE  /\ Cardinality(M) \in 0 .. Cardinality(Ids) /\ Cardinality(N) \in 0 .. Cardinality(Ids)
           /\ Cardinality(W) \in Nat
           /\ Cardinality(M) <= Cardinality(N) + Cardinality(W)
           /\ Cardinality(N) <= Cardinality(M) + Cardinality(W)
  <1>1. IsFiniteSet(Ids) /\ IsFiniteSet(M) /\ IsFiniteSet(N) /\ IsFiniteSet(W)
    BY ListingAssumption, FS_Subset
  <1>2. /\ Cardinality(M) \in 0 .. Cardinality(Ids) /\ Cardinality(N) \in 0 .. Cardinality(Ids)
        /\ Cardinality(W) \in Nat /\ Cardinality(Ids) \in Nat
    BY <1>1, FS_Subset, FS_CardinalityType
  <1>3. ASSUME NEW A \in SUBSET Ids, NEW B \in SUBSET Ids, A \ W = B \ W
        PROVE  Cardinality(A) <= Cardinality(B) + Cardinality(W)
    <2>1. A \subseteq B \cup W
      BY <1>3
    <2>2. IsFiniteSet(A) /\ IsFiniteSet(B) /\ IsFiniteSet(B \cup W) /\ IsFiniteSet(B \cap W)
      BY <1>1, FS_Subset, FS_Union
    <2>3. Cardinality(B \cup W) = Cardinality(B) + Cardinality(W) - Cardinality(B \cap W)
      BY <1>1, <2>2, FS_Union
    <2>4. Cardinality(A) <= Cardinality(B \cup W)
      BY <2>1, <2>2, FS_Subset
    <2>5. /\ Cardinality(A) \in Nat /\ Cardinality(B) \in Nat /\ Cardinality(B \cap W) \in Nat
          /\ Cardinality(B \cup W) \in Nat
      BY <2>2, FS_CardinalityType
    <2> QED
      BY <1>2, <2>3, <2>4, <2>5
  <1> QED
    BY <1>2, <1>3

-----------------------------------------------------------------------------
(* ListingInv is inductive: one lemma per action.                           *)

\* Applying a PUT body gives a well-formed document.
LEMMA ApplySetType ==
    ASSUME NEW document \in Document, NEW body \in UpdateBodies, NEW time \in Instants
    PROVE  applySet(document, body, time) \in Document
  BY ListingAssumption
  DEF applySet, Document, UpdateShipmentDTO, Given, SHIPMENT_STATUSES

\* Other requests leave well-formed documents.
LEMMA WriteType ==
    ASSUME docs \in [Ids -> Document \cup {null}], retired \subseteq Ids, Registry!Write
    PROVE  docs' \in [Ids -> Document \cup {null}] /\ retired' \subseteq Ids
  <1>1. PICK id \in Ids : Registry!Create(id) \/ Registry!Update(id) \/ Registry!Delete(id)
    BY DEF Registry!Write
  <1>2. CASE Registry!Create(id)
    <2>1. PICK body \in CreateBodies, trackingNumber \in TrackingNumbers, time \in Instants :
            docs' = [docs EXCEPT ![id] = newShipment(body, trackingNumber, time)]
      BY <1>2 DEF Registry!Create, Registry!newShipment, Registry!Instants, Registry!Given,
         newShipment, Instants, Given
    <2>2. newShipment(body, trackingNumber, time) \in Document
      BY ListingAssumption
      DEF newShipment, Document, CreateShipmentDTO, Given, SHIPMENT_STATUSES
    <2> QED
      BY <1>2, <2>1, <2>2 DEF Registry!Create
  <1>3. CASE Registry!Update(id)
    <2>1. PICK body \in UpdateBodies, time \in docs[id].createdAt .. MaxTime :
            docs' = [docs EXCEPT ![id] = applySet(docs[id], body, time)]
      BY <1>3 DEF Registry!Update, Registry!applySet, Registry!Given, applySet, Given
    <2>2. docs[id] \in Document /\ time \in Instants
      BY <1>3, MaxTimeAssumption DEF Registry!Update, Document, Instants
    <2>3. applySet(docs[id], body, time) \in Document
      BY <2>2, ApplySetType
    <2> QED
      BY <1>3, <2>1, <2>3 DEF Registry!Update
  <1>4. CASE Registry!Delete(id)
    BY <1>4 DEF Registry!Delete
  <1> QED
    BY <1>1, <1>2, <1>3, <1>4

\* Before the first listing.
LEMMA InitInv == Init => ListingInv
  <1> SUFFICES ASSUME Init PROVE ListingInv
    OBVIOUS
  <1>1. Cardinality(Ids) \in Nat
    BY MatchesAreFinite
  <1>2. TypeOK
    <2>1. docs \in [Ids -> Document \cup {null}] /\ retired \subseteq Ids
      BY DEF Init, Registry!Init
    <2>2. <<>> \in Seq(Ids)
      OBVIOUS
    <2>3. pc = "idle" /\ query = null /\ commands \subseteq {"find", "countDocuments"}
      BY DEF Init
    <2>4. data \in Seq(Ids) /\ seen \in Seq(Ids) /\ totalItems \in 0 .. Cardinality(Ids)
      BY <1>1, <2>2 DEF Init
    <2>5. fromStart \in BOOLEAN /\ written \subseteq Ids /\ arrived \subseteq Ids /\ changed \in BOOLEAN
      BY DEF Init
    <2> QED
      BY <2>1, <2>3, <2>4, <2>5 DEF TypeOK
  <1>3. AskedInv /\ BoundInv
    BY ListingAssumption DEF Init, AskedInv, BoundInv
  <1>4. PageInv /\ ReachInv /\ CompleteInv /\ CountInv /\ LengthInv
    BY DEF Init, PageInv, ReachInv, CompleteInv, CountInv, LengthInv, Walking
  <1> QED
    BY <1>2, <1>3, <1>4 DEF ListingInv

\* What holds of the query of every request under way.
LEMMA QueryFacts ==
    ASSUME TypeOK, AskedInv, pc # "idle"
    PROVE  /\ query \in Queries /\ query.page \in Nat /\ query.limit \in Nat
           /\ query.page >= 1 /\ query.limit >= 1 /\ query.limit <= MAX_LIMIT
           /\ skip(query) \in Nat /\ skip(query) + query.limit = query.page * query.limit
  <1>1. query \in Queries /\ query.page >= 1 /\ query.limit \in 1 .. MAX_LIMIT
    BY DEF TypeOK, AskedInv
  <1>2. query.page \in Nat /\ query.limit \in Nat
    BY <1>1 DEF Queries
  <1> QED
    BY <1>1, <1>2, SkipFacts, ListingAssumption

\* A new listing starts a walk, from page 1 or from another.
LEMMA ListShipmentsInv == ASSUME ListingInv, listShipments PROVE ListingInv'
  <1>1. PICK raw \in RawQueries :
          /\ Ask(parseQueryParams(raw))
          /\ fromStart' = (parseQueryParams(raw).page = 1)
    BY DEF listShipments
  <1> DEFINE q == parseQueryParams(raw)
  <1>2. q \in Queries /\ q.page >= 1 /\ q.limit \in 1 .. MAX_LIMIT
    BY ParsedQuery
  <1> HIDE DEF q
  <1>3. /\ query' = q /\ pc' = "querying" /\ commands' = {"find", "countDocuments"}
        /\ data' = <<>> /\ totalItems' = 0 /\ seen' = <<>>
        /\ written' = {} /\ arrived' = {} /\ changed' = FALSE
        /\ docs' = docs /\ retired' = retired /\ fromStart' = (q.page = 1)
    BY <1>1 DEF listShipments, Ask, q
  <1>4. TypeOK'
    <2>1. totalItems' \in 0 .. Cardinality(Ids) /\ data' \in Seq(Ids) /\ seen' \in Seq(Ids)
      BY <1>3, MatchesAreFinite
    <2> QED
      BY <1>2, <1>3, <2>1 DEF ListingInv, TypeOK
  <1>5. AskedInv' /\ BoundInv'
    BY <1>2, <1>3, ListingAssumption DEF AskedInv, BoundInv
  <1>6. PageInv' /\ CompleteInv'
    <2>1. commands' # {"find"} /\ commands' # {"countDocuments"} /\ commands' # {}
      BY <1>3
    <2> QED
      BY <2>1 DEF PageInv, CompleteInv
  <1>7. ASSUME fromStart' PROVE passed' = 0
    <2>1. q.page = 1 /\ q.limit \in Nat
      BY <1>2, <1>3, <1>7, ListingAssumption DEF Queries
    <2>2. (1 - 1) * q.limit = 0
      BY <2>1
    <2>3. skip(query)' = 0
      BY <1>3, <2>1, <2>2 DEF skip
    <2> QED
      BY <1>3, <2>3 DEF passed
  <1>8. Matches(query)' = Matches(q) /\ \A m : Before(query, m)' = Before(q, m)
    BY <1>3 DEF Matches, Before, InOrder
  <1>9. ReachInv'
    <2>1. ASSUME NEW m \in Matches(q) PROVE Cardinality(Before(q, m)) \in Nat
      BY RankIsBelow
    <2> QED
      BY <1>3, <1>7, <1>8, <2>1 DEF ReachInv, Walking
  <1>10. CountInv'
    BY <1>3 DEF CountInv
  <1>11. LengthInv'
    <2>1. Cardinality(Matches(q)) \in Nat
      BY MatchesAreFinite
    <2>2. <<>> \in Seq(Matches(q)) /\ Len(<<>>) = 0
      OBVIOUS
    <2> QED
      BY <1>3, <1>7, <1>8, <2>1, <2>2 DEF LengthInv, Walking
  <1> QED
    BY <1>4, <1>5, <1>6, <1>9, <1>10, <1>11 DEF ListingInv

\* The next page of a walk.
LEMMA ListNextPageInv == ASSUME ListingInv, listNextPage PROVE ListingInv'
  <1> DEFINE q == [query EXCEPT !.page = query.page + 1]
  <1>1. pc = "answered" /\ Ask(q) /\ UNCHANGED <<seen, fromStart, arrived, changed>>
    BY DEF listNextPage
  <1>2. /\ query \in Queries /\ query.page \in Nat /\ query.limit \in Nat
        /\ query.page >= 1 /\ query.limit \in 1 .. MAX_LIMIT
        /\ skip(query) + query.limit = query.page * query.limit
    BY <1>1, QueryFacts DEF ListingInv, AskedInv
  <1>3. /\ q \in Queries /\ q.page = query.page + 1 /\ q.limit = query.limit
        /\ q.filters = query.filters /\ q.sortBy = query.sortBy /\ q.order = query.order
    BY <1>2 DEF Queries
  <1> HIDE DEF q
  <1>4. /\ query' = q /\ pc' = "querying" /\ commands' = {"find", "countDocuments"}
        /\ data' = <<>> /\ totalItems' = 0 /\ written' = {}
        /\ docs' = docs /\ retired' = retired
        /\ seen' = seen /\ fromStart' = fromStart /\ arrived' = arrived /\ changed' = changed
    BY <1>1 DEF Ask
  <1>5. TypeOK'
    <2>1. totalItems' \in 0 .. Cardinality(Ids) /\ data' \in Seq(Ids)
      BY <1>4, MatchesAreFinite
    <2>2. query' \in Queries /\ query'.page >= 1
      BY <1>2, <1>3, <1>4
    <2> QED
      BY <1>4, <2>1, <2>2 DEF ListingInv, TypeOK
  <1>6. AskedInv' /\ BoundInv'
    BY <1>2, <1>3, <1>4, ListingAssumption DEF AskedInv, BoundInv
  <1>7. PageInv' /\ CompleteInv'
    <2>1. commands' # {"find"} /\ commands' # {"countDocuments"} /\ commands' # {}
      BY <1>4
    <2> QED
      BY <2>1 DEF PageInv, CompleteInv
  <1>8. /\ Matches(query)' = Matches(query) /\ SortKeysDiffer' = SortKeysDiffer
        /\ \A m : Before(query, m)' = Before(query, m)
    BY <1>3, <1>4, SameMatches
  <1>9. passed' = passed
    <2>1. skip(query)' = (query'.page - 1) * query'.limit
      BY DEF skip
    <2>2. query'.page - 1 = query.page /\ query'.limit = query.limit
      BY <1>2, <1>3, <1>4
    <2> QED
      BY <1>1, <1>4, <2>1, <2>2 DEF passed
  <1>10. ReachInv'
    <2>1. Range(seen)' = Range(seen)
      BY <1>4
    <2> QED
      BY <1>1, <1>4, <1>8, <1>9, <2>1 DEF ListingInv, ReachInv, Walking
  <1>11. CountInv'
    BY <1>4 DEF CountInv
  <1>12. LengthInv'
    <2>1. <<>> \in Seq(Matches(query))
      OBVIOUS
    <2> QED
      BY <1>1, <1>4, <1>8, <1>9, <2>1 DEF ListingInv, LengthInv, Walking, Undisturbed
  <1> QED
    BY <1>5, <1>6, <1>7, <1>10, <1>11, <1>12 DEF ListingInv

\* find answers with a page of the matches, in one of their orders.
LEMMA FindInv == ASSUME ListingInv, find PROVE ListingInv'
  <1>1. PICK s \in Sorted(query) : data' = Page(s, query)
    BY DEF find
  <1>2. /\ pc = "querying" /\ "find" \in commands /\ commands' = commands \ {"find"}
        /\ docs' = docs /\ retired' = retired /\ pc' = pc /\ query' = query
        /\ totalItems' = totalItems /\ seen' = seen /\ fromStart' = fromStart
        /\ written' = written /\ arrived' = arrived /\ changed' = changed
    BY DEF find, history
  <1>3. /\ query \in Queries /\ query.page >= 1 /\ query.limit >= 1
        /\ query.limit \in Nat /\ query.limit <= MAX_LIMIT /\ MAX_LIMIT \in Nat
        /\ skip(query) \in Nat /\ skip(query) + query.limit = query.page * query.limit
    BY <1>2, QueryFacts, ListingAssumption DEF ListingInv
  <1>4. /\ s \in Seq(Ids) /\ s \in Seq(Matches(query)) /\ Len(s) = Cardinality(Matches(query))
    BY SortedFacts
  <1>5. /\ data' \in Seq(Ids) /\ data' \in Seq(Matches(query)) /\ Len(data') \in Nat
        /\ Len(data') = Fullness(Cardinality(Matches(query)), query) /\ Len(data') <= query.limit
    BY <1>1, <1>3, <1>4, PageFacts
  <1>6. TypeOK'
    BY <1>2, <1>5 DEF ListingInv, TypeOK
  <1>7. AskedInv' /\ BoundInv'
    BY <1>2, <1>3, <1>5 DEF ListingInv, AskedInv, BoundInv
  <1>8. /\ Matches(query)' = Matches(query) /\ SortKeysDiffer' = SortKeysDiffer
        /\ \A m : Before(query, m)' = Before(query, m)
    BY <1>2, SameMatches
  <1>9. Matches(query) \in SUBSET Ids /\ written \in SUBSET Ids /\ commands \subseteq {"find", "countDocuments"}
    BY DEF Matches, ListingInv, TypeOK
  <1>10. \A n : Fullness(n, query)' = Fullness(n, query)
    BY <1>2 DEF Fullness, skip
  <1>11. PageInv'
    <2>1. CASE commands = {"find"}
      <3>1. PICK M \in SUBSET Ids : MatchedBut(M) /\ totalItems = Cardinality(M)
        BY <1>2, <2>1 DEF ListingInv, PageInv
      <3>2. /\ Cardinality(Matches(query)) \in 0 .. Cardinality(Ids)
            /\ Cardinality(Matches(query)) <= totalItems + Cardinality(written)
            /\ totalItems <= Cardinality(Matches(query)) + Cardinality(written)
        BY <1>9, <3>1, DifferByFew DEF MatchedBut
      <3>3. commands' = {} /\ commands' # {"find"} /\ commands' # {"countDocuments"}
        BY <1>2, <2>1
      <3> QED
        BY <1>2, <1>5, <1>10, <3>2, <3>3 DEF PageInv
    <2>2. CASE commands = {"find", "countDocuments"}
      <3>1. commands' = {"countDocuments"} /\ commands' # {"find"} /\ commands' # {}
        BY <1>2, <2>2
      <3>2. MatchedBut(Matches(query))'
        BY <1>2, <1>8 DEF MatchedBut
      <3> QED
        BY <1>5, <1>8, <1>9, <1>10, <3>1, <3>2 DEF PageInv
    <2> QED
      BY <1>2, <1>9, <2>1, <2>2
  <1>12. ASSUME Walking, SortKeysDiffer, ~ changed, NEW m \in Matches(query) \ arrived,
                m \notin Range(seen), m \notin Range(data')
         PROVE  query.page * query.limit <= Cardinality(Before(query, m))
    <2>1. docs \in [Ids -> Document \cup {null}]
      BY DEF ListingInv, TypeOK
    <2>2. PICK k \in DOMAIN s : s[k] = m
      BY <1>12, SortedListsAll
    <2>3. Cardinality(Before(query, m)) = k - 1 /\ DOMAIN s = 1 .. Len(s) /\ k \in Nat
      BY <1>3, <1>4, <1>12, <2>1, <2>2, PositionIsRank
    <2>4. skip(query) <= k - 1
      BY <1>2, <1>12, <2>3 DEF ListingInv, ReachInv, passed
    <2>5. ~ (k <= skip(query) + query.limit)
      <3>1. SUFFICES ASSUME k <= skip(query) + query.limit PROVE FALSE
        OBVIOUS
      <3>2. skip(query) < k
        BY <1>3, <2>3, <2>4
      <3>3. s[k] \in Range(Page(s, query))
        BY <1>3, <1>4, <2>3, <3>1, <3>2, PageHolds
      <3> QED
        BY <1>1, <1>12, <2>2, <3>3
    <2> QED
      BY <1>3, <2>3, <2>5
  <1>13. ReachInv'
    <2>1. given' = Range(seen) \cup Range(data')
      BY <1>2 DEF given
    <2>2. passed' = passed
      BY <1>2 DEF passed, skip
    <2> QED
      BY <1>2, <1>8, <1>12, <2>1, <2>2 DEF ListingInv, ReachInv, Walking
  <1>14. CompleteInv'
    <2>1. SUFFICES ASSUME Walking, SortKeysDiffer, ~ changed, commands' = {}, written = {},
                          totalItems <= query.page * query.limit,
                          NEW m \in Matches(query) \ arrived,
                          m \notin Range(seen), m \notin Range(data')
                   PROVE  FALSE
      BY <1>2, <1>8 DEF CompleteInv, Walking, given
    <2>2. commands = {"find"}
      BY <1>2, <1>9, <2>1
    <2>3. PICK M \in SUBSET Ids : MatchedBut(M) /\ totalItems = Cardinality(M)
      BY <1>2, <2>2 DEF ListingInv, PageInv
    <2>4. M = Matches(query)
      BY <2>1, <2>3 DEF MatchedBut
    <2>5. query.page * query.limit <= Cardinality(Before(query, m))
      BY <1>12, <2>1
    <2>6. /\ Cardinality(Before(query, m)) < Cardinality(Matches(query))
          /\ Cardinality(Before(query, m)) \in Nat /\ Cardinality(Matches(query)) \in Nat
      BY <2>1, RankIsBelow
    <2> DEFINE end == query.page * query.limit
    <2>7. end \in Nat
      BY <1>3
    <2> HIDE DEF end
    <2> QED
      BY <2>1, <2>3, <2>4, <2>5, <2>6, <2>7 DEF end
  <1>15. CountInv'
    BY <1>2, <1>8 DEF ListingInv, CountInv, Undisturbed
  <1>16. LengthInv'
    BY <1>2, <1>5, <1>8, <1>10 DEF ListingInv, LengthInv, Walking, Undisturbed, passed, skip
  <1> QED
    BY <1>6, <1>7, <1>11, <1>13, <1>14, <1>15, <1>16 DEF ListingInv

\* countDocuments answers with the number of matches.
LEMMA CountDocumentsInv == ASSUME ListingInv, countDocuments PROVE ListingInv'
  <1>1. /\ pc = "querying" /\ "countDocuments" \in commands /\ commands' = commands \ {"countDocuments"}
        /\ totalItems' = Cardinality(Matches(query))
        /\ docs' = docs /\ retired' = retired /\ pc' = pc /\ query' = query
        /\ data' = data /\ seen' = seen /\ fromStart' = fromStart
        /\ written' = written /\ arrived' = arrived /\ changed' = changed
    BY DEF countDocuments, history
  <1>2. TypeOK'
    BY <1>1, MatchesAreFinite DEF ListingInv, TypeOK
  <1>3. AskedInv' /\ BoundInv'
    BY <1>1 DEF ListingInv, AskedInv, BoundInv
  <1>4. /\ Matches(query)' = Matches(query) /\ SortKeysDiffer' = SortKeysDiffer
        /\ \A m : Before(query, m)' = Before(query, m)
    BY <1>1, SameMatches
  <1>5. Matches(query) \in SUBSET Ids /\ written \in SUBSET Ids /\ commands \subseteq {"find", "countDocuments"}
    BY DEF Matches, ListingInv, TypeOK
  <1>6. \A n : Fullness(n, query)' = Fullness(n, query)
    BY <1>1 DEF Fullness, skip
  <1>7. PageInv'
    <2>1. CASE commands = {"countDocuments"}
      <3>1. PICK M \in SUBSET Ids : MatchedBut(M) /\ Len(data) = Fullness(Cardinality(M), query)
        BY <1>1, <2>1 DEF ListingInv, PageInv
      <3>2. /\ Cardinality(M) \in 0 .. Cardinality(Ids)
            /\ Cardinality(M) <= totalItems' + Cardinality(written)
            /\ totalItems' <= Cardinality(M) + Cardinality(written)
        BY <1>1, <1>5, <3>1, DifferByFew DEF MatchedBut
      <3>3. commands' = {} /\ commands' # {"find"} /\ commands' # {"countDocuments"}
        BY <1>1, <2>1
      <3> QED
        BY <1>1, <1>6, <3>1, <3>2, <3>3 DEF PageInv
    <2>2. CASE commands = {"find", "countDocuments"}
      <3>1. commands' = {"find"} /\ commands' # {"countDocuments"} /\ commands' # {}
        BY <1>1, <2>2
      <3>2. MatchedBut(Matches(query))'
        BY <1>1, <1>4 DEF MatchedBut
      <3> QED
        BY <1>1, <1>4, <1>5, <3>1, <3>2 DEF PageInv
    <2> QED
      BY <1>1, <1>5, <2>1, <2>2
  <1>8. passed' = passed /\ given' = given
    BY <1>1 DEF passed, given, skip
  <1>9. ReachInv'
    BY <1>1, <1>4, <1>8 DEF ListingInv, ReachInv, Walking
  <1>10. CompleteInv'
    <2>1. SUFFICES ASSUME Walking, SortKeysDiffer, ~ changed, commands' = {},
                          totalItems' <= query.page * query.limit,
                          NEW m \in Matches(query) \ arrived, m \notin given
                   PROVE  FALSE
      BY <1>1, <1>4, <1>8 DEF CompleteInv, Walking
    <2>2. query.page * query.limit <= Cardinality(Before(query, m))
      BY <1>1, <2>1 DEF ListingInv, ReachInv
    <2>3. /\ Cardinality(Before(query, m)) < Cardinality(Matches(query))
          /\ Cardinality(Before(query, m)) \in Nat /\ Cardinality(Matches(query)) \in Nat
      BY <2>1, RankIsBelow
    <2> DEFINE end == query.page * query.limit
    <2>4. end \in Nat
      BY <1>1, QueryFacts DEF ListingInv
    <2> HIDE DEF end
    <2> QED
      BY <1>1, <2>1, <2>2, <2>3, <2>4 DEF end
  <1>11. CountInv'
    BY <1>1, <1>4 DEF ListingInv, CountInv
  <1>12. LengthInv'
    BY <1>1, <1>4, <1>6, <1>8 DEF ListingInv, LengthInv, Walking, Undisturbed
  <1> QED
    BY <1>2, <1>3, <1>7, <1>9, <1>10, <1>11, <1>12 DEF ListingInv

-----------------------------------------------------------------------------
(* The remaining actions.                                                    *)

\* The page is answered and joins what the walk has seen.
LEMMA ResumeListInv == ASSUME ListingInv, resumeList PROVE ListingInv'
  <1>1. /\ pc = "querying" /\ commands = {} /\ pc' = "answered" /\ seen' = seen \o data
        /\ docs' = docs /\ retired' = retired /\ query' = query /\ commands' = commands
        /\ data' = data /\ totalItems' = totalItems /\ fromStart' = fromStart
        /\ written' = written /\ arrived' = arrived /\ changed' = changed
    BY DEF resumeList, history
  <1>2. /\ query \in Queries /\ query.page >= 1 /\ query.limit >= 1 /\ query.limit \in Nat
        /\ skip(query) + query.limit = query.page * query.limit
    BY <1>1, QueryFacts DEF ListingInv
  <1>3. TypeOK'
    BY <1>1 DEF ListingInv, TypeOK
  <1>4. AskedInv' /\ BoundInv'
    BY <1>1 DEF ListingInv, AskedInv, BoundInv
  <1>5. /\ Matches(query)' = Matches(query) /\ SortKeysDiffer' = SortKeysDiffer
        /\ \A m : Before(query, m)' = Before(query, m)
    BY <1>1, SameMatches
  <1>6. PageInv'
    BY <1>1, <1>5 DEF ListingInv, PageInv, Fullness, skip
  <1>7. given' = given /\ Range(seen)' = given /\ passed' = query.page * query.limit
    <2>1. Range(seen \o data) = Range(seen) \cup Range(data)
      BY RangeOfJoin DEF ListingInv, TypeOK
    <2> QED
      BY <1>1, <2>1 DEF given, passed
  <1>8. ReachInv' /\ CompleteInv'
    BY <1>1, <1>5, <1>7 DEF ListingInv, ReachInv, CompleteInv, Walking
  <1>9. CountInv'
    BY <1>1, <1>5 DEF ListingInv, CountInv, Undisturbed
  <1>10. LengthInv'
    <2> DEFINE items == Cardinality(Matches(query))
    <2>1. SUFFICES ASSUME Walking, Undisturbed
                   PROVE  /\ seen' \in Seq(Matches(query)) /\ data \in Seq(Matches(query))
                          /\ Len(seen') = IF passed' > items THEN items ELSE passed'
                          /\ Len(data) = Fullness(items, query)
      BY <1>1, <1>5 DEF LengthInv, Walking, Undisturbed, Fullness, skip
    <2>2. /\ seen \in Seq(Matches(query)) /\ data \in Seq(Matches(query))
          /\ Len(seen) = IF passed > items THEN items ELSE passed
          /\ Len(data) = Fullness(items, query)
      BY <1>1, <2>1 DEF ListingInv, LengthInv
    <2>3. passed = skip(query) /\ passed' = skip(query) + query.limit
      BY <1>1, <1>2 DEF passed
    <2>4. items \in Nat /\ skip(query) \in Nat
      BY <1>2, MatchesAreFinite, SkipFacts
    <2>5. seen' \in Seq(Matches(query)) /\ Len(seen') = Len(seen) + Len(data)
      BY <1>1, <2>2
    <2> HIDE DEF items
    <2>6. Len(seen') = IF passed' > items THEN items ELSE passed'
      BY <1>2, <2>2, <2>3, <2>4, <2>5 DEF Fullness
    <2> QED
      BY <2>2, <2>5, <2>6
  <1> QED
    BY <1>3, <1>4, <1>6, <1>8, <1>9, <1>10 DEF ListingInv

\* A listing that fails.
LEMMA CommandFailsInv == ASSUME ListingInv, commandFails PROVE ListingInv'
  <1>1. /\ pc = "querying" /\ pc' = "idle" /\ query' = null /\ commands' = {} /\ data' = <<>>
        /\ totalItems' = 0 /\ docs' = docs /\ retired' = retired /\ seen' = <<>> /\ fromStart' = FALSE
        /\ written' = written /\ arrived' = arrived /\ changed' = changed
    BY DEF commandFails, history
  <1>2. TypeOK'
    <2>1. totalItems' \in 0 .. Cardinality(Ids) /\ data' \in Seq(Ids) /\ seen' \in Seq(Ids)
      BY <1>1, MatchesAreFinite
    <2> QED
      BY <1>1, <2>1 DEF ListingInv, TypeOK
  <1>3. AskedInv' /\ BoundInv'
    BY <1>1, ListingAssumption DEF AskedInv, BoundInv
  <1>4. PageInv' /\ ReachInv' /\ CompleteInv' /\ CountInv' /\ LengthInv'
    BY <1>1 DEF PageInv, ReachInv, CompleteInv, CountInv, LengthInv, Walking
  <1> QED
    BY <1>2, <1>3, <1>4 DEF ListingInv

\* A write is recorded: in the page whose commands it separates, and in the walk.
LEMMA WriteInv == ASSUME ListingInv, write PROVE ListingInv'
  <1> DEFINE touched == {id \in Ids : docs'[id] # docs[id]}
  <1>1. /\ Registry!Write
        /\ written' = IF Cardinality(commands) = 1 THEN written \cup touched ELSE written
        /\ changed' = (changed \/ \E id \in touched : docs[id] # null)
        /\ arrived' = IF changed' THEN {} ELSE arrived \cup touched
        /\ pc' = pc /\ query' = query /\ commands' = commands /\ data' = data
        /\ totalItems' = totalItems /\ seen' = seen /\ fromStart' = fromStart
    BY DEF write, reader
  <1>2. docs' \in [Ids -> Document \cup {null}] /\ retired' \subseteq Ids
    BY <1>1, WriteType DEF ListingInv, TypeOK
  <1>3. TypeOK'
    <2>1. written' \subseteq Ids /\ arrived' \subseteq Ids /\ changed' \in BOOLEAN
      BY <1>1 DEF ListingInv, TypeOK
    <2> QED
      BY <1>1, <1>2, <2>1 DEF ListingInv, TypeOK
  <1>4. AskedInv' /\ BoundInv'
    BY <1>1 DEF ListingInv, AskedInv, BoundInv
  <1>5. \A n : Fullness(n, query)' = Fullness(n, query)
    BY <1>1 DEF Fullness, skip
  <1>6. passed' = passed /\ given' = given /\ Walking' = Walking
    BY <1>1 DEF passed, given, Walking, skip
  <1>7. PageInv'
    <2>1. SUFFICES ASSUME pc \in {"querying", "answered"} PROVE PageInv'
      BY <1>1 DEF PageInv
    <2>2. CASE commands = {"countDocuments"} \/ commands = {"find"}
      <3>1. written' = written \cup touched
        <4>1. Cardinality(commands) = 1
          BY <2>2, FS_Singleton
        <4> QED
          BY <1>1, <4>1
      <3>2. ASSUME NEW M \in SUBSET Ids, MatchedBut(M) PROVE MatchedBut(M)'
        <4>1. \A id \in Ids \ touched : id \in Matches(query)' <=> id \in Matches(query)
          BY <1>1 DEF Matches
        <4>2. Matches(query) \subseteq Ids /\ Matches(query)' \subseteq Ids
          BY DEF Matches
        <4>3. \A id \in Ids : id \in M \ written <=> id \in Matches(query) \ written
          BY <3>2 DEF MatchedBut
        <4> HIDE DEF touched
        <4>4. M \ written' = Matches(query)' \ written'
          BY <3>1, <4>1, <4>2, <4>3
        <4> QED
          BY <4>4 DEF MatchedBut
      <3>3. commands' = commands /\ commands # {} /\ data' = data /\ totalItems' = totalItems
        BY <1>1, <2>2
      <3>4. CASE commands = {"countDocuments"}
        <4>1. PICK M \in SUBSET Ids : MatchedBut(M) /\ Len(data) = Fullness(Cardinality(M), query)
          BY <2>1, <3>4 DEF ListingInv, PageInv
        <4>2. commands' # {"find"}
          BY <3>3, <3>4
        <4> QED
          BY <1>5, <3>2, <3>3, <4>1, <4>2 DEF PageInv
      <3>5. CASE commands = {"find"}
        <4>1. PICK M \in SUBSET Ids : MatchedBut(M) /\ totalItems = Cardinality(M)
          BY <2>1, <3>5 DEF ListingInv, PageInv
        <4>2. commands' # {"countDocuments"}
          BY <3>3, <3>5
        <4> QED
          BY <3>2, <3>3, <4>1, <4>2 DEF PageInv
      <3> QED
        BY <2>2, <3>4, <3>5
    <2>3. CASE commands = {}
      <3>1. written' = written
        <4>1. Cardinality(commands) = 0
          BY <2>3, FS_EmptySet
        <4> QED
          BY <1>1, <4>1
      <3>2. commands' = {} /\ commands' # {"find"} /\ commands' # {"countDocuments"}
        BY <1>1, <2>3
      <3> QED
        BY <1>1, <1>5, <2>1, <2>3, <3>1, <3>2 DEF ListingInv, PageInv
    <2> QED
      BY <1>1, <2>2, <2>3 DEF PageInv
  <1>8. ASSUME ~ changed'
        PROVE  /\ ~ changed /\ arrived' = arrived \cup touched
               /\ \A id \in Ids : docs[id] # null => docs'[id] = docs[id]
               /\ SortKeysDiffer' => SortKeysDiffer
               /\ \A m \in Matches(query)' \ arrived' : m \in Matches(query) \ arrived
    <2>1. ~ changed /\ arrived' = arrived \cup touched
      BY <1>1, <1>8
    <2>2. \A id \in Ids : docs[id] # null => docs'[id] = docs[id]
      BY <1>1, <1>8
    <2>3. SortKeysDiffer' => SortKeysDiffer
      BY <1>1, <2>2, CreationsKeepRanks
    <2>4. ASSUME NEW m \in Matches(query)' \ arrived' PROVE m \in Matches(query) \ arrived
      <3>1. m \in Ids /\ m \notin arrived
        BY <2>1 DEF Matches
      <3>2. docs'[m] = docs[m]
        BY <2>1, <3>1
      <3> QED
        BY <1>1, <3>1, <3>2 DEF Matches
    <2> QED
      BY <2>1, <2>2, <2>3, <2>4
  <1>9. ReachInv'
    <2>1. SUFFICES ASSUME Walking, SortKeysDiffer', ~ changed',
                          NEW m \in Matches(query)' \ arrived'
                   PROVE  /\ m \notin Range(seen) => passed <= Cardinality(Before(query, m)')
                          /\ "find" \notin commands /\ m \notin given =>
                                query.page * query.limit <= Cardinality(Before(query, m)')
      BY <1>1, <1>6 DEF ReachInv
    <2>2. m \in Matches(query) \ arrived /\ SortKeysDiffer /\ ~ changed
      BY <1>8, <2>1
    <2>3. /\ m \notin Range(seen) => passed <= Cardinality(Before(query, m))
          /\ "find" \notin commands /\ m \notin given =>
                query.page * query.limit <= Cardinality(Before(query, m))
      BY <2>1, <2>2 DEF ListingInv, ReachInv
    <2>4. /\ Cardinality(Before(query, m)) \in Nat /\ Cardinality(Before(query, m)') \in Nat
          /\ Cardinality(Before(query, m)) <= Cardinality(Before(query, m)')
      BY <1>1, <1>8, <2>1, <2>2, CreationsKeepRanks
    <2> DEFINE end == query.page * query.limit
               old == Cardinality(Before(query, m))
               new == Cardinality(Before(query, m)')
    <2>5. end \in Nat /\ passed \in Nat
      BY <2>1, QueryFacts DEF ListingInv, Walking, passed
    <2> HIDE DEF end, old, new
    <2>6. old \in Nat /\ new \in Nat /\ old <= new
      BY <2>4 DEF old, new
    <2>7. (passed <= old => passed <= new) /\ (end <= old => end <= new)
      BY <2>5, <2>6
    <2> QED
      BY <2>3, <2>7 DEF old, new, end
  <1>10. CompleteInv'
    <2>1. SUFFICES ASSUME Walking, SortKeysDiffer', ~ changed', commands = {}, written' = {},
                          totalItems <= query.page * query.limit,
                          NEW m \in Matches(query)' \ arrived'
                   PROVE  m \in given
      BY <1>1, <1>6 DEF CompleteInv
    <2>2. m \in Matches(query) \ arrived /\ SortKeysDiffer /\ ~ changed
      BY <1>8, <2>1
    <2>3. written = {}
      BY <1>1, <2>1
    <2> QED
      BY <2>1, <2>2, <2>3 DEF ListingInv, CompleteInv
  <1>11. ASSUME Undisturbed' PROVE Undisturbed /\ Matches(query)' = Matches(query)
    <2>1. ~ changed /\ arrived = {} /\ touched = {}
      BY <1>1, <1>11 DEF Undisturbed
    <2>2. \A id \in Ids : docs'[id] = docs[id]
      BY <2>1
    <2> QED
      BY <1>1, <2>1, <2>2 DEF Undisturbed, Matches
  <1>12. CountInv'
    BY <1>1, <1>11 DEF ListingInv, CountInv
  <1>13. LengthInv'
    BY <1>1, <1>5, <1>6, <1>11 DEF ListingInv, LengthInv
  <1> QED
    BY <1>3, <1>4, <1>7, <1>9, <1>10, <1>12, <1>13 DEF ListingInv

\* A step that changes nothing.
LEMMA StutterInv == ASSUME ListingInv, UNCHANGED vars PROVE ListingInv'
  <1>1. /\ docs' = docs /\ retired' = retired /\ pc' = pc /\ query' = query /\ commands' = commands
        /\ data' = data /\ totalItems' = totalItems /\ seen' = seen /\ fromStart' = fromStart
        /\ written' = written /\ arrived' = arrived /\ changed' = changed
    BY DEF vars, reader, history
  <1>2. /\ Matches(query)' = Matches(query) /\ SortKeysDiffer' = SortKeysDiffer
        /\ \A m : Before(query, m)' = Before(query, m)
    BY <1>1, SameMatches
  <1>3. TypeOK' /\ AskedInv' /\ BoundInv'
    BY <1>1 DEF ListingInv, TypeOK, AskedInv, BoundInv
  <1>4. passed' = passed /\ given' = given
    BY <1>1 DEF passed, given, skip
  <1>5. PageInv'
    BY <1>1, <1>2 DEF ListingInv, PageInv, MatchedBut, Fullness, skip
  <1>6. ReachInv' /\ CompleteInv'
    BY <1>1, <1>2, <1>4 DEF ListingInv, ReachInv, CompleteInv, Walking
  <1>7. CountInv' /\ LengthInv'
    BY <1>1, <1>2, <1>4 DEF ListingInv, CountInv, LengthInv, Walking, Undisturbed, skip, Fullness
  <1> QED
    BY <1>3, <1>5, <1>6, <1>7 DEF ListingInv

-----------------------------------------------------------------------------
(* Theorems.                                                                *)

\* The inductive invariant of a listing: what one command returned fits what the other
\* returned or would return, and what a walk has not given stands behind where it is.
THEOREM ListingSpecInv == Spec => []ListingInv
  <1>1. Init => ListingInv
    BY InitInv
  <1>2. ListingInv /\ [Next]_vars => ListingInv'
    <2> SUFFICES ASSUME ListingInv, [Next]_vars PROVE ListingInv'
      OBVIOUS
    <2> QED
      BY ListShipmentsInv, ListNextPageInv, FindInv, CountDocumentsInv, ResumeListInv,
         CommandFailsInv, WriteInv, StutterInv DEF Next
  <1> QED
    BY <1>1, <1>2, PTL DEF Spec

\* Every query reaches MongoDB with a page of at least 1 (the skip is never negative),
\* and counts and pages are of stored shipments.
THEOREM ListingSpecTypeOK == Spec => []TypeOK
  <1>1. ListingInv => TypeOK
    BY DEF ListingInv
  <1> QED
    BY <1>1, ListingSpecInv, PTL

\* Whatever limit is asked for, an answer carries at most MAX_LIMIT shipments.
THEOREM ListingSpecPageIsBounded == Spec => []PageIsBounded
  <1>1. ListingInv => PageIsBounded
    BY DEF ListingInv, BoundInv, PageIsBounded
  <1> QED
    BY <1>1, ListingSpecInv, PTL

\* A page is as full as its metadata says, but for the shipments written between its two
\* commands, and hasNextPage is true just when shipments remain.
THEOREM ListingSpecMetadataFitsPage == Spec => []MetadataFitsPage
  <1>1. ASSUME ListingInv PROVE MetadataFitsPage
    <2> SUFFICES ASSUME pc = "answered"
                 PROVE  /\ \E n \in 0 .. Cardinality(Ids) :
                              /\ Len(data) = Fullness(n, query)
                              /\ n <= totalItems + Cardinality(written)
                              /\ totalItems <= n + Cardinality(written)
                        /\ hasNextPage <=> skip(query) + query.limit < totalItems
      BY DEF MetadataFitsPage
    <2>1. \E n \in 0 .. Cardinality(Ids) :
            /\ Len(data) = Fullness(n, query)
            /\ n <= totalItems + Cardinality(written)
            /\ totalItems <= n + Cardinality(written)
      BY <1>1 DEF ListingInv, AskedInv, PageInv
    <2>2. /\ query.page \in Nat /\ query.limit \in Nat /\ query.limit >= 1
          /\ skip(query) + query.limit = query.page * query.limit
      BY <1>1, QueryFacts DEF ListingInv
    <2>3. totalItems \in Nat
      BY <1>1, MatchesAreFinite DEF ListingInv, TypeOK
    <2>4. hasNextPage <=> query.page * query.limit < totalItems
      BY <2>2, <2>3, CeilFacts DEF hasNextPage
    <2> QED
      BY <2>1, <2>2, <2>4
  <1> QED
    BY <1>1, ListingSpecInv, PTL

\* At the end of a walk the client has gone past every item counted.
LEMMA WalkEndFacts ==
    ASSUME ListingInv, WalkEnded
    PROVE  /\ totalItems \in Nat /\ passed \in Nat
           /\ passed = query.page * query.limit /\ totalItems <= passed
           /\ commands = {}
  <1>1. pc = "answered" /\ ~ hasNextPage
    BY DEF WalkEnded
  <1>2. totalItems \in Nat
    BY MatchesAreFinite DEF ListingInv, TypeOK
  <1>3. query.page \in Nat /\ query.limit \in Nat /\ query.limit >= 1 /\ query.page * query.limit \in Nat
    BY <1>1, QueryFacts DEF ListingInv
  <1>4. ~ (query.page * query.limit < totalItems)
    BY <1>1, <1>2, <1>3, CeilFacts DEF hasNextPage
  <1> QED
    BY <1>1, <1>2, <1>3, <1>4 DEF passed, ListingInv, AskedInv

\* An undisturbed walk that has ended has given as many shipments as match.
LEMMA WalkLength ==
    ASSUME ListingInv, WalkEnded, Undisturbed
    PROVE  LET items == Cardinality(Matches(query)) IN
           /\ items \in Nat /\ Len(seen) = items
           /\ seen \in [1 .. items -> Matches(query)]
           /\ IsFiniteSet(Matches(query)) /\ IsFiniteSet(1 .. items)
           /\ Cardinality(1 .. items) = items
  <1> DEFINE items == Cardinality(Matches(query))
  <1>1. pc = "answered" /\ Walking
    BY DEF WalkEnded, Walking
  <1>2. totalItems = items /\ items \in Nat
    BY <1>1, WalkEndFacts, MatchesAreFinite DEF ListingInv, CountInv
  <1>3. seen \in Seq(Matches(query)) /\ Len(seen) = IF passed > items THEN items ELSE passed
    BY <1>1 DEF ListingInv, LengthInv
  <1>4. Len(seen) = items
    BY <1>2, <1>3, WalkEndFacts
  <1>5. seen \in [1 .. items -> Matches(query)]
    BY <1>3, <1>4
  <1> QED
    <2>1. IsFiniteSet(1 .. items) /\ Cardinality(1 .. items) = items
      BY <1>2, FS_Interval
    <2>2. IsFiniteSet(Matches(query))
      BY MatchesAreFinite
    <2> QED
      BY <1>2, <1>4, <1>5, <2>1, <2>2

\* A client that follows hasNextPage from page 1 while others only create shipments misses
\* none that was there, and has each exactly once if nobody writes, if no two matches
\* agree on the sort field.
THEOREM ListingSpecWalkListsEachOnce == Spec => []WalkListsEachOnce
  <1>1. ASSUME ListingInv PROVE WalkListsEachOnce
    <2> SUFFICES ASSUME WalkEnded, SortKeysDiffer, ~ changed, written = {}
                 PROVE  /\ Matches(query) \ arrived \subseteq Range(seen)
                        /\ arrived = {} => EachMatchOnce
      BY DEF WalkListsEachOnce
    <2>1. pc = "answered" /\ Walking /\ commands = {} /\ totalItems <= query.page * query.limit
      BY <1>1, WalkEndFacts DEF WalkEnded, Walking
    <2>2. Matches(query) \ arrived \subseteq Range(seen)
      BY <1>1, <2>1 DEF ListingInv, CompleteInv, given
    <2>3. ASSUME arrived = {} PROVE EachMatchOnce
      <3> DEFINE items == Cardinality(Matches(query))
      <3>1. /\ seen \in [1 .. items -> Matches(query)]
            /\ IsFiniteSet(Matches(query)) /\ IsFiniteSet(1 .. items)
            /\ Cardinality(1 .. items) = items
        BY <1>1, <2>3, WalkLength DEF Undisturbed
      <3> HIDE DEF items
      <3>2. \A m \in Matches(query) : \E k \in 1 .. items : seen[k] = m
        BY <2>2, <2>3, <3>1 DEF Range
      <3>3. seen \in Surjection(1 .. items, Matches(query))
        BY <3>1, <3>2 DEF Surjection
      <3>4. seen \in Injection(1 .. items, Matches(query))
        BY <3>1, <3>3, FS_Surjection DEF items
      <3> QED
        BY <3>1, <3>2, <3>4 DEF EachMatchOnce, SetToSeqs, Injection, IsInjective, items
    <2> QED
      BY <2>2, <2>3
  <1> QED
    BY <1>1, ListingSpecInv, PTL

\* Over any sort field, a walk misses a match only if it repeats another: it is exactly
\* as long as the list of matches, however find orders the ties of each page.
THEOREM ListingSpecWalkMissesOnlyByRepeating == Spec => []WalkMissesOnlyByRepeating
  <1>1. ASSUME ListingInv PROVE WalkMissesOnlyByRepeating
    <2> DEFINE items == Cardinality(Matches(query))
    <2> SUFFICES ASSUME WalkEnded, Undisturbed, IsInjective(seen)
                 PROVE  seen \in SetToSeqs(Matches(query))
      BY DEF WalkMissesOnlyByRepeating, EachMatchOnce
    <2>1. /\ seen \in [1 .. items -> Matches(query)]
          /\ IsFiniteSet(Matches(query)) /\ Cardinality(1 .. items) = items
      BY <1>1, WalkLength
    <2>2. seen \in Injection(1 .. items, Matches(query))
      BY <2>1 DEF Injection
    <2>3. seen \in Surjection(1 .. items, Matches(query))
      BY <2>1, <2>2, FS_Injection
    <2> QED
      BY <2>1, <2>2, <2>3 DEF SetToSeqs, Injection, Surjection, IsInjective
  <1> QED
    BY <1>1, ListingSpecInv, PTL

\* Where every text is found in itself when taken as a regular expression, a shipment is
\* found by its own texts: the patterns are all that stands against the documentation.
THEOREM ListingSpecTextIsFound ==
    ASSUME \A t \in Texts : t \in RegexMatches[t]
    PROVE  Spec => []TextIsFound
  <1>1. ASSUME ListingInv PROVE TextIsFound
    <2> DEFINE asked == {id \in Registry!Live : AsksFor(query.filters, docs[id])}
    <2> SUFFICES ASSUME pc = "answered", Undisturbed PROVE Cardinality(asked) <= totalItems
      BY DEF TextIsFound
    <2>1. query.filters \in Filters
      BY <1>1 DEF ListingInv, TypeOK, Queries
    <2>2. ASSUME NEW id \in asked PROVE id \in Matches(query)
      <3> DEFINE filters == query.filters
      <3>1. id \in Ids /\ docs[id] # null /\ docs[id] \in Document /\ AsksFor(filters, docs[id])
        BY <1>1, <2>2 DEF Registry!Live, ListingInv, TypeOK
      <3>2. /\ filters.status = undefined /\ filters.search = undefined
            /\ filters.startDate = undefined /\ filters.endDate = undefined
        BY <2>1, <3>1 DEF AsksFor, Filters
      <3>3. ASSUME NEW f \in FilteredFields, filters.text[f] # undefined
            PROVE  docs[id].text[f] \in RegexMatches[filters.text[f]]
        <4>1. docs[id].text[f] = filters.text[f]
          BY <3>1, <3>3 DEF AsksFor
        <4>2. docs[id].text[f] \in Texts
          BY <3>1, ListingAssumption DEF Document
        <4> QED
          BY <4>1, <4>2
      <3>4. Fits(filters, docs[id])
        BY <3>2, <3>3 DEF Fits
      <3> QED
        BY <3>1, <3>4 DEF Matches
    <2>3. Cardinality(asked) <= Cardinality(Matches(query))
      BY <2>2, MatchesAreFinite, FS_Subset
    <2>4. totalItems = Cardinality(Matches(query))
      BY <1>1 DEF ListingInv, AskedInv, CountInv
    <2> QED
      BY <2>3, <2>4
  <1> QED
    BY <1>1, ListingSpecInv, PTL
=============================================================================
