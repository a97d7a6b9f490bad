---------------------------- MODULE ShipmentListing ----------------------------
(***************************************************************************)
(* GET /shipments: a client that reads a listing page by page, while other *)
(* requests write.  What those requests do to the collection is            *)
(* ShipmentRegistry; that the service does nothing else is shown with      *)
(* ShipmentService.                                                        *)
(*                                                                         *)
(* One page is two commands sent together, find and countDocuments, which  *)
(* MongoDB executes in any order with writes between them.  Documents that *)
(* agree on the sort field come in any order, and each find may choose     *)
(* another one.                                                            *)
(***************************************************************************)
EXTENDS ShipmentTypes, Integers, Sequences, SequencesExt

CONSTANTS
    Ids,             \* ObjectIds
    CreateBodies,    \* bodies of the other requests
    UpdateBodies,
    FilteredFields,  \* text fields with a filter of their own (origin, destination)
    SearchedFields,  \* text fields `search` looks into (senderName, receiverName)
    RegexMatches,    \* the texts MongoDB finds each text in, as a regular expression
    NoRegex,         \* texts that are no regular expression
    RawQueries,      \* query strings after Joi
    DEFAULT_LIMIT,   \* DEFAULT_PAGINATION.limit
    MAX_LIMIT        \* the largest page

\* Tracking numbers and texts stand in the order of the strings they are.  Joi has
\* refused a startDate after the endDate before parseQueryParams does.
ASSUME ListingAssumption ==
    /\ TrackingNumbers \subseteq Nat /\ Texts \subseteq Nat
    /\ FilteredFields \cup SearchedFields \subseteq TextFields
    /\ RegexMatches \in [Texts -> SUBSET Texts] /\ NoRegex \subseteq Texts
    /\ DEFAULT_LIMIT \in 1 .. MAX_LIMIT /\ MAX_LIMIT \in Nat
    /\ CreateBodies \subseteq CreateShipmentDTO /\ UpdateBodies \subseteq UpdateShipmentDTO
    /\ IsFiniteSet(Ids)

VARIABLES
    docs,          \* the collection
    retired,       \* history: ids whose shipment was removed
    pc,            \* the listing request: "idle", "querying" or "answered"
    query,         \* its parsed parameters, or null
    commands,      \* the commands the database has still to execute
    data,          \* ids of the shipments find returned
    totalItems,    \* what countDocuments returned
    seen,          \* history: ids on the pages of this walk, in order
    fromStart,     \* history: the walk began with page 1
    written,       \* history: ids written between the two commands of the page
    changed,       \* history: a shipment was updated or removed since the walk began
    arrived        \* history: until then, ids of the shipments created since it began

reader  == <<pc, query, commands, data, totalItems, seen, fromStart>>
history == <<written, changed, arrived>>
vars    == <<docs, retired, reader, history>>

Registry == INSTANCE ShipmentRegistry WITH indexed <- TRUE

-----------------------------------------------------------------------------
(* The query.                                                               *)

SortFields == {"createdAt", "updatedAt", "status", "trackingNumber"} \cup TextFields

Filters ==
    [status    : SHIPMENT_STATUSES \cup {undefined},
     text      : [FilteredFields -> Texts \cup {undefined}],
     search    : Texts \cup {undefined},
     startDate : Instants \cup {undefined},
     endDate   : Instants \cup {undefined}]

Queries ==
    [page : Nat, limit : Nat, sortBy : SortFields, order : {"asc", "desc"}, filters : Filters]

RawQueryParams ==
    [page    : Int \cup {undefined}, limit : Int \cup {undefined},
     sortBy  : SortFields \cup {undefined}, order : {"asc", "desc", undefined},
     filters : Filters]

ASSUME RawQueriesAssumption == RawQueries \subseteq RawQueryParams

\* Mutant: only what is left out gets the default; MongoDB takes a limit of 0 for
\* "no limit".
AtLeastOneUnchecked(value, default) == Given(value, default)

AtLeastOne(value, default) == IF value = undefined \/ value < 1 THEN default ELSE value

\* Mutant: the cap forgotten.
parseQueryParamsUncapped(raw) ==
    [page    |-> AtLeastOne(raw.page, 1),
     limit   |-> AtLeastOne(raw.limit, DEFAULT_LIMIT),
     sortBy  |-> Given(raw.sortBy, "createdAt"),
     order   |-> IF raw.order = "asc" THEN "asc" ELSE "desc",
     filters |-> raw.filters]

\* Defaults for what is left out or below 1, and the cap on limit.
parseQueryParams(raw) ==
    LET limit == AtLeastOne(raw.limit, DEFAULT_LIMIT) IN
    [page    |-> AtLeastOne(raw.page, 1),
     limit   |-> IF limit > MAX_LIMIT THEN MAX_LIMIT ELSE limit,
     sortBy  |-> Given(raw.sortBy, "createdAt"),
     order   |-> IF raw.order = "asc" THEN "asc" ELSE "desc",
     filters |-> raw.filters]

\* Mutant: pages counted from 0.
skipFromZero(q) == q.page * q.limit

skip(q) == (q.page - 1) * q.limit

\* Mutant: Math.floor.
totalPagesFloor(items, limit) == items \div limit

\* Math.ceil(totalItems / limit).
totalPages(items, limit) == (items + limit - 1) \div limit

hasNextPage == query.page < totalPages(totalItems, query.limit)

-----------------------------------------------------------------------------
(* What MongoDB answers.                                                    *)

\* $regex takes the text of a filter as a pattern.
Fits(filters, document) ==
    /\ filters.status \in {undefined, document.status}
    /\ \A f \in FilteredFields :
          filters.text[f] # undefined => document.text[f] \in RegexMatches[filters.text[f]]
    /\ filters.search # undefined =>
          \E f \in SearchedFields : document.text[f] \in RegexMatches[filters.search]
    /\ filters.startDate # undefined => filters.startDate <= document.createdAt
    /\ filters.endDate # undefined => document.createdAt <= filters.endDate

Matches(q) == {id \in Ids : docs[id] # null /\ Fits(q.filters, docs[id])}

\* MongoDB refuses a query with a pattern that is no regular expression.
Understood(filters) ==
    /\ \A f \in FilteredFields : filters.text[f] \notin NoRegex
    /\ filters.search \notin NoRegex

\* Status values sort as strings.
SortKey(document, sortBy) ==
    CASE sortBy = "createdAt"      -> document.createdAt
      [] sortBy = "updatedAt"      -> document.updatedAt
      [] sortBy = "trackingNumber" -> document.trackingNumber
      [] sortBy = "status"         ->
           [cancelled |-> 1, delivered |-> 2, in_transit |-> 3, pending |-> 4][document.status]
      [] OTHER                     -> document.text[sortBy]

InOrder(q, i, j) ==
    IF q.order = "asc" THEN SortKey(docs[i], q.sortBy) <= SortKey(docs[j], q.sortBy)
                       ELSE SortKey(docs[i], q.sortBy) >= SortKey(docs[j], q.sortBy)

\* The orders in which `.sort({[sortBy]: order})` may deliver the matches.
Sorted(q) ==
    {s \in SetToSeqs(Matches(q)) :
        \A m, n \in DOMAIN s : m < n => InOrder(q, s[m], s[n])}

\* `.skip(skip).limit(limit)`.
Page(s, q) ==
    SubSeq(s, skip(q) + 1,
           IF q.limit = 0 \/ skip(q) + q.limit > Len(s) THEN Len(s) ELSE skip(q) + q.limit)

-----------------------------------------------------------------------------
TypeOK ==
    /\ docs \in [Ids -> Document \cup {null}]
    /\ retired \subseteq Ids
    /\ pc \in {"idle", "querying", "answered"}
    /\ IF pc = "idle" THEN query = null ELSE query \in Queries /\ query.page >= 1
    /\ commands \subseteq {"find", "countDocuments"}
    /\ data \in Seq(Ids) /\ seen \in Seq(Ids)
    /\ totalItems \in 0 .. Cardinality(Ids)
    /\ fromStart \in BOOLEAN
    /\ written \subseteq Ids /\ arrived \subseteq Ids /\ changed \in BOOLEAN

Init ==
    /\ Registry!Init
    /\ pc = "idle" /\ query = null
    /\ commands = {} /\ data = <<>> /\ totalItems = 0
    /\ seen = <<>> /\ fromStart = FALSE
    /\ written = {} /\ arrived = {} /\ changed = FALSE

\* A client asks for a page: both commands are sent before either is awaited.
Ask(q) ==
    /\ query' = q
    /\ pc' = "querying"
    /\ commands' = {"find", "countDocuments"}
    /\ data' = <<>> /\ totalItems' = 0
    /\ written' = {}
    /\ UNCHANGED <<docs, retired>>

listShipments ==
    /\ pc \in {"idle", "answered"}
    /\ \E raw \in RawQueries :
         /\ Ask(parseQueryParams(raw))
         /\ fromStart' = (parseQueryParams(raw).page = 1)
    /\ seen' = <<>>
    /\ arrived' = {} /\ changed' = FALSE

\* The client goes on with the page after the one it got, as hasNextPage tells it.
listNextPage ==
    /\ pc = "answered" /\ hasNextPage
    /\ Ask([query EXCEPT !.page = query.page + 1])
    /\ UNCHANGED <<seen, fromStart, arrived, changed>>

find ==
    /\ pc = "querying" /\ "find" \in commands
    /\ Understood(query.filters)
    /\ commands' = commands \ {"find"}
    /\ \E s \in Sorted(query) : data' = Page(s, query)
    /\ UNCHANGED <<docs, retired, pc, query, totalItems, seen, fromStart, history>>

\* Mutant: the count leaves the filter out.
countAllDocuments ==
    /\ pc = "querying" /\ "countDocuments" \in commands
    /\ Understood(query.filters)
    /\ commands' = commands \ {"countDocuments"}
    /\ totalItems' = Cardinality(Registry!Live)
    /\ UNCHANGED <<docs, retired, pc, query, data, seen, fromStart, history>>

countDocuments ==
    /\ pc = "querying" /\ "countDocuments" \in commands
    /\ Understood(query.filters)
    /\ commands' = commands \ {"countDocuments"}
    /\ totalItems' = Cardinality(Matches(query))
    /\ UNCHANGED <<docs, retired, pc, query, data, seen, fromStart, history>>

\* Promise.all resolves when both commands have, and rejects with the first failure.
resumeList ==
    /\ pc = "querying" /\ commands = {}
    /\ pc' = "answered"
    /\ seen' = seen \o data
    /\ UNCHANGED <<docs, retired, query, commands, data, totalItems, fromStart, history>>

\* A command fails, or its pattern is refused: the client is answered 500, and its walk
\* is over.
commandFails ==
    /\ pc = "querying" /\ commands # {}
    /\ pc' = "idle" /\ query' = null
    /\ commands' = {} /\ data' = <<>> /\ totalItems' = 0
    /\ seen' = <<>> /\ fromStart' = FALSE
    /\ UNCHANGED <<docs, retired, history>>

\* Another request changes the collection.
write ==
    LET touched == {id \in Ids : docs'[id] # docs[id]} IN
    /\ Registry!Write
    /\ written' = IF Cardinality(commands) = 1 THEN written \cup touched ELSE written
    /\ changed' = (changed \/ \E id \in touched : docs[id] # null)
    /\ arrived' = IF changed' THEN {} ELSE arrived \cup touched
    /\ UNCHANGED reader

Next ==
    \/ listShipments \/ listNextPage
    \/ find \/ countDocuments \/ resumeList \/ commandFails
    \/ write

Spec == Init /\ [][Next]_vars

-----------------------------------------------------------------------------
(* Properties.                                                              *)

\* No answer carries more than MAX_LIMIT shipments, whatever limit is asked for.
PageIsBounded == pc = "answered" => Len(data) <= MAX_LIMIT

\* How many of n shipments are on the page a query asks for.
Fullness(n, q) ==
    IF n <= skip(q) THEN 0 ELSE IF n - skip(q) < q.limit THEN n - skip(q) ELSE q.limit

\* A page fits its metadata but for the shipments written between its two commands:
\* it is as full as for a number of items no further from totalItems than those are
\* many, the very number if there were none; and hasNextPage is true just when
\* totalItems has items after it.
MetadataFitsPage ==
    pc = "answered" =>
        /\ \E n \in 0 .. Cardinality(Ids) :
              /\ Len(data) = Fullness(n, query)
              /\ n <= totalItems + Cardinality(written)
              /\ totalItems <= n + Cardinality(written)
        /\ hasNextPage <=> skip(query) + query.limit < totalItems

WalkEnded   == pc = "answered" /\ ~ hasNextPage /\ fromStart
Undisturbed == ~ changed /\ arrived = {}

EachMatchOnce == seen \in SetToSeqs(Matches(query))

SortKeysDiffer ==
    \A i, j \in Matches(query) :
        SortKey(docs[i], query.sortBy) = SortKey(docs[j], query.sortBy) => i = j

\* A client that follows hasNextPage from page 1 misses no match that was there when it
\* began, though others go on creating shipments, if no two matches agree on the sort
\* field and no shipment arrives between the two commands of its last page; if nobody
\* writes at all, it has seen every match exactly once.
WalkListsEachOnce ==
    WalkEnded /\ SortKeysDiffer /\ ~ changed /\ written = {} =>
        /\ Matches(query) \ arrived \subseteq Range(seen)
        /\ arrived = {} => EachMatchOnce

\* While nobody writes, without the condition on the sort field: "Retrieve all shipments
\* with pagination, filtering, and sorting".
AnyWalkListsEachOnce == WalkEnded /\ Undisturbed => EachMatchOnce

\* Ties or not, such a walk is as long as the list of matches: it misses a shipment
\* only if it repeats another, so a client that got none twice got them all.
WalkMissesOnlyByRepeating == WalkEnded /\ Undisturbed /\ IsInjective(seen) => EachMatchOnce

\* "Filter by origin (partial match, case-insensitive)": a shipment whose origin is the
\* very text a client asks for is among those counted.
AsksFor(filters, document) ==
    /\ filters = [filters EXCEPT !.status = undefined, !.search = undefined,
                                 !.startDate = undefined, !.endDate = undefined]
    /\ \A f \in FilteredFields : filters.text[f] \in {undefined, document.text[f]}

TextIsFound ==
    pc = "answered" /\ Undisturbed =>
        Cardinality({id \in Registry!Live : AsksFor(query.filters, docs[id])}) <= totalItems

=============================================================================
