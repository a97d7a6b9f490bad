# Verification of the Shipment Management API

TLA+ models of the Shipment Management API (Node.js, Express, Mongoose, MongoDB),
the TLC configurations that check them, and theorems about them checked by TLAPS.
Paths below are relative to the repository; the modules lie in this directory.

## 1. The system

| Part | State it keeps | Operations |
|---|---|---|
| Pipeline: `app.ts`, `routes/`, `security.ts`, `validateRequest.ts`, `shipmentValidator.ts` | counters of the rate limiter | headers, CORS, rate limit, body parsing, Joi validation, dispatch, 404 |
| Controller, service, repository | none between requests; per request the locals of its handler | create, get, update, delete, list |
| Collection (`shipmentModels.ts`, MongoDB) | the documents, the unique index on `trackingNumber` | insertOne, findOne, findOneAndUpdate, findOneAndDelete, find, countDocuments |
| Error handling: `asyncHandler.ts`, `errorHanlder.ts`, `ApiError.ts` | none | from any error to a status code and an envelope; process-level listeners |
| Lifecycle: `server.ts`, `database.ts` | HTTP server, `connectionState`, Mongoose's `readyState` | start, connect, connection events, signals, shutdown |
| Health: `healthRoutes.ts` | none | `/health`, `/health/ready`, `/health/live` |
| Logger, Swagger, environment, envelopes | none | output, constants, formatting |

**How they interact.** A request passes the pipeline, whose last stage calls a
controller method through `asyncHandler`; the controller awaits the service, the
service awaits the repository, the repository awaits one MongoDB command (two in
parallel for a listing). There is no lock, no transaction and no shared variable:
requests meet only in the collection. A thrown error travels back along the awaits
to `asyncHandler`, which hands it to the error handler, the only place that answers
errors. Signals and connection events reach `server.ts` and `database.ts` as
callbacks at any moment.

**What is hard.**

- *Interleaving.* `updateShipment` awaits twice: it reads the document, checks the
  status transition against what it read, and updates by id alone. Other requests
  run in between. Create, get and delete await once.
- *Two commands for one answer.* A listing's `find` and `countDocuments` see
  different collections when a write comes between them, and each page of a walk is
  another pair.
- *Chance.* A tracking number is drawn at random and checked by nobody but the
  unique index.
- *Failure.* A command may fail before it is executed, or be executed and its
  answer lost, or be executed after its handler gave up or its process ended; the
  client gets 500 or a cut connection in all cases, and may try again.
- *A new database.* The unique index is built in the background while requests are
  served; what they stored may keep it from being built, and nobody is told.
- *Lifecycle.* Two sets of signal handlers, and a shutdown that waits neither for
  `server.close` nor for requests in flight.

**What makes each part correct.**

- Single-shipment requests: status codes tell what happened; an acknowledged
  shipment is stored; updates merge; a removal is final and acknowledged once;
  tracking numbers are unique once the index is there; statuses follow `STATUS_TRANSITIONS`; every request
  is answered. What a client was told stays true whatever fails afterwards.
- Listing: a page is bounded, its metadata fits it, a walk over the pages
  shows every match exactly once, and a filter finds what it names.
- Pipeline: nothing invalid reaches a handler; every request gets one documented
  answer; the limiter admits what it promises.
- Lifecycle: requests are served only with a connection; a signal ends the process;
  requests in flight are finished before it does; probes tell the truth.

## 2. Modules

| Module | What it is |
|---|---|
| `ShipmentTypes` | statuses and transitions, documents, bodies, `newShipment`, `applySet` |
| `ShipmentRegistry` | abstract specification: what the API promises about stored shipments, each operation one step |
| `ShipmentService` | POST, GET, PUT, DELETE cut at their awaits, for any number of overlapping requests |
| `ShipmentServiceProofs` | theorems about `ShipmentService`, including that it implements `ShipmentRegistry` |
| `ShipmentDelivery` | `ShipmentService` composed with the process it runs in and the database behind it: exits, restarts, timeouts, late commands, the index |
| `ShipmentDeliveryProofs` | theorems about `ShipmentDelivery`, on top of those about `ShipmentService` |
| `ShipmentListing`, `ShipmentListingProofs` | GET of a listing page by page, in an environment that is `ShipmentRegistry`; theorems about it |
| `ServerLifecycle`, `ServerLifecycleProofs` | the process: start-up, connection events, HTTP connections, signals, exit; theorems about it |
| `RequestPipeline`, `RequestPipelineProofs` | CORS, limiter, parser, routes and validators, error answers; theorems about them |
| `MCShipmentService`, `MCShipmentDelivery`, `MCShipmentListing`, `MCServerLifecycle`, `MCRequestPipeline` | instances for TLC |

A module holds the model of a component and the properties the runs check; the inductive
invariants, and what only the theorems say, stand at the head of its `Proofs` module.

### ShipmentService

A request is cut exactly where its handler awaits a database command, because Node
runs everything between two awaits without interruption and MongoDB executes one
command on one document atomically.

| Code | Actions |
|---|---|
| `createShipment` → `repository.create` → `save()` | `createShipment`, `insertOne` |
| `getShipmentById` → `findById` | `getShipmentById`, `findOne`, `resumeGet` |
| `updateShipment` → `findById`, check, `findByIdAndUpdate` | `updateShipment`, `findOne`, `resumeUpdate`, `findOneAndUpdate` |
| `deleteShipment` → `findByIdAndDelete` | `deleteShipment`, `findOneAndDelete` |
| a rejected command | `commandFails`, and the second disjunct of `ResolveUnlessLost` and `NotFoundUnlessLost` |
| `res.status(..).json(..)` | `respond` |

`docs` is the collection, `allotted` the ObjectIds given to new documents, `now` the
clock; per client `pc` says where the request stands, `call` what it asks for,
`held` the document its handler keeps across an await, `stamp` the `updatedAt` that
Mongoose put into the update command, `outcome` the answer. `retired`, `overtaken`
and `applied` are history variables: no guard reads them.

A create, a delete and the second half of an update do nothing after their command
but turn its answer into a response, which no other request can see; the model does
that in the step that executes the command. `findById` is followed by a check and
another command, so its continuation (`resumeGet`, `resumeUpdate`) is a step of its
own and other requests run before it.

Abstractions: the four text fields are one function over `TextFields`; bodies are
those Joi accepts; ObjectIds are unique; the driver's retryable writes make a write
happen at most once. In `ShipmentService` alone the unique index is in place, and a
command whose answer is lost was executed before the 500 is sent or never;
`ShipmentDelivery` lifts both. `getShipmentByTrackingNumber` and `exists` are not
reached by any route. The checks in the service that Joi has already made
(`validateObjectId`, the status list in `createShipment`) cannot fail.

`ShipmentRegistry` promises unique tracking numbers from the moment `indexed` is true;
`ShipmentService` implements it with `indexed` always true, `ShipmentDelivery` with
`index = "built"`.

### ShipmentDelivery

The actions of `ShipmentService` run while the process is up (`request`, `serve`,
`answer`), with `insertOneUnindexed` in place of `insertOne` before the index is there.

| Code | Actions |
|---|---|
| `socketTimeoutMS` of `database.connect` | `commandTimesOut`: the handler rejects, the write command becomes late |
| `process.exit` of `gracefulShutdown`, of the listeners, a crash | `exit`: all handlers are gone, their write commands become late |
| MongoDB | `executeLate`: a late command is executed, at any time or never |
| the platform restarts the process, `startServer` | `start` |
| `unique: true` of `trackingNumber`, Mongoose's `autoIndex` | `buildIndex`: it succeeds if the stored numbers differ, else fails unseen until the next start |

`late` holds the late commands with what was put into them; nothing orders them. `sure`
marks requests sent for a shipment that was already acknowledged; `acked`, `refused`
and `gone` collect what clients were told by 201, by 4xx to a creation, and by 200 or
404 to a request for a shipment known to exist. These and the `overtaken` of a late
command are history; `lost` only bounds how often commands become late. A client's
retry is a `request` like any other: the code cannot tell it from a new one. A late
`findOne` has no effect and is dropped. Start-up itself, with its failures, is
`ServerLifecycle`; what matters to the collection is only when handlers vanish.

### ShipmentListing

`listShipments` parses the query (`parseQueryParams`) and sends both commands;
`find` and `countDocuments` execute in any order; `resumeList` is the continuation
of `Promise.all`, `commandFails` its rejection. `listNextPage` is a client that
follows `hasNextPage` (it is no code of the repository). `write` is any step of the
registry. `written` holds the ids written between the two commands of a page, `arrived`
the ids of the shipments created since the walk began, and `changed` tells that one was
updated or removed since; all three are history. `Sorted` is every order
the database may deliver: it respects the sort field and nothing else. `Fits` is the
query built from the filters. A filter text is a regular expression to MongoDB:
`RegexMatches` gives the texts each text is found in and `NoRegex` those that are no
regular expression, with which a command can only fail (`Understood`). Texts and
tracking numbers are numbered in the order in which they sort.

### ServerLifecycle

One action is one turn of Node's event loop. `readyState` is Mongoose's, and
`connectionState` the copy `database.ts` keeps of it from events, `ready` what
`GET /health/ready` makes of both; `closing` tells that a handler awaits
`connection.close()`; `server` is the HTTP server, `busy` and `idle` its
connections with and without a request in flight.

| Code | Actions |
|---|---|
| `startServer`, `database.connect` | `connectSucceeds`, `listenFails`, `connectFails` |
| listeners of `mongoose.connection` | `onConnected`, `onDisconnected`, `onError` |
| HTTP clients | `accept`, `answer`, `nextRequest`, `hangUp` |
| both handlers of a signal | `signalDisconnected` (the flag says there is no connection), `signalConnected` |
| `database.disconnect` settling | `mongooseCloses`, `mongooseCloseFails` |
| `setupErrorListeners` | `unhandled` |

Listening follows connecting in the same turn, since `app.listen` without a host binds
at once. Both handlers of a signal run in one turn up to their awaits. `server.close`
may or may not drop idle connections: Node does since version 19, the project allows
18. A repeated `server.close` calls back with an error, which exits with 1
(`closeIfDrained`, `closedAgain`); where a second signal finds the flag cleared, because
the connection was lost or had an `error` while it was closing, that callback still runs
before the awaited `process.exit(0)`. The graceful handler of unhandled rejections in
`server.ts` never runs, because `setupErrorListeners` registered an exiting one before.
`lastEvent`, `failure` and `signals` (but for the count of `server.close` calls) are
history.

### RequestPipeline

A request passes `arrive` (CORS, then `rateLimit` for all but a preflight), `read` (parser, routes, validators, in
one turn once the body is there), and, if a handler takes it, `handle`. `Reads` is what
each controller method reads, `Validators` what each route checks. A request's faults
are the parts that are wrong with it; all ways of failing one Joi schema are one fault
(`params`, `query`, `body`), all bodies the parser refuses for another reason than their
JSON are another (`unreadable`: too large, cut off, unknown charset or encoding; all are
answered 500, since `normalizeError` knows a `SyntaxError` only), and so is an `:id` that
Express cannot decode (`uri`, answered 500 before any validator). `count` and `admit` are
what express-rate-limit does with `windowMs` and `max`.
Handlers settle with any answer they can give: what they do is `ShipmentService`.
`/api-docs` behaves like `root`. A client that goes away early is not modelled: its
answer goes nowhere and nothing else changes. In the test environment the limiter is
left out; the model is of the others.

## 3. What TLC checks

| Run | Question | Result |
|---|---|---|
| `service_race` | every overlap of two requests on one shipment | holds |
| `service_serial` | one request at a time: status rule, an answer to every request | holds |
| `service_status_race` | the documented status rule with two requests | violated |
| `delivery` | exits, timeouts, late commands, an index built on the way | holds |
| `delivery_late_write` | the documented status rule with one client and a timeout | violated |
| `listing` | pages, metadata and walks while others write, with ties and without | holds |
| `listing_ties` | an undisturbed walk over a field with ties | violated |
| `listing_patterns` | is a shipment found by its own origin | violated |
| `lifecycle` | start-up, losses, clients, repeated signals, failures in any order | holds |
| `lifecycle_cut_off` | is the server closed when a graceful shutdown exits | violated |
| `pipeline` | overlapping requests with every kind of fault | holds |
| `pipeline_proxy` | does each client have its own quota behind a proxy | violated |

The properties, and what breaks each of them (the operators marked "Mutant" in the
modules are plausible bugs; a property is kept only if one of them breaks it):

- `AnswersMatchEffects`: 4xx means nothing changed, 200/201 mean the write was made.
  Broken by leaving out the second null check of `updateShipment`.
- `UpdateAnswerShowsUpdate`: the answer shows the new values on the shipment that was
  checked. Broken without `new: true`.
- `OnlyRequestedFieldsChange`: no lost update of other fields. Broken by saving the
  document that was read.
- `StatusBrokenOnlyByRace`: the update that breaks the rule is one that another request's
  write overtook. Broken without the check.
- `UpdatedAtBackOnlyByRace`: an update leaves the instant Mongoose put into its command,
  and that instant is earlier than the stored one only if the update was overtaken.
  Broken by a command that carries no timestamp.
- `DeletedOnce`: broken by find-then-delete.
- `CreatedIsStored`: broken by answering before the insert is awaited.
- `ImplementsRegistry`: refinement of `ShipmentRegistry`. Broken by `upsert: true`.
- `AcknowledgedIsStored`: what was acknowledged survives exits and late commands. Broken
  by answering before the insert is awaited.
- `RefusedIsNeverStored`: after a 4xx a creation may be repeated safely. Broken if the
  error handler takes a network error for a duplicate key.
- `GoneStaysGone`: a DELETE repeated until 200 or 404 has worked. Broken by
  `upsert: true`, which lets an update bring a removed shipment back.
- `IndexedIsUnique`: broken if inserts are not checked once the index is there.
- `DeliveryImplementsRegistry`: refinement under all failures. Broken by `upsert: true`.
- `StatusBrokenOnlyByOvertaken`: broken without the status check.
- `Answered`: broken by a handler not wrapped in `asyncHandler`.
- `PageIsBounded`: broken by an uncapped limit.
- `MetadataFitsPage`: writes between `find` and `countDocuments` are allowed for, one by
  one: a page is as full as for some number of items that is off `totalItems` by at most
  the number of shipments written in between. Broken by a count without the filter.
- `WalkListsEachOnce`: creations while a client walks do no harm to the shipments it began
  with, since they only move them to later positions, which may repeat one but skips
  none. Two conditions are needed, and TLC shows a shipment missed without either:
  nothing is updated or removed, and nothing is created between the two commands of the
  last page (a `countDocuments` that ran first ends the walk although the new shipment
  has pushed one off the page). Broken by counting pages from 0.
- `WalkMissesOnlyByRepeating`: ties or not, an undisturbed walk is as long as the list of
  matches. Broken by `floor` for `ceil`, which ends it a page early.
- `ReadinessIsRight`, `CleanExitDisconnects`: exact in the presence of `error` events,
  which clear the flag of a connection that stays: the probe is 200 exactly while there
  is a connection whose last event was no `error`, and an exit that reports success
  leaves a connection open, or still closing, exactly after such an event. Both broken if `connectionState` does not
  follow the `connected` event of a reconnection.
- `ExitCodeTellsFailure`: broken if `disconnect` swallows its error.
- `NoConnectionAfterSignal`: broken without `server.close`. `SignalEndsProcess`: broken
  without `process.exit`.
- `HandlersSeeCheckedInput`: broken by a route that lacks a validator.
- `RejectedIsNotHandled`: broken without the `return` after `next(error)`.
- `WindowQuota`: broken if the health routes are mounted before the limiter, which lets
  requests of an address through that nobody counts. `EveryRequestAnswered`: broken
  without the 404 handler.

**Findings.** (1) Two overlapping PUTs take a shipment out of a final state: both
read `pending`, one writes `cancelled`, the other `in_transit`; README and API
documentation call `cancelled` final and the rule enforced. (2) No overlap is needed: a
PUT that timed out (or whose process ended) is executed after the client has cancelled
the shipment. The repair of both is an update conditional on the status that was
checked. (3) A listing sorted by a field with ties has no tie-breaker, so pages of an
unchanging collection repeat one shipment and miss another. (4) Filter texts are taken
as regular expressions: a shipment from "Apapa (Lagos)" is not found by that text, and
"Apapa (Lagos" is answered 500; the documentation promises a partial match. (5) A
graceful shutdown exits with 0 while requests are in flight: nothing waits for
`server.close`. (6) `trust proxy` is not set, so on the documented deployment all
clients share one quota that is documented per IP.
For each finding a theorem says what it takes (section 4): without an overlap, a lost
command, a tie, a pattern that does not match itself, an open connection or a shared
address, the documented behaviour holds.
The overlap of (1) may also leave the earlier of two `updatedAt` instants; it is the only
way (`UpdatedAtBackOnlyByRace`).
Met on the way: `INVALID_ID` and `INVALID_QUERY_PARAMS`
are documented (`src/docs/API_DOCUMENTATION.md:492`, `:494`) and never answered, because
Joi rejects such requests with `VALIDATION_ERROR` before the code that raises them.

**Bounds.** `Clients`: two overlapping requests make every pairwise race, and each
slot sends any number of requests one after the other, so a request can be overtaken
by several others. `Ids`: one shipment for races on one shipment (the identifier is
also asked for before it exists and after it was removed), two for tracking numbers
(`service_serial`, `delivery`); an id is used once, so it bounds the creations of a run.
`MaxTime`: two instants tell earlier from later. `delivery` leaves the text fields out, has
one tracking number, which two creations then always share, and follows runs that lose
two commands only as long as the clock has not moved (`MCLostOrLater`). `MaxLost`: two commands
may become late, one after the other or both before either is executed, so a late
command meets requests and another late command. One client in `delivery` overlaps with
what its earlier requests left behind; overlaps of requests under way are those of
`service_race`, and all of them together are covered by the theorems, which are for any
number of clients and losses. `Texts`: two values tell a changed field from a kept one. Update
bodies: a text alone, each status but `pending` alone, both (`delivery`: two statuses of
which one forbids the other). Listing: three shipments, pages of one and two
(`MAX_LIMIT` 2), so a walk has a full, a partly filled and a missing page; five queries,
with parameters left out, 0, in range and above the cap and each kind of filter; a text that is no regular
expression, one that does not match itself and one that matches more than itself. In
these models nothing but the clock (`Tick`) and the losses (`LoseTrack`) is bounded by a
guard. Lifecycle:
`MaxConnections` 4 gives every mix of busy and idle connections, `MaxSignals` 3 a
repeated signal, and another after a loss or an `error` while the connection was closing. Pipeline: two requests under
way, a quota of 2 and `MaxHits` 3, so an address is below, at and over its quota; one
client behind a proxy, one not (both in `pipeline_proxy`).

**Symmetry** (clients, ids, tracking numbers in `ShipmentService`; ids in
`ShipmentListing`) is used in runs without liveness properties only. `Answered` is checked with one client:
no handler waits for another, so the other clients of a run could only add steps.

**Fairness.** `FairSpec` gives each request weak fairness on the server's own steps
together: Node's event loop runs every continuation, and each command is executed or
fails, at the latest through the driver's `serverSelectionTimeoutMS` and
`socketTimeoutMS`. Clients and the clock get no fairness. In
`ServerLifecycle` only the settling of `connection.close()` is fair: neither clients
nor the network have to help a shutdown. A `close()` that never settles is thereby assumed
away; the code has no timeout of its own against it. In `RequestPipeline` a body arrives or its
connection times out (`requestTimeout` of Node), and handlers settle, which is
`Answered` of `ShipmentService`. Safety is checked and
proved without fairness.

**Deadlock** is checked in every run but those of `ServerLifecycle`, where the process
ends.

## 4. What TLAPS proves

All theorems hold for every set of ids, clients, text fields, texts and tracking
numbers, every bound of the clock and all bodies that Joi accepts. Assumptions, each
evaluated by TLC on every instance: `MaxTimeAssumption` (a natural number),
`SentinelAssumption` (`null` and `undefined` are no document, text or status),
`BodiesAssumption` (bodies are accepted bodies), `MaxLostAssumption` (a natural number),
`ListingAssumption` (texts and tracking numbers are ordered as numbers, the default
limit is within the cap, ids are finitely many), `RawQueriesAssumption` (queries are
what Joi lets through).

**ShipmentServiceProofs.** `SpecInv` proves the inductive invariant `Inv`:

- `StoredInv`: a stored document's id was allotted and not retired, its timestamps
  are in order and not in the future;
- `ProgressInv`: where a request stands fits its kind, and it changed nothing before
  it settled;
- `InsertInv`: a pending insert owns its id, under which nothing is or was stored;
- `SnapshotInv`: what a handler holds is the stored document until another request
  writes it (`overtaken`), and even then has the same tracking number and creation
  time, or was removed;
- `UpdateInv`: an issued update was stamped no earlier than the document it was
  checked against was last changed.

The properties alone are not inductive: that the status rule breaks only by a race
needs to know that a handler not overtaken holds the stored document, which needs to
know that no insert can come under an id that was read as stored, which needs
`InsertInv` and `StoredInv`. There is one lemma per action. `CollectionChanges` says
how a step may change the collection and `WaysToSettle` how a request may be
answered; from these and `Inv` follow `SpecTypeOK`, `SpecStatusBrokenOnlyByRace`, `SpecUpdatedAtBackOnlyByRace`,
`SpecOnlyRequestedFieldsChange`, `SpecDeletedOnce`, `SpecAnswersMatchEffects`,
`SpecCreatedIsStored`, `SpecUpdateAnswerShowsUpdate` and the refinement
`SpecImplementsRegistry`; `SpecUniqueTrackingNumbers`, which the refinement rests on, is
proved beside `Inv`, because `Inv` must hold without the index as well. `NeverOvertaken`
shows that a request that runs alone is not overtaken, whence
`SerialStatusesFollowTransitions`, `SerialUpdatedAtNeverGoesBack` (stated in the module
of the proofs) and
`SerialImplementsStrictRegistry` (the registry that enforces the status rule) under the
condition that there is at most one client. `SpecTimestampsInOrder`
says, of any number of clients, that no shipment is ever stored as updated before it was
created or in the future.
`ApplySetIdempotent` and `ApplySetCommutes` are about `$set` alone: a repeated PUT leaves
the fields as they are, and PUTs of different fields merge in either order.

**ShipmentDeliveryProofs.** `DeliverySpecInv` keeps `Inv` (its lemmas are reused for
`request`, `serve` and `answer`) and adds: `LateInsertInv`, a late insert still owns its
id; `LateUpdateInv`, a late update was checked against a document of the same shipment,
the stored one unless it was overtaken; `RefusedInv`, nothing that could still store a
shipment exists for a creation that was or is about to be refused (`Void`); `AckedInv`
and `GoneInv`, the same for what was acknowledged or said to be gone; `IndexedIsUnique`.
The invariant has to speak of answers not sent yet, since `answer` only makes known what
an earlier step decided, and of late commands, since each of them can still undo what a
client was told. From it follow all seven properties of `delivery`, the refinement of
the registry among them, and, with the failures this module adds, those of the service:
`DeliverySpecAnswersMatchEffects`, `DeliverySpecUpdateAnswerShowsUpdate`,
`DeliverySpecCreatedIsStored`, `DeliverySpecDeletedOnce`,
`DeliverySpecOnlyRequestedFieldsChange` and `DeliverySpecUpdatedAtBackOnlyByOvertaken`.
`DeliveryStoredChange` carries the last two and the status rule: a stored shipment changes
only by `$set` of a body that a handler or a late command carries (`Carried`).
`OneClientKeepsTheRule` is the other side of finding (2): with one client and no command
lost (`NothingLost`), exits and restarts break neither the status rule nor `updatedAt`.

**ShipmentListingProofs.** `ListingSpecInv` proves that what one of the two commands returned
fits what the other returned or would return now, but for the shipments written between
them (`PageInv`; `DifferByFew` counts them); `CountInv`, until a write comes the count is
the number of matches; `LengthInv`, ties or not, an undisturbed walk was given as many
matches as it has gone past; `ReachInv`, while others only create shipments, a match that
was there when the walk began and was not given stands behind what the walk has gone
past; and `CompleteInv`, once a count says that nothing is left behind the page, every
such match was given. Three facts carry the walk: `CeilFacts`, the rounding of
`totalPages` against `hasNextPage` for every limit; `PositionIsRank`, that without ties a
match stands where as many matches come before it (a bijection; no induction); and
`CreationsKeepRanks`, that creations move it no further to the front. From these follow
`ListingSpecPageIsBounded`, `ListingSpecMetadataFitsPage`, `ListingSpecWalkListsEachOnce`
and `ListingSpecWalkMissesOnlyByRepeating` (as many as match and none twice are all of
them), for any number of shipments and any size of page. `ListingSpecTextIsFound` is the
other side of finding (4): if each text matches itself as a pattern, a shipment is found
by its own texts.

`ServerLifecycleProofs` proves the four invariants of the lifecycle and
`NoConnectionAfterSignal`, for any number of connections and signals. Its invariant
adds `FlagInv` (the flag is set exactly while Mongoose has a connection, closing or not,
and the last event was `connected`) and `PhaseInv`
(a process that outlives its first signal is closing both its server and its
connection, and none outlives a failure): without the latter a process could fail
first and exit with 0 later; and `DrainInv` (a server that is closing has connections
left, a closed one has none), from which `SpecClosedUnlessCutOff` follows, the other side
of finding (5): a process that reports success has closed its server unless connections
were still open. Assumption: `LifecycleAssumption` (the bounds are natural
numbers, `null` is not).

`RequestPipelineProofs` proves the four invariants of the pipeline for any clients,
addresses, inputs and quota, from `PipelineAssumption` (types of the parameters) and
`NullAssumption`. Its invariant adds `StageInv`: how far a request is tells whether it
has an answer and whether its handler ran. `SpecAnswersFitInput` says which requests get
which answers: 400 of a validator or the parser only those with a fault that is looked
for, an answer of a handler other than 500 only those without. `SpecQuotaIsPerClient` is
the other side of finding (6): if no two clients share an address, the limiter counts for
an address what its client sent (`CountedForItsClient`), and each has the documented quota.

Every invariant and action property of the passing runs is a theorem. Only model-checked:
`Answered`, `SignalEndsProcess` and `EveryRequestAnswered` (liveness under fairness is
beyond the prover), and the counterexamples of the findings. What the number of a walk's
pages or of an address's hits adds up to over several clients is not stated: sums over
sets need induction over data, which is beyond it too.

## 5. Not modelled, and the plan

Left out for good: response envelopes, logging, Swagger, environment parsing,
security headers (pure output or constants).

Every hazard listed in `PROJECT.json` has a property. What could be added:

1. More proofs: that `ShipmentService` is the part of `ShipmentDelivery` in which nothing
   is lost and the index is in place; and that updates which change neither the matches
   nor their order do a walk no harm either.
2. `ServerLifecycle` as the process of `ShipmentDelivery`, so that its exits are those of
   the signal handlers; today `exit` may come at any moment, which includes them all.
3. The refinement of `ServerLifecycle` to the shutdown a platform expects, once the code
   waits for `server.close`.
4. The pool of ten connections (`maxPoolSize`) as a resource requests wait for; it delays
   commands, which the models already do for any length of time.
