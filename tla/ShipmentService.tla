---------------------------- MODULE ShipmentService ----------------------------
(***************************************************************************)
(* The path of POST, GET, PUT and DELETE requests for one shipment through *)
(* controller, service and repository to the MongoDB collection and back   *)
(* to the client, in one Node process.                                     *)
(*                                                                         *)
(* Node runs a handler up to its next `await` without interruption, so a   *)
(* request is cut into steps exactly where the code awaits a database      *)
(* command: the call up to the command, the command itself (atomic in      *)
(* MongoDB, executed between any steps of other requests), and the         *)
(* continuation of the handler with the command's answer.  A handler whose *)
(* continuation is the last thing it does (create, delete, the second half *)
(* of update) touches only its own request, so that continuation is part   *)
(* of the step that executes the command.                                  *)
(*                                                                         *)
(* Requests reach this module validated: Joi has accepted identifiers and  *)
(* bodies.  A client has one request under way at a time and reuses its    *)
(* slot; Clients bounds how many requests overlap, not how many are sent.  *)
(***************************************************************************)
EXTENDS ShipmentTypes

CONSTANTS
    Ids,           \* ObjectIds
    Clients,       \* slots of concurrent requests
    CreateBodies,  \* bodies of POST requests
    UpdateBodies   \* bodies of PUT requests

ASSUME BodiesAssumption ==
    /\ CreateBodies \subseteq CreateShipmentDTO
    /\ UpdateBodies \subseteq UpdateShipmentDTO

VARIABLES
    docs,      \* the collection: the document stored under each id, or null
    allotted,  \* ObjectIds given to a new ShipmentModel
    now,       \* the clock Date.now() reads
    pc,        \* where each client's request stands
    call,      \* what it asks for: [op, id, body], or null
    held,      \* the document its handler holds across an await, or null
    stamp,     \* the updatedAt put into its findOneAndUpdate command
    outcome,   \* what it is answered: [statusCode, shipment], or null
    retired,   \* history: ids whose document was removed
    overtaken, \* history: another request wrote the document since held was read
    applied    \* history: the request changed the collection

program == <<docs, allotted, now, pc, call, held, stamp, outcome>>
history == <<retired, overtaken, applied>>
vars    == <<program, history>>

Commands  == {"insertOne", "findOne", "findOneAndUpdate", "findOneAndDelete"}
Locations == {"idle", "resume", "settled"} \cup Commands

Calls       == [op : {"create"}, id : Ids, body : CreateBodies]
                 \cup [op : {"update"}, id : Ids, body : UpdateBodies]
                 \cup [op : {"get", "delete"}, id : Ids, body : {null}]
Outcomes    == [statusCode : {200, 201, 400, 404, 409, 500}, shipment : Document \cup {null}]

TypeOK ==
    /\ docs \in [Ids -> Document \cup {null}]
    /\ allotted \subseteq Ids
    /\ now \in Instants
    /\ pc \in [Clients -> Locations]
    /\ call \in [Clients -> Calls \cup {null}]
    /\ held \in [Clients -> Document \cup {null}]
    /\ stamp \in [Clients -> Instants]
    /\ outcome \in [Clients -> Outcomes \cup {null}]
    /\ retired \subseteq Ids
    /\ overtaken \in [Clients -> BOOLEAN]
    /\ applied \in [Clients -> BOOLEAN]
    /\ \A c \in Clients : pc[c] # "idle" => call[c] \in Calls
    /\ \A c \in Clients : pc[c] = "settled" => outcome[c] \in Outcomes

Init ==
    /\ docs = [id \in Ids |-> null]
    /\ allotted = {}
    /\ now = 0
    /\ pc = [c \in Clients |-> "idle"]
    /\ call = [c \in Clients |-> null]
    /\ held = [c \in Clients |-> null]
    /\ stamp = [c \in Clients |-> 0]
    /\ outcome = [c \in Clients |-> null]
    /\ retired = {}
    /\ overtaken = [c \in Clients |-> FALSE]
    /\ applied = [c \in Clients |-> FALSE]

-----------------------------------------------------------------------------
(* Answers.  A handler resolves with a shipment or throws.                  *)

\* Mutant: every MongoServerError and its kin taken for a duplicate key.
normalizeErrorConflict(error) ==
    CASE error = "ResourceNotFound"        -> 404
      [] error = "InvalidStatusTransition" -> 400
      [] OTHER                             -> 409

\* Mutant: the statusCode of the error itself, which only an ApiError has.
normalizeErrorRaw(error) ==
    CASE error = "ResourceNotFound"        -> 404
      [] error = "InvalidStatusTransition" -> 400
      [] OTHER                             -> undefined

\* The status code the error handler sends for an error.
normalizeError(error) ==
    CASE error = "ResourceNotFound"        -> 404
      [] error = "InvalidStatusTransition" -> 400
      [] error = "E11000"                  -> 409
      [] OTHER                             -> 500

Resolve(c, shipment) ==
    /\ pc' = [pc EXCEPT ![c] = "settled"]
    /\ outcome' = [outcome EXCEPT ![c] =
         [statusCode |-> IF call[c].op = "create" THEN 201 ELSE 200, shipment |-> shipment]]

\* Mutant: a handler that is not wrapped by asyncHandler; nobody sees its error.
RejectUncaught(c, error) == UNCHANGED <<pc, outcome>>

\* asyncHandler hands a thrown error to the error handler, which answers.
Reject(c, error) ==
    /\ pc' = [pc EXCEPT ![c] = "settled"]
    /\ outcome' = [outcome EXCEPT ![c] = [statusCode |-> normalizeError(error), shipment |-> null]]

\* A command that was executed, whose answer reaches the handler or is lost with
\* the connection.
ResolveUnlessLost(c, shipment) ==
    Resolve(c, shipment) \/ Reject(c, "MongoNetworkError")

\* Mutant: the null check left out, the handler answers what it read.
NotFoundUnchecked(c) == ResolveUnlessLost(c, held[c])

\* `throw ApiError.notFound` when the command found no document.
NotFoundUnlessLost(c) ==
    Reject(c, "ResourceNotFound") \/ Reject(c, "MongoNetworkError")

\* History: c changes the document under id.
Wrote(c, id) ==
    /\ applied' = [applied EXCEPT ![c] = TRUE]
    /\ overtaken' = [r \in Clients |->
         overtaken[r] \/ /\ r # c
                         /\ pc[r] \in {"resume", "findOneAndUpdate"}
                         /\ call[r].id = id]

-----------------------------------------------------------------------------
(* A request arrives: everything up to the handler's first await.           *)

Arrives(c, request, command) ==
    /\ pc[c] = "idle"
    /\ pc' = [pc EXCEPT ![c] = command]
    /\ call' = [call EXCEPT ![c] = request]

\* The new document gets its ObjectId and tracking number here, and its
\* timestamps when save() is called, still before the insert.
createShipment(c) ==
    /\ \E id \in Ids \ allotted, data \in CreateBodies, trackingNumber \in TrackingNumbers :
         /\ Arrives(c, [op |-> "create", id |-> id, body |-> data], "insertOne")
         /\ allotted' = allotted \cup {id}
         /\ held' = [held EXCEPT ![c] = newShipment(data, trackingNumber, now)]
    /\ UNCHANGED <<docs, now, stamp, outcome, history>>

getShipmentById(c) ==
    /\ \E id \in Ids : Arrives(c, [op |-> "get", id |-> id, body |-> null], "findOne")
    /\ UNCHANGED <<docs, allotted, now, held, stamp, outcome, history>>

updateShipment(c) ==
    /\ \E id \in Ids, data \in UpdateBodies :
         Arrives(c, [op |-> "update", id |-> id, body |-> data], "findOne")
    /\ UNCHANGED <<docs, allotted, now, held, stamp, outcome, history>>

deleteShipment(c) ==
    /\ \E id \in Ids : Arrives(c, [op |-> "delete", id |-> id, body |-> null], "findOneAndDelete")
    /\ UNCHANGED <<docs, allotted, now, held, stamp, outcome, history>>

-----------------------------------------------------------------------------
(* The database executes a command.                                         *)

TrackingNumberFree(trackingNumber) ==
    \A id \in Ids : docs[id] # null => docs[id].trackingNumber # trackingNumber

\* The document goes into the collection; the answer may be lost.
Store(c) ==
    /\ docs' = [docs EXCEPT ![call[c].id] = held[c]]
    /\ Wrote(c, call[c].id)
    /\ ResolveUnlessLost(c, held[c])

\* Without a unique index nothing is checked.  (Mutant of insertOne: `unique: true`
\* missing from the schema.)
insertOneUnindexed(c) ==
    /\ pc[c] = "insertOne"
    /\ Store(c)
    /\ UNCHANGED <<allotted, now, call, held, stamp, retired>>

\* Mutant: `return shipment` in place of `return shipment.save()`; the insert is
\* still under way when the client is answered, and may fail.
insertOneUnawaited(c) ==
    /\ pc[c] = "insertOne"
    /\ \/ /\ TrackingNumberFree(held[c].trackingNumber)
          /\ docs' = [docs EXCEPT ![call[c].id] = held[c]]
          /\ Wrote(c, call[c].id)
       \/ UNCHANGED <<docs, overtaken, applied>>
    /\ Resolve(c, held[c])
    /\ UNCHANGED <<allotted, now, call, held, stamp, retired>>

\* shipment.save(): the unique index on trackingNumber decides.
insertOne(c) ==
    /\ pc[c] = "insertOne"
    /\ \/ TrackingNumberFree(held[c].trackingNumber) /\ Store(c)
       \/ /\ ~ TrackingNumberFree(held[c].trackingNumber)
          /\ Reject(c, "E11000")
          /\ UNCHANGED <<docs, overtaken, applied>>
    /\ UNCHANGED <<allotted, now, call, held, stamp, retired>>

\* findById: the handler gets a copy of the document as it is now.
findOne(c) ==
    /\ pc[c] = "findOne"
    /\ pc' = [pc EXCEPT ![c] = "resume"]
    /\ held' = [held EXCEPT ![c] = docs[call[c].id]]
    /\ UNCHANGED <<docs, allotted, now, call, stamp, outcome, history>>

\* Mutant: the handler saves the document it read, with its changes, as a whole.
ApplyUpdateWhole(c) ==
    /\ docs' = [docs EXCEPT ![call[c].id] = applySet(held[c], call[c].body, stamp[c])]
    /\ Wrote(c, call[c].id)
    /\ ResolveUnlessLost(c, docs'[call[c].id])

\* Mutant: without `new: true` the command answers the document before the update.
ApplyUpdateOld(c) ==
    /\ docs' = [docs EXCEPT ![call[c].id] = applySet(docs[call[c].id], call[c].body, stamp[c])]
    /\ Wrote(c, call[c].id)
    /\ ResolveUnlessLost(c, docs[call[c].id])

\* Mutant: `timestamps: false`, the command carries no updatedAt.
ApplyUpdateUntimed(c) ==
    LET stored == docs[call[c].id] IN
    /\ docs' = [docs EXCEPT ![call[c].id] = applySet(stored, call[c].body, stored.updatedAt)]
    /\ Wrote(c, call[c].id)
    /\ ResolveUnlessLost(c, docs'[call[c].id])

\* `{ $set: data }` on the stored document; with `new: true` the result is the answer.
ApplyUpdate(c) ==
    /\ docs' = [docs EXCEPT ![call[c].id] = applySet(docs[call[c].id], call[c].body, stamp[c])]
    /\ Wrote(c, call[c].id)
    /\ ResolveUnlessLost(c, docs'[call[c].id])

\* Mutant: `upsert: true`.
findOneAndUpdateUpsert(c) ==
    /\ pc[c] = "findOneAndUpdate"
    /\ IF docs[call[c].id] = null THEN ApplyUpdateWhole(c) ELSE ApplyUpdate(c)
    /\ UNCHANGED <<allotted, now, call, held, stamp, retired>>

\* findByIdAndUpdate, then the rest of updateShipment: no document means it was
\* removed since the handler read it.
findOneAndUpdate(c) ==
    /\ pc[c] = "findOneAndUpdate"
    /\ \/ docs[call[c].id] # null /\ ApplyUpdate(c)
       \/ /\ docs[call[c].id] = null
          /\ NotFoundUnlessLost(c)
          /\ UNCHANGED <<docs, overtaken, applied>>
    /\ UNCHANGED <<allotted, now, call, held, stamp, retired>>

\* Mutant: findById then deleteOne, whose count nobody looks at.
findOneAndDeleteBlind(c) ==
    LET id == call[c].id IN
    /\ pc[c] = "findOneAndDelete"
    /\ \/ docs[id] # null
       \/ id \in retired
    /\ docs' = [docs EXCEPT ![id] = null]
    /\ retired' = retired \cup {id}
    /\ Wrote(c, id)
    /\ ResolveUnlessLost(c, docs[id])
    /\ UNCHANGED <<allotted, now, call, held, stamp>>

\* findByIdAndDelete, then the rest of deleteShipment: the removed document is
\* the answer.
findOneAndDelete(c) ==
    LET id == call[c].id IN
    /\ pc[c] = "findOneAndDelete"
    /\ \/ /\ docs[id] # null
          /\ docs' = [docs EXCEPT ![id] = null]
          /\ retired' = retired \cup {id}
          /\ Wrote(c, id)
          /\ ResolveUnlessLost(c, docs[id])
       \/ /\ docs[id] = null
          /\ NotFoundUnlessLost(c)
          /\ UNCHANGED <<docs, history>>
    /\ UNCHANGED <<allotted, now, call, held, stamp>>

\* No connection, or a command the database never executed: the driver gives up
\* and its promise is rejected.
commandFails(c) ==
    /\ pc[c] \in Commands
    /\ Reject(c, "MongoNetworkError")
    /\ UNCHANGED <<docs, allotted, now, call, held, stamp, history>>

-----------------------------------------------------------------------------
(* The handlers that go on after findById.                                  *)

resumeGet(c) ==
    /\ pc[c] = "resume" /\ call[c].op = "get"
    /\ IF held[c] = null THEN Reject(c, "ResourceNotFound") ELSE Resolve(c, held[c])
    /\ UNCHANGED <<docs, allotted, now, call, held, stamp, history>>

IssueUpdate(c) ==
    /\ pc' = [pc EXCEPT ![c] = "findOneAndUpdate"]
    /\ stamp' = [stamp EXCEPT ![c] = now]
    /\ UNCHANGED outcome

\* Mutant: the status check left to the enum validator of Mongoose.
resumeUpdateUnvalidated(c) ==
    /\ pc[c] = "resume" /\ call[c].op = "update"
    /\ IF held[c] = null THEN Reject(c, "ResourceNotFound") /\ UNCHANGED stamp
                         ELSE IssueUpdate(c)
    /\ UNCHANGED <<docs, allotted, now, call, held, history>>

\* The status check reads the document findById returned; Mongoose stamps the
\* command when it is issued.
resumeUpdate(c) ==
    LET status == call[c].body.status IN
    /\ pc[c] = "resume" /\ call[c].op = "update"
    /\ \/ /\ held[c] = null
          /\ Reject(c, "ResourceNotFound")
          /\ UNCHANGED stamp
       \/ /\ held[c] # null
          /\ status # undefined /\ ~ isValidStatusTransition(held[c].status, status)
          /\ Reject(c, "InvalidStatusTransition")
          /\ UNCHANGED stamp
       \/ /\ held[c] # null
          /\ status = undefined \/ isValidStatusTransition(held[c].status, status)
          /\ IssueUpdate(c)
    /\ UNCHANGED <<docs, allotted, now, call, held, history>>

\* The answer goes out; the handler and what it held are gone.
respond(c) ==
    /\ pc[c] = "settled"
    /\ pc' = [pc EXCEPT ![c] = "idle"]
    /\ call' = [call EXCEPT ![c] = null]
    /\ held' = [held EXCEPT ![c] = null]
    /\ stamp' = [stamp EXCEPT ![c] = 0]
    /\ outcome' = [outcome EXCEPT ![c] = null]
    /\ overtaken' = [overtaken EXCEPT ![c] = FALSE]
    /\ applied' = [applied EXCEPT ![c] = FALSE]
    /\ UNCHANGED <<docs, allotted, now, retired>>

-----------------------------------------------------------------------------
clientStep(c) ==
    createShipment(c) \/ getShipmentById(c) \/ updateShipment(c) \/ deleteShipment(c)

serverStep(c) ==
    \/ insertOne(c) \/ findOne(c) \/ findOneAndUpdate(c) \/ findOneAndDelete(c)
    \/ commandFails(c)
    \/ resumeGet(c) \/ resumeUpdate(c)
    \/ respond(c)

Tick ==
    /\ now < MaxTime
    /\ now' = now + 1
    /\ UNCHANGED <<docs, allotted, pc, call, held, stamp, outcome, history>>

Next == Tick \/ \E c \in Clients : clientStep(c) \/ serverStep(c)

Spec == Init /\ [][Next]_vars

\* Node's event loop runs every continuation, and MongoDB or the driver's
\* timeouts settle every command; clients and the clock owe nothing.
FairSpec == Spec /\ \A c \in Clients : WF_vars(serverStep(c))

-----------------------------------------------------------------------------
(* Properties.                                                              *)

\* The unique index is in place: ShipmentDelivery adds how it comes to be.
Registry == INSTANCE ShipmentRegistry WITH indexed <- TRUE

\* However requests overlap, fail and repeat, the collection behaves as the
\* registry of ShipmentRegistry: an ObjectId is used once, an update never brings
\* a removed shipment back, a tracking number is never shared, a removal is final.
ImplementsRegistry == Registry!Spec

\* Two stored shipments never share a tracking number, although generating one
\* (trackingNumberGenerator.ts) checks nothing and two inserts may race.
UniqueTrackingNumbers ==
    \A i, j \in Ids :
        docs[i] # null /\ docs[j] # null /\ docs[i].trackingNumber = docs[j].trackingNumber
            => i = j

\* What the documentation promises of the status: it moves only along
\* STATUS_TRANSITIONS while the shipment is stored.
StatusesFollowTransitions == Registry!StatusRule

\* The step ends c's update command for id: no other request moves in it.
Updates(c, id) ==
    pc[c] = "findOneAndUpdate" /\ pc'[c] = "settled" /\ call[c].id = id

\* What the check in updateShipment achieves: a status makes a move outside
\* STATUS_TRANSITIONS only in the update of a request that another request's
\* write overtook between its findById and this findByIdAndUpdate.
StatusStep ==
    \A id \in Ids :
        \/ docs[id] = null \/ docs'[id] = null
        \/ isValidStatusTransition(docs[id].status, docs'[id].status)
        \/ \E c \in Clients : Updates(c, id) /\ overtaken[c]

StatusBrokenOnlyByRace == [][StatusStep]_vars

\* A stored shipment changes only by an update request for it, which writes the
\* fields its body carries and no other (updatedAt aside): what overlapping
\* requests wrote to the other fields since findById survives.
FieldsStep ==
    \A id \in Ids :
        \/ docs[id] = null \/ docs'[id] = null \/ docs'[id] = docs[id]
        \/ \E c \in Clients :
             /\ Updates(c, id)
             /\ \A f \in TextFields :
                   docs'[id].text[f] # docs[id].text[f] => docs'[id].text[f] = call[c].body.text[f]
             /\ docs'[id].status # docs[id].status => docs'[id].status = call[c].body.status
             /\ docs'[id].trackingNumber = docs[id].trackingNumber
             /\ docs'[id].createdAt = docs[id].createdAt

OnlyRequestedFieldsChange == [][FieldsStep]_vars

\* The status code tells the client what happened: 4xx means the request changed
\* nothing, 200 and 201 that a write was made and comes with a shipment.  (500
\* leaves it open.)
AnswersMatchEffects ==
    \A c \in Clients : pc[c] = "settled" =>
        /\ outcome[c].statusCode \in {400, 404, 409} => ~ applied[c]
        /\ outcome[c].statusCode \in {200, 201} =>
              outcome[c].shipment # null /\ (applied[c] <=> call[c].op # "get")

\* A shipment whose creation is acknowledged is stored, until a request removes it.
CreatedIsStored ==
    \A c \in Clients :
        pc[c] = "settled" /\ call[c].op = "create" /\ outcome[c].statusCode = 201
            => docs[call[c].id] # null \/ call[c].id \in retired

\* The answer to an update shows the requested values on the very shipment the
\* status check looked at, whatever was written or removed in between.
UpdateAnswerShowsUpdate ==
    \A c \in Clients :
        pc[c] = "settled" /\ call[c].op = "update" /\ outcome[c].statusCode = 200 =>
            /\ outcome[c].shipment = applySet(outcome[c].shipment, call[c].body, stamp[c])
            /\ outcome[c].shipment.trackingNumber = held[c].trackingNumber
            /\ outcome[c].shipment.createdAt = held[c].createdAt

\* At most one delete request is told that it removed the shipment, and none is
\* told so while it is still there.
RemovalStep ==
    \A c \in Clients :
        pc[c] = "findOneAndDelete" /\ pc'[c] = "settled" /\ outcome'[c].statusCode = 200
            => call[c].id \notin retired /\ call[c].id \in retired' /\ docs'[call[c].id] = null

DeletedOnce == [][RemovalStep]_vars

\* updatedAt, "Last update timestamp": whatever changes a stored shipment sets it to
\* the instant that very update was issued, and moves it back only when another
\* request's write overtook the update, issued earlier and applied later.
UpdatedAtStep ==
    \A id \in Ids :
        \/ docs[id] = null \/ docs'[id] = null \/ docs'[id] = docs[id]
        \/ \E c \in Clients :
             /\ Updates(c, id) /\ docs'[id].updatedAt = stamp[c]
             /\ overtaken[c] \/ docs[id].updatedAt <= stamp[c]

UpdatedAtBackOnlyByRace == [][UpdatedAtStep]_vars

\* Every request is answered: no await is left without an answer, no error
\* without a response.
Answered == \A c \in Clients : pc[c] # "idle" ~> pc[c] = "idle"
=============================================================================
