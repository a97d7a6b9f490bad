------------------------- MODULE ShipmentServiceProofs -------------------------
(***************************************************************************)
(* What ShipmentService guarantees for every set of identifiers, clients,  *)
(* bodies and tracking numbers: Inv is inductive, and the properties below *)
(* follow from it.                                                         *)
(***************************************************************************)
EXTENDS ShipmentService, TLAPS

-----------------------------------------------------------------------------
(* The inductive invariant.                                                 *)

\* An id is in use from the moment a new document gets it, and never again once
\* its document was removed; timestamps are in order.
StoredInv ==
    /\ retired \subseteq allotted
    /\ \A id \in Ids : docs[id] # null =>
          /\ id \in allotted \ retired
          /\ docs[id].createdAt <= docs[id].updatedAt /\ docs[id].updatedAt <= now

\* A request changed nothing before it settled, and where it stands fits its kind.
ProgressInv ==
    \A c \in Clients :
        /\ applied[c] => pc[c] = "settled"
        /\ pc[c] = "insertOne" => call[c].op = "create"
        /\ pc[c] \in {"findOne", "resume"} => call[c].op \in {"get", "update"}
        /\ pc[c] = "findOneAndUpdate" => call[c].op = "update"
        /\ pc[c] = "findOneAndDelete" => call[c].op = "delete"

\* An insert under way owns its id.
InsertInv ==
    \A c \in Clients : pc[c] = "insertOne" =>
        /\ call[c].id \in allotted \ retired
        /\ docs[call[c].id] = null
        /\ held[c] # null
        /\ held[c] = newShipment(call[c].body, held[c].trackingNumber, held[c].createdAt)
        /\ held[c].createdAt <= now
        /\ \A d \in Clients : pc[d] = "insertOne" /\ call[d].id = call[c].id => d = c

\* The document a handler holds is the stored one until another request writes
\* it, and even then it is the same shipment, or one that was removed.
Snapshot(c) ==
    LET id == call[c].id IN
    /\ ~ overtaken[c] => held[c] = docs[id]
    /\ held[c] # null =>
          /\ id \in allotted
          /\ held[c].createdAt <= held[c].updatedAt /\ held[c].updatedAt <= now
          /\ docs[id] = null => id \in retired
          /\ docs[id] # null => /\ docs[id].trackingNumber = held[c].trackingNumber
                                /\ docs[id].createdAt = held[c].createdAt

SnapshotInv == \A c \in Clients : pc[c] \in {"resume", "findOneAndUpdate"} => Snapshot(c)

\* An update command was stamped and checked against the document held.
UpdateInv ==
    \A c \in Clients : pc[c] = "findOneAndUpdate" =>
        /\ held[c] # null
        /\ held[c].updatedAt <= stamp[c] /\ stamp[c] <= now
        /\ call[c].body.status = undefined
             \/ isValidStatusTransition(held[c].status, call[c].body.status)

Inv ==
    /\ TypeOK
    /\ StoredInv /\ ProgressInv /\ InsertInv /\ SnapshotInv /\ UpdateInv

-----------------------------------------------------------------------------
(* The operators documents are built with.                                  *)

\* A document built from a POST body is well formed.
LEMMA NewShipmentType ==
    ASSUME NEW data \in CreateBodies, NEW trackingNumber \in TrackingNumbers, NEW time \in Instants
    PROVE  newShipment(data, trackingNumber, time) \in Document
  BY BodiesAssumption
  DEF newShipment, Document, CreateShipmentDTO, Given, SHIPMENT_STATUSES

\* Applying a PUT body gives a well-formed document again, keeps what identifies
\* the shipment, and takes every value the body carries.
LEMMA ApplySetFacts ==
    ASSUME NEW document \in Document, NEW data \in UpdateBodies, NEW time \in Instants
    PROVE  /\ applySet(document, data, time) \in Document
           /\ applySet(document, data, time).trackingNumber = document.trackingNumber
           /\ applySet(document, data, time).createdAt = document.createdAt
           /\ applySet(document, data, time).updatedAt = time
           /\ applySet(document, data, time).status = Given(data.status, document.status)
  BY BodiesAssumption
  DEF applySet, Document, UpdateShipmentDTO, Given, SHIPMENT_STATUSES

\* Applying a body twice is applying it once: a repeated PUT changes nothing.
LEMMA ApplySetIdempotent ==
    ASSUME NEW document \in Document, NEW data \in UpdateBodies, NEW time \in Instants
    PROVE  applySet(applySet(document, data, time), data, time) = applySet(document, data, time)
  BY BodiesAssumption
  DEF applySet, Document, UpdateShipmentDTO, Given, SHIPMENT_STATUSES

\* Two bodies without a field in common may be applied in either order.
THEOREM ApplySetCommutes ==
    ASSUME NEW document \in Document, NEW time \in Instants,
           NEW one \in UpdateBodies, NEW other \in UpdateBodies,
           \A f \in TextFields : one.text[f] = undefined \/ other.text[f] = undefined,
           one.status = undefined \/ other.status = undefined
    PROVE  applySet(applySet(document, one, time), other, time)
             = applySet(applySet(document, other, time), one, time)
  <1> DEFINE Both(a, b) == applySet(applySet(document, a, time), b, time)
  <1>1. Both(one, other).text = Both(other, one).text
    BY DEF applySet, Document, Given
  <1>2. Both(one, other).status = Both(other, one).status
    BY DEF applySet, Document, Given
  <1>3. ASSUME NEW a \in UpdateBodies, NEW b \in UpdateBodies
        PROVE  Both(a, b) = [document EXCEPT !.text = Both(a, b).text,
                                             !.status = Both(a, b).status, !.updatedAt = time]
    BY DEF applySet, Document
  <1> HIDE DEF Both
  <1>4. Both(one, other) = [document EXCEPT !.text = Both(one, other).text,
                              !.status = Both(one, other).status, !.updatedAt = time]
    BY <1>3
  <1>5. Both(other, one) = [document EXCEPT !.text = Both(other, one).text,
                              !.status = Both(other, one).status, !.updatedAt = time]
    BY <1>3
  <1>6. Both(one, other) = Both(other, one)
    BY <1>1, <1>2, <1>4, <1>5
  <1> QED
    BY <1>6 DEF Both

\* No document is mistaken for its absence.
LEMMA NullIsNoDocument == \A document \in Document : document # null
  BY SentinelAssumption

\* Instants are compared as numbers.
LEMMA InstantsAreNumbers == Instants \subseteq Nat
  BY MaxTimeAssumption DEF Instants

-----------------------------------------------------------------------------
(* Inv holds initially.                                                     *)

\* Nothing is stored and nobody asks for anything.
LEMMA InitInv == Init => Inv
  <1> SUFFICES ASSUME Init PROVE Inv
    OBVIOUS
  <1>1. TypeOK
    BY MaxTimeAssumption DEF Init, TypeOK, Instants, Locations, Commands
  <1>2. StoredInv
    BY DEF Init, StoredInv
  <1>3. ProgressInv /\ InsertInv /\ SnapshotInv /\ UpdateInv
    BY DEF Init, ProgressInv, InsertInv, SnapshotInv, UpdateInv
  <1> QED
    BY <1>1, <1>2, <1>3 DEF Inv

-----------------------------------------------------------------------------
(* Inv is preserved: one lemma per action.                                  *)

\* Answering an error, without touching the collection, preserves Inv.
LEMMA RejectInv ==
    ASSUME Inv, NEW c \in Clients, pc[c] # "idle", NEW error, Reject(c, error),
           UNCHANGED <<docs, allotted, now, call, held, stamp, history>>
    PROVE  Inv'
  <1>1. TypeOK'
    BY DEF Inv, TypeOK, Reject, normalizeError, Locations, Outcomes, history
  <1>2. StoredInv'
    BY DEF Inv, StoredInv, history
  <1>3. ProgressInv' /\ InsertInv'
    BY DEF Inv, TypeOK, ProgressInv, InsertInv, Reject, history
  <1>4. SnapshotInv' /\ UpdateInv'
    BY DEF Inv, TypeOK, SnapshotInv, Snapshot, UpdateInv, Reject, history
  <1> QED
    BY <1>1, <1>2, <1>3, <1>4 DEF Inv

\* A creation takes an id that nobody had.
LEMMA CreateShipmentInv == ASSUME Inv, NEW c \in Clients, createShipment(c) PROVE Inv'
  <1> USE DEF Inv
  <1>1. PICK id \in Ids \ allotted, data \in CreateBodies, trackingNumber \in TrackingNumbers :
          /\ Arrives(c, [op |-> "create", id |-> id, body |-> data], "insertOne")
          /\ allotted' = allotted \cup {id}
          /\ held' = [held EXCEPT ![c] = newShipment(data, trackingNumber, now)]
          /\ UNCHANGED <<docs, now, stamp, outcome, history>>
    BY DEF createShipment
  <1>2. newShipment(data, trackingNumber, now) \in Document
    BY <1>1, NewShipmentType DEF TypeOK
  <1>3. TypeOK'
    BY <1>1, <1>2 DEF TypeOK, Arrives, Calls, Locations, Commands, history
  <1>4. StoredInv'
    BY <1>1 DEF StoredInv, history
  <1>5. ProgressInv'
    BY <1>1 DEF ProgressInv, TypeOK, Arrives, history
  <1>6. InsertInv'
    <2>1. now \in Nat /\ docs[id] = null /\ id \notin retired
      BY InstantsAreNumbers, <1>1 DEF TypeOK, StoredInv
    <2>2. /\ held'[c] # null /\ held'[c].createdAt = now
          /\ held'[c] = newShipment(data, held'[c].trackingNumber, held'[c].createdAt)
      BY <1>1, <1>2, NullIsNoDocument DEF TypeOK, newShipment
    <2>3. ASSUME NEW d \in Clients, pc'[d] = "insertOne", d # c
          PROVE  pc[d] = "insertOne" /\ held'[d] = held[d] /\ call'[d] = call[d] /\ call[d].id # id
      BY <1>1, <2>3 DEF TypeOK, Arrives, InsertInv
    <2>4. call'[c].id = id /\ call'[c].body = data
      BY <1>1 DEF TypeOK, Arrives
    <2> QED
      BY <1>1, <2>1, <2>2, <2>3, <2>4 DEF InsertInv, history
  <1>7. SnapshotInv'
    BY <1>1 DEF SnapshotInv, Snapshot, TypeOK, Arrives, history
  <1>8. UpdateInv'
    BY <1>1 DEF UpdateInv, TypeOK, Arrives, history
  <1> QED
    BY <1>3, <1>4, <1>5, <1>6, <1>7, <1>8

\* Storing the document of an insert preserves Inv, with or without the unique index.
LEMMA StoreInv ==
    ASSUME Inv, NEW c \in Clients, pc[c] = "insertOne", Store(c),
           UNCHANGED <<allotted, now, call, held, stamp, retired>>
    PROVE  Inv'
  <1> DEFINE id == call[c].id
  <1>1. /\ docs' = [docs EXCEPT ![id] = held[c]]
        /\ Wrote(c, id)
        /\ ResolveUnlessLost(c, held[c])
    BY DEF Store
  <1>2. /\ pc' = [pc EXCEPT ![c] = "settled"]
        /\ id \in Ids /\ held[c] \in Document /\ call[c].op = "create"
    BY <1>1, NullIsNoDocument
    DEF ResolveUnlessLost, Resolve, Reject, Inv, InsertInv, ProgressInv, TypeOK, Calls
  <1>3. TypeOK'
    BY <1>1, <1>2
    DEF ResolveUnlessLost, Resolve, Reject, normalizeError, Inv, TypeOK, Wrote, Locations, Outcomes
  <1>4. StoredInv'
    <2>1. held[c].createdAt \in Nat /\ held[c].updatedAt = held[c].createdAt
      <3>1. held[c] = newShipment(call[c].body, held[c].trackingNumber, held[c].createdAt)
        BY DEF Inv, InsertInv
      <3>2. held[c].updatedAt = held[c].createdAt
        BY ONLY <3>1 DEF newShipment
      <3> QED
        BY <1>2, <3>2, InstantsAreNumbers DEF Document
    <2>2. /\ id \in allotted \ retired /\ held[c].createdAt <= now
          /\ UNCHANGED <<allotted, now, retired>>
      BY DEF Inv, InsertInv
    <2>3. \A i \in Ids : docs'[i] = IF i = id THEN held[c] ELSE docs[i]
      BY <1>1 DEF Inv, TypeOK
    <2> QED
      BY <2>1, <2>2, <2>3 DEF Inv, StoredInv
  <1>5. ProgressInv'
    BY <1>1, <1>2 DEF Inv, TypeOK, ProgressInv, Wrote
  <1>6. InsertInv'
    BY <1>1, <1>2 DEF Inv, TypeOK, InsertInv
  <1>7. SnapshotInv'
    <2> SUFFICES ASSUME NEW d \in Clients, pc'[d] \in {"resume", "findOneAndUpdate"}
                 PROVE  Snapshot(d)'
      BY DEF SnapshotInv
    <2>1. d # c /\ pc[d] = pc'[d] /\ Snapshot(d)
      BY <1>2 DEF Inv, TypeOK, SnapshotInv
    <2>2. CASE call[d].id = id
      BY <1>1, <1>2, <2>1, <2>2 DEF Inv, TypeOK, InsertInv, Snapshot, Wrote
    <2>3. CASE call[d].id # id
      BY <1>1, <1>2, <2>1, <2>3 DEF Inv, TypeOK, Snapshot, Wrote
    <2> QED
      BY <2>2, <2>3
  <1>8. UpdateInv'
    BY <1>1, <1>2 DEF Inv, TypeOK, UpdateInv
  <1> QED
    BY <1>3, <1>4, <1>5, <1>6, <1>7, <1>8 DEF Inv

\* An insert stores under the id it owns.
LEMMA InsertOneInv == ASSUME Inv, NEW c \in Clients, insertOne(c) PROVE Inv'
  <1>1. CASE Store(c)
    BY <1>1, StoreInv DEF insertOne
  <1>2. CASE Reject(c, "E11000") /\ UNCHANGED <<docs, overtaken, applied>>
    BY <1>2, RejectInv DEF insertOne, history
  <1> QED
    BY <1>1, <1>2 DEF insertOne

\* A request that only reads, or deletes, starts.
LEMMA ArriveInv ==
    ASSUME Inv, NEW c \in Clients, NEW request \in Calls, NEW command,
           Arrives(c, request, command),
           \/ command = "findOne" /\ request.op \in {"get", "update"}
           \/ command = "findOneAndDelete" /\ request.op = "delete",
           UNCHANGED <<docs, allotted, now, held, stamp, outcome, history>>
    PROVE  Inv'
  <1>1. TypeOK'
    BY DEF Inv, TypeOK, Arrives, Locations, Commands, history
  <1>2. StoredInv'
    BY DEF Inv, StoredInv, history
  <1>3. ProgressInv' /\ InsertInv'
    BY DEF Inv, TypeOK, ProgressInv, InsertInv, Arrives, history
  <1>4. SnapshotInv' /\ UpdateInv'
    BY DEF Inv, TypeOK, SnapshotInv, Snapshot, UpdateInv, Arrives, history
  <1> QED
    BY <1>1, <1>2, <1>3, <1>4 DEF Inv

\* The other requests arrive.
LEMMA GetUpdateDeleteInv ==
    ASSUME Inv, NEW c \in Clients,
           getShipmentById(c) \/ updateShipment(c) \/ deleteShipment(c)
    PROVE  Inv'
  <1>1. CASE getShipmentById(c)
    BY <1>1, ArriveInv DEF getShipmentById, Calls
  <1>2. CASE updateShipment(c)
    BY <1>2, ArriveInv DEF updateShipment, Calls
  <1>3. CASE deleteShipment(c)
    BY <1>3, ArriveInv DEF deleteShipment, Calls
  <1> QED
    BY <1>1, <1>2, <1>3

\* A handler takes its snapshot.
LEMMA FindOneInv == ASSUME Inv, NEW c \in Clients, findOne(c) PROVE Inv'
  <1> USE DEF findOne, history
  <1>1. call[c] \in Calls /\ call[c].id \in Ids
    BY DEF Inv, TypeOK, Calls
  <1>2. TypeOK'
    BY <1>1 DEF Inv, TypeOK, Locations, Commands
  <1>3. StoredInv'
    BY DEF Inv, StoredInv
  <1>4. ProgressInv' /\ InsertInv' /\ UpdateInv'
    BY DEF Inv, TypeOK, ProgressInv, InsertInv, UpdateInv
  <1>5. SnapshotInv'
    <2>1. Snapshot(c)'
      <3>1. ASSUME NEW id \in Ids, docs[id] # null
            PROVE  /\ id \in allotted
                   /\ docs[id].createdAt <= docs[id].updatedAt /\ docs[id].updatedAt <= now
        BY <3>1 DEF Inv, StoredInv
      <3>2. held'[c] = docs[call[c].id] /\ UNCHANGED <<docs, allotted, now, call, retired>>
        BY DEF Inv, TypeOK
      <3> QED
        BY <1>1, <3>1, <3>2 DEF Snapshot
    <2>2. ASSUME NEW d \in Clients, d # c, pc'[d] \in {"resume", "findOneAndUpdate"}
          PROVE  Snapshot(d)'
      BY <2>2 DEF Inv, TypeOK, SnapshotInv, Snapshot
    <2> QED
      BY <2>1, <2>2 DEF SnapshotInv
  <1> QED
    BY <1>2, <1>3, <1>4, <1>5 DEF Inv

\* A command that fails settles its request and changes nothing.
LEMMA CommandFailsInv == ASSUME Inv, NEW c \in Clients, commandFails(c) PROVE Inv'
  BY RejectInv DEF commandFails, Commands

\* A GET settles with its snapshot.
LEMMA ResumeGetInv == ASSUME Inv, NEW c \in Clients, resumeGet(c) PROVE Inv'
  <1>1. CASE held[c] = null
    BY <1>1, RejectInv DEF resumeGet
  <1>2. CASE held[c] # null
    <2> USE <1>2 DEF resumeGet, Resolve, history
    <2>1. TypeOK'
      BY DEF Inv, TypeOK, Locations, Outcomes
    <2>2. StoredInv'
      BY DEF Inv, StoredInv
    <2>3. ProgressInv' /\ InsertInv'
      BY DEF Inv, TypeOK, ProgressInv, InsertInv
    <2>4. SnapshotInv' /\ UpdateInv'
      BY DEF Inv, TypeOK, SnapshotInv, Snapshot, UpdateInv
    <2> QED
      BY <2>1, <2>2, <2>3, <2>4 DEF Inv
  <1> QED
    BY <1>1, <1>2

\* An update is checked against the snapshot and stamped, or refused.
LEMMA ResumeUpdateInv == ASSUME Inv, NEW c \in Clients, resumeUpdate(c) PROVE Inv'
  <1>1. CASE \E error \in {"ResourceNotFound", "InvalidStatusTransition"} :
               Reject(c, error) /\ UNCHANGED stamp
    BY <1>1, RejectInv DEF resumeUpdate
  <1>2. CASE /\ held[c] # null
             /\ \/ call[c].body.status = undefined
                \/ isValidStatusTransition(held[c].status, call[c].body.status)
             /\ IssueUpdate(c)
    <2> USE <1>2 DEF resumeUpdate, IssueUpdate, history
    <2>1. TypeOK'
      BY DEF Inv, TypeOK, Locations, Commands
    <2>2. StoredInv'
      BY DEF Inv, StoredInv
    <2>3. ProgressInv' /\ InsertInv'
      BY DEF Inv, TypeOK, ProgressInv, InsertInv
    <2>4. SnapshotInv'
      BY DEF Inv, TypeOK, SnapshotInv, Snapshot
    <2>5. UpdateInv'
      BY InstantsAreNumbers DEF Inv, TypeOK, SnapshotInv, Snapshot, UpdateInv
    <2> QED
      BY <2>1, <2>2, <2>3, <2>4, <2>5 DEF Inv
  <1> QED
    BY <1>1, <1>2 DEF resumeUpdate

\* An answered client may ask again.
LEMMA RespondInv == ASSUME Inv, NEW c \in Clients, respond(c) PROVE Inv'
  <1> USE DEF respond
  <1>1. TypeOK'
    BY MaxTimeAssumption DEF Inv, TypeOK, Locations, Instants
  <1>2. StoredInv'
    BY DEF Inv, StoredInv
  <1>3. ProgressInv' /\ InsertInv'
    BY DEF Inv, TypeOK, ProgressInv, InsertInv
  <1>4. SnapshotInv' /\ UpdateInv'
    BY DEF Inv, TypeOK, SnapshotInv, Snapshot, UpdateInv
  <1> QED
    BY <1>1, <1>2, <1>3, <1>4 DEF Inv

\* Time passes.
LEMMA TickInv == ASSUME Inv, Tick PROVE Inv'
  <1> USE DEF Tick, history
  <1>1. TypeOK'
    BY MaxTimeAssumption DEF Inv, TypeOK, Instants
  <1>2. \A time \in Instants : time <= now => time <= now'
    BY InstantsAreNumbers DEF Inv, TypeOK
  <1>3. \A document \in Document : document.createdAt \in Instants /\ document.updatedAt \in Instants
    BY DEF Document
  <1>4. StoredInv'
    BY <1>2, <1>3 DEF Inv, TypeOK, StoredInv
  <1>5. ProgressInv' /\ InsertInv'
    BY <1>2, <1>3 DEF Inv, TypeOK, ProgressInv, InsertInv
  <1>6. SnapshotInv' /\ UpdateInv'
    BY <1>2, <1>3 DEF Inv, TypeOK, SnapshotInv, Snapshot, UpdateInv
  <1> QED
    BY <1>1, <1>4, <1>5, <1>6 DEF Inv

\* An update command is stamped after the creation of the document it finds.
LEMMA StampAfterCreation ==
    ASSUME Inv, NEW c \in Clients, pc[c] = "findOneAndUpdate", docs[call[c].id] # null
    PROVE  docs[call[c].id].createdAt <= stamp[c] /\ stamp[c] <= now
  <1>1. /\ held[c] \in Document /\ stamp[c] \in Nat
        /\ held[c].createdAt \in Nat /\ held[c].updatedAt \in Nat
    BY InstantsAreNumbers DEF Inv, TypeOK, UpdateInv, Document
  <1>2. /\ held[c].createdAt <= held[c].updatedAt /\ held[c].updatedAt <= stamp[c]
        /\ docs[call[c].id].createdAt = held[c].createdAt /\ stamp[c] <= now
    BY DEF Inv, UpdateInv, SnapshotInv, Snapshot
  <1> QED
    BY <1>1, <1>2

\* An update overtakes the other requests about its shipment.
LEMMA FindOneAndUpdateInv == ASSUME Inv, NEW c \in Clients, findOneAndUpdate(c) PROVE Inv'
  <1> DEFINE id == call[c].id
             new == applySet(docs[id], call[c].body, stamp[c])
  <1>1. CASE docs[id] = null
    BY <1>1, RejectInv DEF findOneAndUpdate, ApplyUpdate, NotFoundUnlessLost, history
  <1>2. CASE docs[id] # null
    <2>1. /\ pc[c] = "findOneAndUpdate" /\ pc' = [pc EXCEPT ![c] = "settled"]
          /\ docs' = [docs EXCEPT ![id] = new]
          /\ Wrote(c, id) /\ ResolveUnlessLost(c, new)
          /\ UNCHANGED <<allotted, now, call, held, stamp, retired>>
      BY <1>2
      DEF findOneAndUpdate, ApplyUpdate, ResolveUnlessLost, Resolve, Reject, Inv, TypeOK,
          ProgressInv, Calls
    <2>2. /\ id \in Ids /\ docs[id] \in Document /\ call[c].body \in UpdateBodies
          /\ stamp[c] \in Instants /\ held[c] \in Document
      BY <1>2, <2>1 DEF Inv, TypeOK, ProgressInv, UpdateInv, Calls
    <2>3. /\ new \in Document
          /\ new.trackingNumber = docs[id].trackingNumber
          /\ new.createdAt = docs[id].createdAt
          /\ new.updatedAt = stamp[c]
      BY <2>2, ApplySetFacts
    <2> HIDE DEF new
    <2>4. new # null
      BY <2>3, NullIsNoDocument
    <2>5. \A i \in Ids : docs'[i] = IF i = id THEN new ELSE docs[i]
      BY <2>1 DEF Inv, TypeOK
    <2>6. TypeOK'
      BY <2>1, <2>2, <2>3
      DEF ResolveUnlessLost, Resolve, Reject, normalizeError, Inv, TypeOK, Wrote, Locations,
          Outcomes
    <2>7. StoredInv'
      <3>1. docs[id].createdAt <= stamp[c] /\ stamp[c] <= now
        BY <1>2, <2>1, StampAfterCreation
      <3> QED
        BY <1>2, <2>1, <2>2, <2>3, <2>5, <3>1 DEF Inv, StoredInv
    <2>8. ProgressInv'
      BY <2>1 DEF Inv, TypeOK, ProgressInv, Wrote
    <2>9. InsertInv'
      BY <1>2, <2>1, <2>5 DEF Inv, TypeOK, InsertInv, Calls
    <2>10. SnapshotInv'
      <3> SUFFICES ASSUME NEW d \in Clients, pc'[d] \in {"resume", "findOneAndUpdate"}
                   PROVE  Snapshot(d)'
        BY DEF SnapshotInv
      <3>1. /\ d # c /\ pc[d] = pc'[d] /\ Snapshot(d)
            /\ call[d].id \in Ids
        BY <2>1 DEF Inv, TypeOK, SnapshotInv, Calls
      <3>2. CASE call[d].id = id
        BY <1>2, <2>1, <2>2, <2>3, <2>4, <2>5, <3>1, <3>2 DEF Inv, TypeOK, Snapshot, Wrote
      <3>3. CASE call[d].id # id
        BY <2>1, <2>5, <3>1, <3>3 DEF Inv, TypeOK, Snapshot, Wrote
      <3> QED
        BY <3>2, <3>3
    <2>11. UpdateInv'
      BY <2>1 DEF Inv, TypeOK, UpdateInv
    <2> QED
      BY <2>6, <2>7, <2>8, <2>9, <2>10, <2>11 DEF Inv
  <1> QED
    BY <1>1, <1>2

\* So does a removal, after which nothing is stored under the id.
LEMMA FindOneAndDeleteInv == ASSUME Inv, NEW c \in Clients, findOneAndDelete(c) PROVE Inv'
  <1> DEFINE id == call[c].id
  <1>1. CASE docs[id] = null
    BY <1>1, RejectInv DEF findOneAndDelete, NotFoundUnlessLost
  <1>2. CASE docs[id] # null
    <2>1. /\ pc[c] = "findOneAndDelete" /\ pc' = [pc EXCEPT ![c] = "settled"]
          /\ docs' = [docs EXCEPT ![id] = null]
          /\ retired' = retired \cup {id}
          /\ Wrote(c, id) /\ ResolveUnlessLost(c, docs[id])
          /\ UNCHANGED <<allotted, now, call, held, stamp>>
      BY <1>2 DEF findOneAndDelete, ResolveUnlessLost, Resolve, Reject
    <2>2. id \in Ids /\ docs[id] \in Document /\ id \in allotted
      BY <1>2, <2>1 DEF Inv, TypeOK, StoredInv, Calls
    <2>3. \A i \in Ids : docs'[i] = IF i = id THEN null ELSE docs[i]
      BY <2>1 DEF Inv, TypeOK
    <2>4. TypeOK'
      BY <2>1, <2>2
      DEF ResolveUnlessLost, Resolve, Reject, normalizeError, Inv, TypeOK, Wrote, Locations,
          Outcomes
    <2>5. StoredInv'
      BY <2>1, <2>2, <2>3 DEF Inv, StoredInv
    <2>6. ProgressInv' /\ UpdateInv'
      BY <2>1 DEF Inv, TypeOK, ProgressInv, UpdateInv, Wrote
    <2>7. InsertInv'
      BY <1>2, <2>1, <2>3 DEF Inv, TypeOK, InsertInv, Calls
    <2>8. SnapshotInv'
      <3> SUFFICES ASSUME NEW d \in Clients, pc'[d] \in {"resume", "findOneAndUpdate"}
                   PROVE  Snapshot(d)'
        BY DEF SnapshotInv
      <3>1. /\ d # c /\ pc[d] = pc'[d] /\ Snapshot(d)
            /\ call[d].id \in Ids
        BY <2>1 DEF Inv, TypeOK, SnapshotInv, Calls
      <3> QED
        BY <2>1, <2>2, <2>3, <3>1 DEF Inv, TypeOK, Snapshot, Wrote
    <2> QED
      BY <2>4, <2>5, <2>6, <2>7, <2>8 DEF Inv
  <1> QED
    BY <1>1, <1>2

\* A step that changes nothing.
LEMMA StutterInv == Inv /\ UNCHANGED vars => Inv'
  BY DEF vars, program, history, Inv, TypeOK, StoredInv, ProgressInv, InsertInv,
         SnapshotInv, Snapshot, UpdateInv

\* Inv is inductive.
LEMMA NextInv == Inv /\ [Next]_vars => Inv'
  BY CreateShipmentInv, GetUpdateDeleteInv, InsertOneInv, FindOneInv, FindOneAndUpdateInv,
     FindOneAndDeleteInv, CommandFailsInv, ResumeGetInv, ResumeUpdateInv, RespondInv, TickInv,
     StutterInv
  DEF Next, clientStep, serverStep

\* Inv holds in every reachable state.
THEOREM SpecInv == Spec => []Inv
  BY InitInv, NextInv, PTL DEF Spec

\* The collection, the clock and every request keep their types.
THEOREM SpecTypeOK == Spec => []TypeOK
  BY SpecInv, PTL DEF Inv

-----------------------------------------------------------------------------
(* How the collection changes.                                              *)

\* One step changes at most one document: it stores a new one, applies an update
\* request to a stored one, or removes one.
LEMMA CollectionChanges ==
    ASSUME Inv, Next, docs' # docs
    PROVE  \E c \in Clients :
             LET id == call[c].id IN
             /\ id \in Ids
             /\ \/ insertOne(c) /\ docs[id] = null /\ docs' = [docs EXCEPT ![id] = held[c]]
                \/ /\ findOneAndUpdate(c) /\ docs[id] # null
                   /\ docs' = [docs EXCEPT ![id] = applySet(docs[id], call[c].body, stamp[c])]
                \/ findOneAndDelete(c) /\ docs[id] # null /\ docs' = [docs EXCEPT ![id] = null]
  <1>1. PICK c \in Clients : clientStep(c) \/ serverStep(c)
    BY DEF Next, Tick
  <1>2. insertOne(c) \/ findOneAndUpdate(c) \/ findOneAndDelete(c)
    BY <1>1
    DEF clientStep, createShipment, getShipmentById, updateShipment, deleteShipment, serverStep,
        findOne, commandFails, resumeGet, resumeUpdate, respond
  <1>3. pc[c] # "idle" /\ call[c].id \in Ids
    BY <1>2 DEF insertOne, findOneAndUpdate, findOneAndDelete, Inv, TypeOK, Calls
  <1>4. CASE insertOne(c)
    BY <1>3, <1>4 DEF insertOne, Store, Inv, InsertInv
  <1>5. CASE findOneAndUpdate(c)
    BY <1>3, <1>5 DEF findOneAndUpdate, ApplyUpdate
  <1>6. CASE findOneAndDelete(c)
    BY <1>3, <1>6 DEF findOneAndDelete
  <1> QED
    BY <1>2, <1>4, <1>5, <1>6

\* No two stored shipments ever share a tracking number.
THEOREM SpecUniqueTrackingNumbers == Spec => []UniqueTrackingNumbers
  <1>1. Init => UniqueTrackingNumbers
    BY DEF Init, UniqueTrackingNumbers
  <1>2. Inv /\ UniqueTrackingNumbers /\ [Next]_vars => UniqueTrackingNumbers'
    <2> SUFFICES ASSUME Inv, UniqueTrackingNumbers, Next, docs' # docs PROVE UniqueTrackingNumbers'
      BY DEF UniqueTrackingNumbers, vars, program
    <2>1. PICK c \in Clients :
            LET id == call[c].id IN
            /\ id \in Ids
            /\ \/ insertOne(c) /\ docs[id] = null /\ docs' = [docs EXCEPT ![id] = held[c]]
               \/ /\ findOneAndUpdate(c) /\ docs[id] # null
                  /\ docs' = [docs EXCEPT ![id] = applySet(docs[id], call[c].body, stamp[c])]
               \/ findOneAndDelete(c) /\ docs[id] # null /\ docs' = [docs EXCEPT ![id] = null]
      BY CollectionChanges
    <2>2. CASE insertOne(c)
      <3>1. TrackingNumberFree(held[c].trackingNumber) /\ docs' = [docs EXCEPT ![call[c].id] = held[c]]
        BY <2>1, <2>2 DEF insertOne, Store
      <3> QED
        BY <2>1, <3>1 DEF Inv, TypeOK, UniqueTrackingNumbers, TrackingNumberFree
    <2>3. CASE findOneAndUpdate(c) /\ docs[call[c].id] # null
      <3> DEFINE new == applySet(docs[call[c].id], call[c].body, stamp[c])
      <3>1. docs' = [docs EXCEPT ![call[c].id] = new]
        BY <2>3 DEF findOneAndUpdate, ApplyUpdate
      <3>2. new.trackingNumber = docs[call[c].id].trackingNumber
        BY <2>3, ApplySetFacts DEF findOneAndUpdate, ApplyUpdate, Inv, TypeOK, ProgressInv, Calls
      <3> QED
        BY <2>1, <2>3, <3>1, <3>2 DEF Inv, TypeOK, UniqueTrackingNumbers
    <2>4. CASE docs' = [docs EXCEPT ![call[c].id] = null]
      BY <2>1, <2>4 DEF Inv, TypeOK, UniqueTrackingNumbers
    <2> QED
      BY <2>1, <2>2, <2>3, <2>4
  <1> QED
    BY <1>1, <1>2, SpecInv, PTL DEF Spec

\* A stored document that changes and stays stored has had an update request for
\* it applied.
LEMMA StoredChange ==
    ASSUME Inv, Next, NEW id \in Ids,
           docs[id] # null, docs'[id] # null, docs'[id] # docs[id]
    PROVE  \E c \in Clients : /\ findOneAndUpdate(c) /\ Updates(c, id)
                              /\ docs'[id] = applySet(docs[id], call[c].body, stamp[c])
                              /\ call[c].body \in UpdateBodies /\ stamp[c] \in Instants
                              /\ docs[id] \in Document
  <1>1. PICK c \in Clients :
          /\ call[c].id \in Ids
          /\ \/ docs[call[c].id] = null /\ docs' = [docs EXCEPT ![call[c].id] = held[c]]
             \/ /\ findOneAndUpdate(c)
                /\ docs' = [docs EXCEPT ![call[c].id] =
                                applySet(docs[call[c].id], call[c].body, stamp[c])]
             \/ docs' = [docs EXCEPT ![call[c].id] = null]
    BY CollectionChanges
  <1>2. call[c].id = id /\ findOneAndUpdate(c)
    BY <1>1 DEF Inv, TypeOK
  <1>3. Updates(c, id)
    BY <1>2 DEF Updates, findOneAndUpdate, ApplyUpdate, ResolveUnlessLost, Resolve, Reject, Inv, TypeOK
  <1> QED
    BY <1>1, <1>2, <1>3 DEF Inv, TypeOK, ProgressInv, findOneAndUpdate, Calls

\* Without a write that overtakes it, an update moves the status only along
\* STATUS_TRANSITIONS.
THEOREM SpecStatusBrokenOnlyByRace == Spec => StatusBrokenOnlyByRace
  <1>1. Inv /\ [Next]_vars => [StatusStep]_vars
    <2> SUFFICES ASSUME Inv, Next, NEW id \in Ids, docs[id] # null, docs'[id] # null,
                        ~ isValidStatusTransition(docs[id].status, docs'[id].status)
                 PROVE  \E c \in Clients : Updates(c, id) /\ overtaken[c]
      BY DEF StatusStep
    <2>1. docs'[id] # docs[id]
      BY DEF isValidStatusTransition
    <2>2. PICK c \in Clients : /\ Updates(c, id)
                               /\ docs'[id] = applySet(docs[id], call[c].body, stamp[c])
                               /\ call[c].body \in UpdateBodies /\ stamp[c] \in Instants
                               /\ docs[id] \in Document
      BY <2>1, StoredChange
    <2>3. docs'[id].status = Given(call[c].body.status, docs[id].status)
      BY <2>2, ApplySetFacts
    <2>4. \/ call[c].body.status = undefined
          \/ isValidStatusTransition(held[c].status, call[c].body.status)
      BY <2>2 DEF Updates, Inv, UpdateInv
    <2>5. ~ overtaken[c] => held[c] = docs[id]
      BY <2>2 DEF Updates, Inv, SnapshotInv, Snapshot
    <2>6. overtaken[c]
      BY <2>3, <2>4, <2>5 DEF Given, isValidStatusTransition
    <2> QED
      BY <2>2, <2>6
  <1> QED
    BY <1>1, SpecInv, PTL DEF Spec, StatusBrokenOnlyByRace

\* The times of a stored shipment are in order, and not in the future.
TimestampsInOrder ==
    \A id \in Ids : docs[id] # null =>
        docs[id].createdAt <= docs[id].updatedAt /\ docs[id].updatedAt <= now

\* createdAt <= updatedAt <= now for every stored shipment, however updates race.
THEOREM SpecTimestampsInOrder == Spec => []TimestampsInOrder
  <1>1. Inv => TimestampsInOrder
    BY DEF Inv, StoredInv, TimestampsInOrder
  <1> QED
    BY <1>1, SpecInv, PTL

\* An update sets updatedAt to the instant it was issued, which is earlier than what
\* is stored by a race and by nothing else.
THEOREM SpecUpdatedAtBackOnlyByRace == Spec => UpdatedAtBackOnlyByRace
  <1>1. Inv /\ [Next]_vars => [UpdatedAtStep]_vars
    <2> SUFFICES ASSUME Inv, Next, NEW id \in Ids, docs[id] # null, docs'[id] # null,
                        docs'[id] # docs[id]
                 PROVE  \E c \in Clients :
                          /\ Updates(c, id) /\ docs'[id].updatedAt = stamp[c]
                          /\ overtaken[c] \/ docs[id].updatedAt <= stamp[c]
      BY DEF UpdatedAtStep
    <2>1. PICK c \in Clients : /\ Updates(c, id)
                               /\ docs'[id] = applySet(docs[id], call[c].body, stamp[c])
                               /\ call[c].body \in UpdateBodies /\ stamp[c] \in Instants
                               /\ docs[id] \in Document
      BY StoredChange
    <2>2. overtaken[c] \/ (held[c] = docs[id] /\ held[c].updatedAt <= stamp[c])
      BY <2>1 DEF Updates, Inv, SnapshotInv, Snapshot, UpdateInv
    <2>3. docs'[id].updatedAt = stamp[c]
      BY <2>1, ApplySetFacts
    <2> QED
      BY <2>1, <2>2, <2>3
  <1> QED
    BY <1>1, SpecInv, PTL DEF Spec, UpdatedAtBackOnlyByRace

\* What overlapping requests wrote to the fields an update does not name survives it.
THEOREM SpecOnlyRequestedFieldsChange == Spec => OnlyRequestedFieldsChange
  <1>1. Inv /\ [Next]_vars => [FieldsStep]_vars
    <2> SUFFICES ASSUME Inv, Next, NEW id \in Ids, docs[id] # null, docs'[id] # null,
                        docs'[id] # docs[id]
                 PROVE  \E c \in Clients :
                          /\ Updates(c, id)
                          /\ \A f \in TextFields :
                                docs'[id].text[f] # docs[id].text[f]
                                   => docs'[id].text[f] = call[c].body.text[f]
                          /\ docs'[id].status # docs[id].status
                                => docs'[id].status = call[c].body.status
                          /\ docs'[id].trackingNumber = docs[id].trackingNumber
                          /\ docs'[id].createdAt = docs[id].createdAt
      BY DEF FieldsStep
    <2>1. PICK c \in Clients : /\ Updates(c, id)
                               /\ docs'[id] = applySet(docs[id], call[c].body, stamp[c])
                               /\ call[c].body \in UpdateBodies /\ stamp[c] \in Instants
                               /\ docs[id] \in Document
      BY StoredChange
    <2>2. \A f \in TextFields : docs'[id].text[f] = Given(call[c].body.text[f], docs[id].text[f])
      BY <2>1 DEF applySet, Document
    <2> QED
      BY <2>1, <2>2, ApplySetFacts DEF Given
  <1> QED
    BY <1>1, SpecInv, PTL DEF Spec, OnlyRequestedFieldsChange

\* A removal that is acknowledged was made by this very command.
LEMMA AcknowledgedRemoval ==
    ASSUME Inv, NEW c \in Clients, pc[c] = "findOneAndDelete",
           findOneAndDelete(c) \/ commandFails(c), outcome'[c].statusCode = 200
    PROVE  call[c].id \notin retired /\ call[c].id \in retired' /\ docs'[call[c].id] = null
  <1>1. ~ Reject(c, "MongoNetworkError") /\ ~ Reject(c, "ResourceNotFound")
    BY DEF Reject, normalizeError, Inv, TypeOK
  <1>2. /\ docs[call[c].id] # null /\ docs' = [docs EXCEPT ![call[c].id] = null]
        /\ retired' = retired \cup {call[c].id}
    BY <1>1 DEF findOneAndDelete, commandFails, NotFoundUnlessLost
  <1> QED
    BY <1>2 DEF Inv, TypeOK, StoredInv, Calls

\* A removal is acknowledged once, and it is final.
THEOREM SpecDeletedOnce == Spec => DeletedOnce
  <1>1. Inv /\ [Next]_vars => [RemovalStep]_vars
    <2> SUFFICES ASSUME Inv, Next, NEW c \in Clients, pc[c] = "findOneAndDelete",
                        pc'[c] = "settled", outcome'[c].statusCode = 200
                 PROVE  call[c].id \notin retired /\ call[c].id \in retired' /\ docs'[call[c].id] = null
      BY DEF RemovalStep
    <2>1. findOneAndDelete(c) \/ commandFails(c)
      BY DEF Next, Tick, clientStep, serverStep, Inv, TypeOK, ProgressInv, createShipment,
             getShipmentById, updateShipment, deleteShipment, Arrives, insertOne, Store, findOne,
             findOneAndUpdate, ApplyUpdate, findOneAndDelete, commandFails, resumeGet,
             resumeUpdate, respond, Resolve, Reject, ResolveUnlessLost, NotFoundUnlessLost,
             IssueUpdate
    <2> QED
      BY <2>1, AcknowledgedRemoval
  <1> QED
    BY <1>1, SpecInv, PTL DEF Spec, DeletedOnce

-----------------------------------------------------------------------------
(* ShipmentService implements ShipmentRegistry.                             *)

\* The registry's helpers are the service's.
LEMMA SameOperators ==
    /\ Registry!Document = Document /\ Registry!Instants = Instants
    /\ \A d, t, m : Registry!newShipment(d, t, m) = newShipment(d, t, m)
    /\ \A d, t, m : Registry!applySet(d, t, m) = applySet(d, t, m)
  BY DEF Registry!Document, Document, Registry!Instants, Instants,
         Registry!newShipment, newShipment, Registry!applySet, applySet, Registry!Given, Given,
         Registry!SHIPMENT_STATUSES, SHIPMENT_STATUSES

\* An insert is the registry's Create.
LEMMA InsertImplementsCreate ==
    ASSUME Inv, NEW c \in Clients, insertOne(c), docs' # docs
    PROVE  \E id \in Ids : Registry!Create(id)
  <1> DEFINE id == call[c].id
  <1>1. /\ id \in Ids /\ docs[id] = null /\ id \notin retired
        /\ held[c] \in Document /\ call[c].body \in CreateBodies
        /\ held[c] = newShipment(call[c].body, held[c].trackingNumber, held[c].createdAt)
    BY NullIsNoDocument DEF insertOne, Inv, TypeOK, InsertInv, ProgressInv, Calls
  <1>2. /\ TrackingNumberFree(held[c].trackingNumber)
        /\ docs' = [docs EXCEPT ![id] = held[c]]
        /\ retired' = retired
    BY DEF insertOne, Store, Reject
  <1>3. /\ held[c].trackingNumber \in TrackingNumbers /\ held[c].createdAt \in Instants
    BY <1>1 DEF Document
  <1>4. held[c].trackingNumber \notin Registry!TrackingNumbersInUse
    BY <1>2 DEF TrackingNumberFree, Registry!TrackingNumbersInUse, Registry!Live
  <1>5. /\ held[c] = Registry!newShipment(call[c].body, held[c].trackingNumber, held[c].createdAt)
        /\ held[c].createdAt \in Registry!Instants
    BY <1>1, <1>3, SameOperators
  <1>6. \E data \in CreateBodies,
           trackingNumber \in TrackingNumbers \ Registry!TrackingNumbersInUse,
           time \in Registry!Instants :
             docs' = [docs EXCEPT ![id] = Registry!newShipment(data, trackingNumber, time)]
    BY <1>1, <1>2, <1>3, <1>4, <1>5
  <1> QED
    BY <1>1, <1>2, <1>6 DEF Registry!Create

\* An update that finds its document is the registry's Update.
LEMMA UpdateImplementsUpdate ==
    ASSUME Inv, NEW c \in Clients, findOneAndUpdate(c), docs[call[c].id] # null
    PROVE  \E id \in Ids : Registry!Update(id)
  <1> DEFINE id == call[c].id
  <1>1. /\ id \in Ids /\ call[c].body \in UpdateBodies
        /\ stamp[c] \in Instants /\ docs[id] \in Document
    BY DEF findOneAndUpdate, Inv, TypeOK, ProgressInv, Calls
  <1>2. docs[id].createdAt <= stamp[c]
    BY StampAfterCreation DEF findOneAndUpdate
  <1>3. stamp[c] \in docs[id].createdAt .. MaxTime
    BY <1>1, <1>2, MaxTimeAssumption DEF Document, Instants
  <1>4. /\ docs' = [docs EXCEPT ![id] = Registry!applySet(docs[id], call[c].body, stamp[c])]
        /\ retired' = retired
    BY SameOperators DEF findOneAndUpdate, ApplyUpdate
  <1> QED
    BY <1>1, <1>3, <1>4 DEF Registry!Update

\* A removal is the registry's Delete.
LEMMA DeleteImplementsDelete ==
    ASSUME Inv, NEW c \in Clients, findOneAndDelete(c), docs[call[c].id] # null
    PROVE  \E id \in Ids : Registry!Delete(id)
  <1>1. call[c].id \in Ids
    BY DEF findOneAndDelete, Inv, TypeOK, Calls
  <1> QED
    BY <1>1 DEF findOneAndDelete, Registry!Delete

\* No other step touches the collection or the history of removals.
LEMMA OtherwiseUntouched ==
    ASSUME Inv, [Next]_vars,
           ~ \E c \in Clients : findOneAndDelete(c) /\ docs[call[c].id] # null
    PROVE  retired' = retired
  BY DEF vars, history, Next, Tick, clientStep, serverStep, createShipment, getShipmentById,
         updateShipment, deleteShipment, insertOne, findOne, findOneAndUpdate, ApplyUpdate,
         findOneAndDelete, commandFails, resumeGet, resumeUpdate, respond

\* For every set of ids, clients and bodies, the service implements the registry.
THEOREM SpecImplementsRegistry == Spec => ImplementsRegistry
  <1>1. Init => Registry!Init
    BY DEF Init, Registry!Init
  <1>2. Inv /\ [Next]_vars => [Registry!Next]_(Registry!vars)
    <2> SUFFICES ASSUME Inv, [Next]_vars PROVE Registry!Write \/ UNCHANGED <<docs, retired>>
      BY DEF Registry!vars, Registry!Next
    <2>1. CASE docs' = docs /\ ~ \E c \in Clients : findOneAndDelete(c) /\ docs[call[c].id] # null
      BY <2>1, OtherwiseUntouched
    <2>2. CASE \E c \in Clients : findOneAndDelete(c) /\ docs[call[c].id] # null
      BY <2>2, DeleteImplementsDelete DEF Registry!Write
    <2>3. CASE docs' # docs
      <3>1. Next
        BY <2>3 DEF vars, program
      <3> QED
        BY <2>3, <3>1, CollectionChanges, InsertImplementsCreate, UpdateImplementsUpdate,
           DeleteImplementsDelete DEF Registry!Write
    <2> QED
      BY <2>1, <2>2, <2>3
  <1> QED
    BY <1>1, <1>2, SpecInv, PTL DEF Spec, ImplementsRegistry, Registry!Spec

-----------------------------------------------------------------------------
(* What the answers tell.                                                   *)

\* A step of one request leaves the locals of every other request alone.
LEMMA OthersUntouched ==
    ASSUME Inv, NEW c \in Clients, clientStep(c) \/ serverStep(c), NEW d \in Clients, d # c
    PROVE  /\ pc'[d] = pc[d] /\ call'[d] = call[d] /\ held'[d] = held[d]
           /\ stamp'[d] = stamp[d] /\ outcome'[d] = outcome[d] /\ applied'[d] = applied[d]
  <1> USE DEF Inv, TypeOK, history
  <1>1. CASE clientStep(c)
    BY <1>1 DEF clientStep, createShipment, getShipmentById, updateShipment, deleteShipment, Arrives
  <1>2. CASE insertOne(c) \/ findOneAndUpdate(c) \/ findOneAndDelete(c)
    BY <1>2 DEF insertOne, Store, findOneAndUpdate, ApplyUpdate, findOneAndDelete, Wrote, Resolve,
                Reject, ResolveUnlessLost, NotFoundUnlessLost
  <1>3. CASE findOne(c) \/ commandFails(c) \/ resumeGet(c) \/ resumeUpdate(c) \/ respond(c)
    BY <1>3 DEF findOne, commandFails, resumeGet, resumeUpdate, respond, Resolve, Reject,
                IssueUpdate
  <1> QED
    BY <1>1, <1>2, <1>3 DEF serverStep

\* A request that settles, with the unique index in place or not, does so in one of
\* these ways.
LEMMA WaysToSettle ==
    ASSUME Inv, NEW c \in Clients, pc'[c] = "settled",
           clientStep(c) \/ serverStep(c) \/ insertOneUnindexed(c)
    PROVE  /\ pc[c] # "settled"
           /\ call' = call /\ held' = held /\ stamp' = stamp
           /\ \/ /\ \/ /\ pc[c] = "insertOne" /\ docs' = [docs EXCEPT ![call[c].id] = held[c]]
                       /\ Resolve(c, held[c])
                    \/ /\ findOneAndUpdate(c) /\ docs[call[c].id] # null
                       /\ Resolve(c, applySet(docs[call[c].id], call[c].body, stamp[c]))
                    \/ /\ findOneAndDelete(c) /\ docs[call[c].id] # null
                       /\ Resolve(c, docs[call[c].id])
                 /\ Wrote(c, call[c].id)
              \/ /\ resumeGet(c) /\ held[c] # null
                 /\ Resolve(c, held[c])
                 /\ applied' = applied
              \/ Reject(c, "MongoNetworkError")
              \/ /\ \E error : Reject(c, error)
                 /\ applied' = applied
  <1> USE DEF Inv, TypeOK, history
  <1>1. \/ insertOne(c) \/ insertOneUnindexed(c) \/ findOneAndUpdate(c) \/ findOneAndDelete(c)
        \/ commandFails(c) \/ resumeGet(c) \/ resumeUpdate(c)
    BY DEF clientStep, createShipment, getShipmentById, updateShipment, deleteShipment, Arrives,
           serverStep, findOne, respond
  <1>2. CASE insertOne(c) \/ insertOneUnindexed(c)
    BY <1>2 DEF insertOne, insertOneUnindexed, Store, ResolveUnlessLost
  <1>3. CASE findOneAndUpdate(c)
    <2>1. CASE docs[call[c].id] = null
      BY <1>3, <2>1 DEF findOneAndUpdate, ApplyUpdate, NotFoundUnlessLost
    <2>2. CASE docs[call[c].id] # null
      <3>1. call[c].id \in Ids
        BY <1>3 DEF findOneAndUpdate, Calls
      <3>2. docs'[call[c].id] = applySet(docs[call[c].id], call[c].body, stamp[c])
        BY <1>3, <2>2, <3>1 DEF findOneAndUpdate, ApplyUpdate
      <3> QED
        BY <1>3, <2>2, <3>2 DEF findOneAndUpdate, ApplyUpdate, ResolveUnlessLost
    <2> QED
      BY <2>1, <2>2
  <1>4. CASE findOneAndDelete(c)
    BY <1>4 DEF findOneAndDelete, NotFoundUnlessLost, ResolveUnlessLost
  <1>5. CASE commandFails(c)
    BY <1>5 DEF commandFails, Commands
  <1>6. CASE resumeGet(c)
    BY <1>6 DEF resumeGet
  <1>7. CASE resumeUpdate(c)
    BY <1>7 DEF resumeUpdate, IssueUpdate
  <1> QED
    BY <1>1, <1>2, <1>3, <1>4, <1>5, <1>6, <1>7

\* The answer a request gets tells what it did.
LEMMA AnswerMatchesEffect ==
    ASSUME Inv, NEW c \in Clients, pc'[c] = "settled",
           clientStep(c) \/ serverStep(c) \/ insertOneUnindexed(c)
    PROVE  /\ outcome'[c].statusCode \in {400, 404, 409} => ~ applied'[c]
           /\ outcome'[c].statusCode \in {200, 201} =>
                 outcome'[c].shipment # null /\ (applied'[c] <=> call'[c].op # "get")
  <1>1. pc[c] # "settled" /\ ~ applied[c]
    BY WaysToSettle DEF Inv, ProgressInv
  <1>2. CASE /\ Wrote(c, call[c].id) /\ call' = call
             /\ \/ pc[c] = "insertOne" /\ Resolve(c, held[c])
                \/ /\ findOneAndUpdate(c) /\ docs[call[c].id] # null
                   /\ Resolve(c, applySet(docs[call[c].id], call[c].body, stamp[c]))
                \/ /\ findOneAndDelete(c) /\ docs[call[c].id] # null
                   /\ Resolve(c, docs[call[c].id])
    <2>1. applied'[c]
      BY <1>2 DEF Wrote, Inv, TypeOK
    <2>2. call'[c].op = call[c].op /\ call[c].op # "get"
      BY <1>2 DEF Inv, ProgressInv, findOneAndUpdate, findOneAndDelete
    <2>3. outcome'[c].statusCode \in {200, 201} /\ outcome'[c].shipment # null
      <3>1. CASE pc[c] = "insertOne" /\ Resolve(c, held[c])
        BY <3>1 DEF Resolve, Inv, TypeOK, InsertInv
      <3>2. CASE /\ findOneAndUpdate(c) /\ docs[call[c].id] # null
                 /\ Resolve(c, applySet(docs[call[c].id], call[c].body, stamp[c]))
        <4>1. applySet(docs[call[c].id], call[c].body, stamp[c]) \in Document
          BY <3>2, ApplySetFacts DEF findOneAndUpdate, Inv, TypeOK, ProgressInv, Calls
        <4> QED
          BY <3>2, <4>1, NullIsNoDocument DEF Resolve, Inv, TypeOK
      <3>3. CASE docs[call[c].id] # null /\ Resolve(c, docs[call[c].id])
        BY <3>3 DEF Resolve, Inv, TypeOK
      <3> QED
        BY <1>2, <3>1, <3>2, <3>3
    <2> QED
      BY <2>1, <2>2, <2>3
  <1>3. CASE resumeGet(c) /\ held[c] # null /\ Resolve(c, held[c]) /\ applied' = applied
    BY <1>1, <1>3 DEF resumeGet, Resolve, Inv, TypeOK
  <1>4. CASE Reject(c, "MongoNetworkError")
    BY <1>4 DEF Reject, normalizeError, Inv, TypeOK
  <1>5. CASE applied' = applied /\ \E error : Reject(c, error)
    BY <1>1, <1>5 DEF Reject, normalizeError, Inv, TypeOK
  <1> QED
    BY <1>2, <1>3, <1>4, <1>5, WaysToSettle

\* A 4xx answer means nothing was changed; 200 and 201 mean the write was made.
THEOREM SpecAnswersMatchEffects == Spec => []AnswersMatchEffects
  <1>1. Init => AnswersMatchEffects
    BY DEF Init, AnswersMatchEffects
  <1>2. Inv /\ AnswersMatchEffects /\ [Next]_vars => AnswersMatchEffects'
    <2> SUFFICES ASSUME Inv, AnswersMatchEffects, [Next]_vars, NEW c \in Clients, pc'[c] = "settled"
                 PROVE  /\ outcome'[c].statusCode \in {400, 404, 409} => ~ applied'[c]
                        /\ outcome'[c].statusCode \in {200, 201} =>
                              outcome'[c].shipment # null /\ (applied'[c] <=> call'[c].op # "get")
      BY DEF AnswersMatchEffects
    <2>1. CASE clientStep(c) \/ serverStep(c)
      BY <2>1, AnswerMatchesEffect
    <2>2. CASE ~ (clientStep(c) \/ serverStep(c))
      <3>1. UNCHANGED <<pc[c], call[c], outcome[c], applied[c]>>
        BY <2>2, OthersUntouched DEF Next, Tick, vars, program, history
      <3> QED
        BY <3>1 DEF AnswersMatchEffects
    <2> QED
      BY <2>1, <2>2
  <1> QED
    BY <1>1, <1>2, SpecInv, PTL DEF Spec

\* A stored document stays stored, or its removal is recorded for good.
LEMMA RemovalsAreRecorded ==
    ASSUME Inv, [Next]_vars
    PROVE  /\ retired \subseteq retired'
           /\ \A id \in Ids : docs[id] # null => docs'[id] # null \/ id \in retired'
  <1>1. CASE docs' = docs
    <2>1. retired \subseteq retired'
      BY OtherwiseUntouched DEF findOneAndDelete
    <2> QED
      BY <1>1, <2>1
  <1>2. CASE docs' # docs
    <2>1. Next
      BY <1>2 DEF vars, program
    <2>2. PICK c \in Clients :
             LET id == call[c].id IN
             /\ id \in Ids
             /\ \/ insertOne(c) /\ docs[id] = null /\ docs' = [docs EXCEPT ![id] = held[c]]
                \/ /\ findOneAndUpdate(c) /\ docs[id] # null
                   /\ docs' = [docs EXCEPT ![id] = applySet(docs[id], call[c].body, stamp[c])]
                \/ findOneAndDelete(c) /\ docs[id] # null /\ docs' = [docs EXCEPT ![id] = null]
      BY <1>2, <2>1, CollectionChanges
    <2>3. CASE insertOne(c)
      BY <2>2, <2>3 DEF insertOne, Inv, TypeOK, InsertInv, findOneAndUpdate, ApplyUpdate,
                        findOneAndDelete
    <2>4. CASE findOneAndUpdate(c)
      <3>1. applySet(docs[call[c].id], call[c].body, stamp[c]) # null
        BY <2>2, <2>4, ApplySetFacts, NullIsNoDocument
        DEF findOneAndUpdate, insertOne, findOneAndDelete, Inv, TypeOK, ProgressInv, Calls
      <3> QED
        BY <2>2, <2>4, <3>1 DEF findOneAndUpdate, ApplyUpdate, insertOne, findOneAndDelete, Inv,
                                TypeOK
    <2>5. CASE findOneAndDelete(c)
      BY <2>2, <2>5 DEF findOneAndDelete, insertOne, findOneAndUpdate, ApplyUpdate, Inv, TypeOK
    <2> QED
      BY <2>2, <2>3, <2>4, <2>5
  <1> QED
    BY <1>1, <1>2

\* An acknowledged shipment is stored until it is removed.
THEOREM SpecCreatedIsStored == Spec => []CreatedIsStored
  <1>1. Init => CreatedIsStored
    BY DEF Init, CreatedIsStored
  <1>2. Inv /\ CreatedIsStored /\ [Next]_vars => CreatedIsStored'
    <2> SUFFICES ASSUME Inv, CreatedIsStored, [Next]_vars, NEW c \in Clients,
                        pc'[c] = "settled", call'[c].op = "create", outcome'[c].statusCode = 201
                 PROVE  docs'[call'[c].id] # null \/ call'[c].id \in retired'
      BY DEF CreatedIsStored
    <2>1. CASE clientStep(c) \/ serverStep(c)
      <3>1. /\ pc[c] = "insertOne" /\ call' = call
            /\ docs' = [docs EXCEPT ![call[c].id] = held[c]]
        BY <2>1, WaysToSettle
        DEF insertOne, findOneAndUpdate, findOneAndDelete, resumeGet, Resolve, Reject,
            normalizeError, Inv, TypeOK, ProgressInv
      <3> QED
        BY <3>1 DEF insertOne, Inv, TypeOK, InsertInv, Calls
    <2>2. CASE ~ (clientStep(c) \/ serverStep(c))
      <3>1. UNCHANGED <<pc[c], call[c], outcome[c]>>
        BY <2>2, OthersUntouched DEF Next, Tick, vars, program, history
      <3>2. call[c].id \in Ids
        BY <3>1 DEF Inv, TypeOK, Calls
      <3> QED
        BY <3>1, <3>2, RemovalsAreRecorded DEF CreatedIsStored
    <2> QED
      BY <2>1, <2>2
  <1> QED
    BY <1>1, <1>2, SpecInv, PTL DEF Spec

\* The answer an update request gets shows what it asked for.
LEMMA UpdateAnswer ==
    ASSUME Inv, NEW c \in Clients, pc'[c] = "settled",
           clientStep(c) \/ serverStep(c) \/ insertOneUnindexed(c),
           call'[c].op = "update", outcome'[c].statusCode = 200
    PROVE  LET shipment == outcome'[c].shipment IN
           /\ shipment = applySet(shipment, call'[c].body, stamp'[c])
           /\ shipment.trackingNumber = held'[c].trackingNumber
           /\ shipment.createdAt = held'[c].createdAt
  <1> DEFINE new == applySet(docs[call[c].id], call[c].body, stamp[c])
  <1>1. /\ findOneAndUpdate(c) /\ docs[call[c].id] # null /\ Resolve(c, new)
        /\ call' = call /\ held' = held /\ stamp' = stamp
    BY WaysToSettle
    DEF findOneAndDelete, resumeGet, Resolve, Reject, normalizeError, Inv, TypeOK, ProgressInv
  <1>2. docs[call[c].id] \in Document /\ call[c].body \in UpdateBodies /\ stamp[c] \in Instants
    BY <1>1 DEF findOneAndUpdate, Inv, TypeOK, ProgressInv, Calls
  <1>3. /\ docs[call[c].id].trackingNumber = held[c].trackingNumber
        /\ docs[call[c].id].createdAt = held[c].createdAt
    BY <1>1 DEF findOneAndUpdate, Inv, UpdateInv, SnapshotInv, Snapshot
  <1>4. outcome'[c].shipment = new
    BY <1>1 DEF Resolve, Inv, TypeOK
  <1> QED
    BY <1>1, <1>2, <1>3, <1>4, ApplySetFacts, ApplySetIdempotent

\* The answer to an update shows the requested values on the shipment that was checked.
THEOREM SpecUpdateAnswerShowsUpdate == Spec => []UpdateAnswerShowsUpdate
  <1>1. Init => UpdateAnswerShowsUpdate
    BY DEF Init, UpdateAnswerShowsUpdate
  <1>2. Inv /\ UpdateAnswerShowsUpdate /\ [Next]_vars => UpdateAnswerShowsUpdate'
    <2> SUFFICES ASSUME Inv, UpdateAnswerShowsUpdate, [Next]_vars, NEW c \in Clients,
                        pc'[c] = "settled", call'[c].op = "update", outcome'[c].statusCode = 200
                 PROVE  LET shipment == outcome'[c].shipment IN
                        /\ shipment = applySet(shipment, call'[c].body, stamp'[c])
                        /\ shipment.trackingNumber = held'[c].trackingNumber
                        /\ shipment.createdAt = held'[c].createdAt
      BY DEF UpdateAnswerShowsUpdate
    <2>1. CASE clientStep(c) \/ serverStep(c)
      BY <2>1, UpdateAnswer
    <2>2. CASE ~ (clientStep(c) \/ serverStep(c))
      <3>1. UNCHANGED <<pc[c], call[c], held[c], stamp[c], outcome[c]>>
        BY <2>2, OthersUntouched DEF Next, Tick, vars, program, history
      <3> QED
        BY <3>1 DEF UpdateAnswerShowsUpdate
    <2> QED
      BY <2>1, <2>2
  <1> QED
    BY <1>1, <1>2, SpecInv, PTL DEF Spec

-----------------------------------------------------------------------------
(* One request at a time.                                                   *)

NeverOvertaken == \A c \in Clients : ~ overtaken[c]

\* Without overlapping requests no write comes between a check and its update.
LEMMA SerialNeverOvertaken ==
    ASSUME \A c, d \in Clients : c = d
    PROVE  Spec => []NeverOvertaken
  <1>1. Init => NeverOvertaken
    BY DEF Init, NeverOvertaken
  <1>2. Inv /\ NeverOvertaken /\ [Next]_vars => NeverOvertaken'
    <2> SUFFICES ASSUME Inv, NeverOvertaken, [Next]_vars, NEW r \in Clients PROVE ~ overtaken'[r]
      BY DEF NeverOvertaken
    <2>1. CASE \E c \in Clients, id \in Ids : Wrote(c, id)
      BY <2>1 DEF Wrote, NeverOvertaken
    <2>2. CASE \E c \in Clients : respond(c)
      BY <2>2 DEF respond, NeverOvertaken, Inv, TypeOK
    <2>3. CASE overtaken' = overtaken
      BY <2>3 DEF NeverOvertaken
    <2>4. ASSUME NEW c \in Clients, insertOne(c) \/ findOneAndUpdate(c) \/ findOneAndDelete(c)
          PROVE  overtaken' = overtaken \/ \E id \in Ids : Wrote(c, id)
      <3>1. call[c].id \in Ids
        BY <2>4 DEF insertOne, findOneAndUpdate, findOneAndDelete, Inv, TypeOK, Calls
      <3> QED
        BY <2>4, <3>1 DEF insertOne, Store, findOneAndUpdate, ApplyUpdate, findOneAndDelete, history
    <2> QED
      BY <2>1, <2>2, <2>3, <2>4
      DEF Next, Tick, clientStep, createShipment, getShipmentById, updateShipment, deleteShipment,
          serverStep, findOne, commandFails, resumeGet, resumeUpdate, vars, history
  <1> QED
    BY <1>1, <1>2, SpecInv, PTL DEF Spec

\* One request at a time, the status moves as documented.
THEOREM SerialStatusesFollowTransitions ==
    ASSUME \A c, d \in Clients : c = d
    PROVE  Spec => StatusesFollowTransitions
  <1>1. NeverOvertaken /\ [StatusStep]_vars =>
          [\A id \in Ids : docs[id] # null /\ docs'[id] # null =>
             Registry!isValidStatusTransition(docs[id].status, docs'[id].status)]_(Registry!vars)
    BY DEF NeverOvertaken, StatusStep, vars, program, history, Registry!vars,
           isValidStatusTransition, Registry!isValidStatusTransition,
           STATUS_TRANSITIONS, Registry!STATUS_TRANSITIONS,
           SHIPMENT_STATUSES, Registry!SHIPMENT_STATUSES
  <1> QED
    BY <1>1, SerialNeverOvertaken, SpecStatusBrokenOnlyByRace, PTL
    DEF StatusBrokenOnlyByRace, StatusesFollowTransitions, Registry!StatusRule

\* updatedAt never goes back while the shipment is stored.
UpdatedAtNeverGoesBack ==
    [][\A id \in Ids : docs[id] # null /\ docs'[id] # null
         => docs[id].updatedAt <= docs'[id].updatedAt]_vars

\* One request at a time, updatedAt never goes back.
THEOREM SerialUpdatedAtNeverGoesBack ==
    ASSUME \A c, d \in Clients : c = d
    PROVE  Spec => UpdatedAtNeverGoesBack
  <1>1. Inv /\ NeverOvertaken /\ [UpdatedAtStep]_vars =>
          [\A id \in Ids : docs[id] # null /\ docs'[id] # null
             => docs[id].updatedAt <= docs'[id].updatedAt]_vars
    <2> SUFFICES ASSUME Inv, NeverOvertaken, UpdatedAtStep, NEW id \in Ids,
                        docs[id] # null, docs'[id] # null
                 PROVE  docs[id].updatedAt <= docs'[id].updatedAt
      OBVIOUS
    <2>1. docs[id].updatedAt \in Nat
      BY InstantsAreNumbers DEF Inv, TypeOK, Document
    <2> QED
      BY <2>1 DEF NeverOvertaken, UpdatedAtStep
  <1> QED
    BY <1>1, SerialNeverOvertaken, SpecInv, SpecUpdatedAtBackOnlyByRace, PTL
    DEF UpdatedAtNeverGoesBack, UpdatedAtBackOnlyByRace

\* One request at a time, the service implements the registry with its status rule.
THEOREM SerialImplementsStrictRegistry ==
    ASSUME \A c, d \in Clients : c = d
    PROVE  Spec => Registry!StrictSpec
  BY SpecImplementsRegistry, SerialStatusesFollowTransitions
  DEF ImplementsRegistry, StatusesFollowTransitions, Registry!StrictSpec

=============================================================================
