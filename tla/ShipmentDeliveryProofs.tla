------------------------- MODULE ShipmentDeliveryProofs -------------------------
(***************************************************************************)
(* What ShipmentDelivery guarantees for every set of identifiers, clients, *)
(* bodies and tracking numbers, and however often commands become late:    *)
(* DeliveryInv is inductive, and the properties below follow from it.      *)
(***************************************************************************)
EXTENDS ShipmentDelivery, ShipmentServiceProofs

-----------------------------------------------------------------------------
(* The inductive invariant.                                                 *)

\* A late insert still owns its id.
LateInsertInv ==
    \A l \in late : l.command = "insertOne" =>
        /\ l.body \in CreateBodies
        /\ l.id \in allotted \ retired
        /\ docs[l.id] = null
        /\ l.held # null
        /\ l.held = newShipment(l.body, l.held.trackingNumber, l.held.createdAt)
        /\ l.held.createdAt <= now
        /\ \A c \in Clients : pc[c] = "insertOne" => call[c].id # l.id
        /\ \A k \in late : k.command = "insertOne" /\ k.id = l.id => k = l

\* A late update was stamped and checked against what its handler held: the document
\* stored until another write overtakes it, and the same shipment for ever.
LateUpdateInv ==
    \A l \in late : l.command = "findOneAndUpdate" =>
        /\ l.body \in UpdateBodies
        /\ l.id \in allotted
        /\ l.held # null
        /\ l.held.createdAt <= l.held.updatedAt /\ l.held.updatedAt <= l.stamp
        /\ l.stamp <= now
        /\ \/ l.body.status = undefined
           \/ isValidStatusTransition(l.held.status, l.body.status)
        /\ ~ l.overtaken => l.held = docs[l.id]
        /\ docs[l.id] = null => l.id \in retired
        /\ docs[l.id] # null => docs[l.id].createdAt = l.held.createdAt

\* Nothing that could still store a shipment under id exists, and none was.
Void(id) ==
    /\ id \in allotted \ retired
    /\ docs[id] = null
    /\ \A c \in Clients : pc[c] = "insertOne" => call[c].id # id
    /\ \A l \in late : l.command = "insertOne" => l.id # id

\* What the clients were told, and what they are about to be told.
RefusedInv ==
    /\ \A id \in refused : Void(id)
    /\ \A c \in Clients :
          /\ pc[c] = "settled" /\ call[c].op = "create"
          /\ outcome[c].statusCode \in {400, 404, 409}
          => Void(call[c].id)

AckedInv ==
    /\ AcknowledgedIsStored
    /\ CreatedIsStored

GoneInv ==
    /\ gone \subseteq retired
    /\ \A c \in sure : pc[c] # "idle" /\ call[c].id \in acked
    /\ \A c \in Clients :
          /\ \/ /\ pc[c] = "settled" /\ outcome[c].statusCode = 200 /\ call[c].op = "delete"
             \/ /\ pc[c] = "settled" /\ outcome[c].statusCode = 404 /\ c \in sure
             \/ /\ pc[c] = "resume" /\ held[c] = null /\ c \in sure
          => call[c].id \in retired

DeliveryInv ==
    /\ Inv
    /\ DeliveryTypeOK
    /\ LateInsertInv /\ LateUpdateInv
    /\ IndexedIsUnique
    /\ RefusedInv /\ AckedInv /\ GoneInv

-----------------------------------------------------------------------------
(* Late commands.                                                           *)

\* Late commands are well formed.
LEMMA LateCommandTypes ==
    ASSUME DeliveryInv, NEW l \in late
    PROVE  /\ l.command \in Commands \ {"findOne"}
           /\ l.client \in Clients /\ l.nr \in 1 .. MaxLost /\ l.id \in Ids
           /\ l.body \in CreateBodies \cup UpdateBodies \cup {null}
           /\ l.held \in Document \cup {null}
           /\ l.stamp \in Instants /\ l.overtaken \in BOOLEAN
  BY DEF DeliveryInv, DeliveryTypeOK, LateCommands

\* A late command that a step leaves late is the same but for its being overtaken,
\* and it is not overtaken only if its document did not change.
LEMMA OvertakeFacts ==
    ASSUME DeliveryInv, NEW commands, commands \subseteq late, Overtake(commands),
           NEW k \in late'
    PROVE  /\ k \in LateCommands
           /\ \E l \in commands :
                /\ k = [l EXCEPT !.overtaken = l.overtaken \/ docs'[l.id] # docs[l.id]]
                /\ k.command = l.command /\ k.id = l.id /\ k.body = l.body
                /\ k.held = l.held /\ k.stamp = l.stamp
                /\ ~ k.overtaken => ~ l.overtaken /\ docs'[l.id] = docs[l.id]
  <1>1. PICK l \in commands :
          k = [l EXCEPT !.overtaken = l.overtaken \/ docs'[l.id] # docs[l.id]]
    BY DEF Overtake
  <1>2. l \in LateCommands
    BY DEF DeliveryInv, DeliveryTypeOK
  <1>3. (l.overtaken \/ docs'[l.id] # docs[l.id]) \in BOOLEAN
    OBVIOUS
  <1>4. k \in LateCommands
    BY <1>1, <1>2, <1>3 DEF LateCommands
  <1>5. /\ k.command = l.command /\ k.id = l.id /\ k.body = l.body
        /\ k.held = l.held /\ k.stamp = l.stamp
        /\ k.overtaken = (l.overtaken \/ docs'[l.id] # docs[l.id])
    BY <1>1, <1>2 DEF LateCommands
  <1> QED
    BY <1>1, <1>4, <1>5

\* What a write command of a request under way leaves behind.
LEMMA InFlightFacts ==
    ASSUME DeliveryInv, NEW clients, clients \subseteq Clients, NEW l \in InFlight(clients),
           lost < MaxLost
    PROVE  /\ l \in LateCommands
           /\ \E c \in clients :
                /\ pc[c] \in Commands \ {"findOne"} /\ l.command = pc[c]
                /\ l.id = call[c].id /\ l.body = call[c].body /\ l.held = held[c]
                /\ l.stamp = stamp[c] /\ l.overtaken = overtaken[c]
  <1>1. PICK c \in {d \in clients : pc[d] \in Commands \ {"findOne"}} :
          l = [command |-> pc[c], client |-> c, nr |-> lost + 1, id |-> call[c].id,
               body |-> call[c].body, held |-> held[c], stamp |-> stamp[c],
               overtaken |-> overtaken[c]]
    BY DEF InFlight
  <1>2. lost + 1 \in 1 .. MaxLost
    BY MaxLostAssumption DEF DeliveryInv, DeliveryTypeOK
  <1>3. call[c] \in Calls
    BY DEF DeliveryInv, Inv, TypeOK, Commands
  <1>4. call[c].id \in Ids /\ call[c].body \in CreateBodies \cup UpdateBodies \cup {null}
    BY <1>3 DEF Calls
  <1> QED
    BY <1>1, <1>2, <1>4 DEF DeliveryInv, Inv, TypeOK, LateCommands

-----------------------------------------------------------------------------
(* Inv is preserved by what ShipmentDelivery adds to ShipmentService.       *)

\* A command that is executed keeps what is known of the requests, index or not.
LEMMA ServeInv == ASSUME Inv, NEW c \in Clients, serve(c) PROVE Inv'
  <1>1. CASE insertOneUnindexed(c)
    BY <1>1, StoreInv DEF insertOneUnindexed
  <1> QED
    BY <1>1, InsertOneInv, FindOneInv, FindOneAndUpdateInv, FindOneAndDeleteInv, CommandFailsInv,
       ResumeGetInv, ResumeUpdateInv DEF serve

\* So does a handler that gives up on its command.
LEMMA CommandTimesOutInv == ASSUME Inv, NEW c \in Clients, commandTimesOut(c) PROVE Inv'
  BY RejectInv DEF commandTimesOut, Commands

\* So does an exit, after which no handler is left.
LEMMA ExitInv == ASSUME Inv, exit PROVE Inv'
  <1> USE DEF exit
  <1>1. TypeOK'
    BY MaxTimeAssumption DEF Inv, TypeOK, Locations, Instants
  <1>2. StoredInv'
    BY DEF Inv, StoredInv
  <1>3. ProgressInv' /\ InsertInv' /\ SnapshotInv' /\ UpdateInv'
    BY DEF ProgressInv, InsertInv, SnapshotInv, UpdateInv
  <1> QED
    BY <1>1, <1>2, <1>3 DEF Inv

\* A late insert, executed, preserves Inv.
LEMMA LateInsertPreservesInv ==
    ASSUME DeliveryInv, NEW l \in late, executeLate(l), l.command = "insertOne"
    PROVE  Inv'
  <1> USE DEF DeliveryInv
  <1>1. /\ docs' = [docs EXCEPT ![l.id] = l.held] /\ retired' = retired /\ Overtakes(l.id)
        /\ UNCHANGED <<allotted, now, pc, call, held, stamp, outcome, applied>>
    BY DEF executeLate, ExecuteInsert, ExecuteUpdate, ExecuteDelete
  <1>2. /\ l.id \in allotted \ retired /\ docs[l.id] = null /\ l.held # null
        /\ l.held = newShipment(l.body, l.held.trackingNumber, l.held.createdAt)
        /\ l.held.createdAt <= now
        /\ \A c \in Clients : pc[c] = "insertOne" => call[c].id # l.id
    BY DEF LateInsertInv
  <1>3. l.id \in Ids /\ l.held \in Document
    BY <1>2, LateCommandTypes
  <1>4. \A i \in Ids : docs'[i] = IF i = l.id THEN l.held ELSE docs[i]
    BY <1>1 DEF Inv, TypeOK
  <1>5. TypeOK'
    BY <1>1, <1>3 DEF Inv, TypeOK, Overtakes
  <1>6. StoredInv'
    <2>1. l.held.updatedAt = l.held.createdAt
      <3>1. l.held = newShipment(l.body, l.held.trackingNumber, l.held.createdAt)
        BY <1>2
      <3> QED
        BY ONLY <3>1 DEF newShipment
    <2>2. l.held.createdAt \in Nat
      BY <1>3, InstantsAreNumbers DEF Document
    <2> QED
      BY <1>1, <1>2, <1>4, <2>1, <2>2 DEF Inv, StoredInv
  <1>7. ProgressInv'
    BY <1>1 DEF Inv, ProgressInv
  <1>8. InsertInv'
    BY <1>1, <1>2, <1>4 DEF Inv, TypeOK, InsertInv, Calls
  <1>9. SnapshotInv'
    <2> SUFFICES ASSUME NEW d \in Clients, pc'[d] \in {"resume", "findOneAndUpdate"}
                 PROVE  Snapshot(d)'
      BY DEF SnapshotInv
    <2>1. pc[d] = pc'[d] /\ Snapshot(d) /\ call[d].id \in Ids
      BY <1>1 DEF Inv, TypeOK, SnapshotInv, Calls
    <2>2. CASE call[d].id = l.id
      BY <1>1, <1>2, <1>4, <2>1, <2>2 DEF Inv, TypeOK, Snapshot, Overtakes
    <2>3. CASE call[d].id # l.id
      BY <1>1, <1>4, <2>1, <2>3 DEF Inv, TypeOK, Snapshot, Overtakes
    <2> QED
      BY <2>2, <2>3
  <1>10. UpdateInv'
    BY <1>1 DEF Inv, UpdateInv
  <1> QED
    BY <1>5, <1>6, <1>7, <1>8, <1>9, <1>10 DEF Inv

\* The document a late update finds, and the one it leaves.
LEMMA LateUpdateFacts ==
    ASSUME DeliveryInv, NEW l \in late, l.command = "findOneAndUpdate", docs[l.id] # null
    PROVE  LET new == applySet(docs[l.id], l.body, l.stamp) IN
           /\ l.id \in Ids /\ docs[l.id] \in Document
           /\ l.body \in UpdateBodies /\ l.stamp \in Instants
           /\ docs[l.id].createdAt <= l.stamp /\ l.stamp <= now
           /\ new \in Document /\ new # null
           /\ new.trackingNumber = docs[l.id].trackingNumber
           /\ new.createdAt = docs[l.id].createdAt
           /\ new.updatedAt = l.stamp
           /\ new.status = Given(l.body.status, docs[l.id].status)
  <1>1. /\ l.id \in Ids /\ docs[l.id] \in Document
        /\ l.body \in UpdateBodies /\ l.stamp \in Instants
    BY LateCommandTypes DEF DeliveryInv, Inv, TypeOK, LateUpdateInv
  <1>2. docs[l.id].createdAt <= l.stamp /\ l.stamp <= now
    <2>1. /\ l.held.createdAt <= l.held.updatedAt /\ l.held.updatedAt <= l.stamp
          /\ l.held # null /\ docs[l.id].createdAt = l.held.createdAt /\ l.stamp <= now
      BY DEF DeliveryInv, LateUpdateInv
    <2>2. l.held.createdAt \in Nat /\ l.held.updatedAt \in Nat /\ l.stamp \in Nat
      BY <2>1, LateCommandTypes, InstantsAreNumbers DEF Document
    <2> QED
      BY <2>1, <2>2
  <1> QED
    BY <1>1, <1>2, ApplySetFacts, NullIsNoDocument

\* A late update, executed, preserves Inv.
LEMMA LateUpdatePreservesInv ==
    ASSUME DeliveryInv, NEW l \in late, executeLate(l), l.command = "findOneAndUpdate"
    PROVE  Inv'
  <1> USE DEF DeliveryInv
  <1> DEFINE new == applySet(docs[l.id], l.body, l.stamp)
  <1>1. /\ docs[l.id] # null /\ docs' = [docs EXCEPT ![l.id] = new]
        /\ retired' = retired /\ Overtakes(l.id)
        /\ UNCHANGED <<allotted, now, pc, call, held, stamp, outcome, applied>>
    BY DEF executeLate, ExecuteInsert, ExecuteUpdate, ExecuteDelete
  <1>2. /\ l.id \in Ids /\ docs[l.id] \in Document
        /\ docs[l.id].createdAt <= l.stamp /\ l.stamp <= now
        /\ new \in Document /\ new # null
        /\ new.trackingNumber = docs[l.id].trackingNumber
        /\ new.createdAt = docs[l.id].createdAt /\ new.updatedAt = l.stamp
    BY <1>1, LateUpdateFacts
  <1> HIDE DEF new
  <1>3. \A i \in Ids : docs'[i] = IF i = l.id THEN new ELSE docs[i]
    BY <1>1 DEF Inv, TypeOK
  <1>4. TypeOK'
    BY <1>1, <1>2 DEF Inv, TypeOK, Overtakes
  <1>5. StoredInv'
    BY <1>1, <1>2, <1>3 DEF Inv, StoredInv
  <1>6. ProgressInv' /\ UpdateInv'
    BY <1>1 DEF Inv, ProgressInv, UpdateInv
  <1>7. InsertInv'
    BY <1>1, <1>3 DEF Inv, TypeOK, InsertInv, Calls
  <1>8. SnapshotInv'
    <2> SUFFICES ASSUME NEW d \in Clients, pc'[d] \in {"resume", "findOneAndUpdate"}
                 PROVE  Snapshot(d)'
      BY DEF SnapshotInv
    <2>1. pc[d] = pc'[d] /\ Snapshot(d) /\ call[d].id \in Ids
      BY <1>1 DEF Inv, TypeOK, SnapshotInv, Calls
    <2>2. CASE call[d].id = l.id
      BY <1>1, <1>2, <1>3, <2>1, <2>2 DEF Inv, TypeOK, Snapshot, Overtakes
    <2>3. CASE call[d].id # l.id
      BY <1>1, <1>3, <2>1, <2>3 DEF Inv, TypeOK, Snapshot, Overtakes
    <2> QED
      BY <2>2, <2>3
  <1> QED
    BY <1>4, <1>5, <1>6, <1>7, <1>8 DEF Inv

\* A late removal, executed, preserves Inv.
LEMMA LateDeletePreservesInv ==
    ASSUME DeliveryInv, NEW l \in late, executeLate(l), l.command = "findOneAndDelete"
    PROVE  Inv'
  <1> USE DEF DeliveryInv
  <1>1. /\ docs[l.id] # null /\ docs' = [docs EXCEPT ![l.id] = null]
        /\ retired' = retired \cup {l.id} /\ Overtakes(l.id)
        /\ UNCHANGED <<allotted, now, pc, call, held, stamp, outcome, applied>>
    BY DEF executeLate, ExecuteInsert, ExecuteUpdate, ExecuteDelete
  <1>2. l.id \in Ids /\ l.id \in allotted
    BY <1>1, LateCommandTypes DEF Inv, StoredInv
  <1>3. \A i \in Ids : docs'[i] = IF i = l.id THEN null ELSE docs[i]
    BY <1>1 DEF Inv, TypeOK
  <1>4. TypeOK'
    BY <1>1, <1>2 DEF Inv, TypeOK, Overtakes
  <1>5. StoredInv'
    BY <1>1, <1>2, <1>3 DEF Inv, StoredInv
  <1>6. ProgressInv' /\ UpdateInv'
    BY <1>1 DEF Inv, ProgressInv, UpdateInv
  <1>7. InsertInv'
    BY <1>1, <1>3 DEF Inv, TypeOK, InsertInv, Calls
  <1>8. SnapshotInv'
    <2> SUFFICES ASSUME NEW d \in Clients, pc'[d] \in {"resume", "findOneAndUpdate"}
                 PROVE  Snapshot(d)'
      BY DEF SnapshotInv
    <2>1. pc[d] = pc'[d] /\ Snapshot(d) /\ call[d].id \in Ids
      BY <1>1 DEF Inv, TypeOK, SnapshotInv, Calls
    <2> QED
      BY <1>1, <1>2, <1>3, <2>1 DEF Inv, TypeOK, Snapshot, Overtakes
  <1> QED
    BY <1>4, <1>5, <1>6, <1>7, <1>8 DEF Inv

\* A late command changes what is stored only as a handler's command might have.
LEMMA ExecuteLateInv == ASSUME DeliveryInv, NEW l \in late, executeLate(l) PROVE Inv'
  BY LateInsertPreservesInv, LateUpdatePreservesInv, LateDeletePreservesInv
  DEF executeLate, ExecuteInsert, ExecuteUpdate, ExecuteDelete

\* Every step of ShipmentDelivery preserves Inv.
LEMMA DeliveryNextInv == DeliveryInv /\ [DeliveryNext]_allVars => Inv'
  <1> SUFFICES ASSUME DeliveryInv, [DeliveryNext]_allVars PROVE Inv'
    OBVIOUS
  <1>1. Inv
    BY DEF DeliveryInv
  <1>2. CASE \E c \in Clients : request(c)
    BY <1>1, <1>2, CreateShipmentInv, GetUpdateDeleteInv DEF request, clientStep
  <1>3. CASE \E c \in Clients : serve(c) \/ commandTimesOut(c)
    BY <1>1, <1>3, ServeInv, CommandTimesOutInv
  <1>4. CASE \E c \in Clients : answer(c)
    BY <1>1, <1>4, RespondInv DEF answer
  <1>5. CASE \E l \in late : executeLate(l)
    BY <1>5, ExecuteLateInv
  <1>6. CASE exit
    BY <1>1, <1>6, ExitInv
  <1>7. CASE tick
    BY <1>1, <1>7, TickInv DEF tick
  <1>8. CASE start \/ buildIndex \/ UNCHANGED allVars
    BY <1>1, <1>8, StutterInv DEF start, buildIndex, allVars
  <1> QED
    BY <1>2, <1>3, <1>4, <1>5, <1>6, <1>7, <1>8 DEF DeliveryNext

-----------------------------------------------------------------------------
(* How the collection changes.                                              *)

\* A new document is stored under id.
Stores(id) ==
    /\ docs[id] = null /\ id \in allotted \ retired
    /\ \E data \in CreateBodies, trackingNumber \in TrackingNumbers, time \in Instants :
          /\ docs' = [docs EXCEPT ![id] = newShipment(data, trackingNumber, time)]
          /\ index = "built" => TrackingNumberFree(trackingNumber)
    /\ retired' = retired

\* The update of the document under id that the step ends, awaited or late, carries
\* these values.
Carried(id, data, time) ==
    \/ \E c \in Clients : Updates(c, id) /\ call[c].body = data /\ stamp[c] = time
    \/ \E l \in late : UpdatesLate(l, id) /\ l.body = data /\ l.stamp = time

\* A write came between the status check of that update and now.
UpdateOvertaken(id) ==
    \/ \E c \in Clients : Updates(c, id) /\ overtaken[c]
    \/ \E l \in late : UpdatesLate(l, id) /\ l.overtaken

\* An update is applied to the document under id.
Modifies(id) ==
    /\ docs[id] # null /\ docs[id] \in Document
    /\ \E data \in UpdateBodies, time \in Instants :
          /\ docs' = [docs EXCEPT ![id] = applySet(docs[id], data, time)]
          /\ docs[id].createdAt <= time
          /\ Carried(id, data, time)
          /\ \/ UpdateOvertaken(id)
             \/ /\ docs[id].updatedAt <= time
                /\ \/ data.status = undefined
                   \/ isValidStatusTransition(docs[id].status, data.status)
    /\ retired' = retired

\* The document under id is removed.
Removes(id) ==
    /\ docs[id] # null
    /\ docs' = [docs EXCEPT ![id] = null]
    /\ retired' = retired \cup {id}

\* An insert, awaited or late, stores what it carries.
LEMMA InsertStores ==
    ASSUME Inv, NEW id \in Ids, NEW data \in CreateBodies, NEW document \in Document,
           document = newShipment(data, document.trackingNumber, document.createdAt),
           docs[id] = null, id \in allotted \ retired,
           docs' = [docs EXCEPT ![id] = document], retired' = retired,
           index = "built" => TrackingNumberFree(document.trackingNumber)
    PROVE  Stores(id)
  <1>1. document.trackingNumber \in TrackingNumbers /\ document.createdAt \in Instants
    BY DEF Document
  <1> QED
    BY <1>1 DEF Stores

\* What a request that is served does to the collection.
LEMMA ServeChanges ==
    ASSUME DeliveryInv, NEW c \in Clients, serve(c)
    PROVE  /\ index' = index
           /\ \/ UNCHANGED <<docs, retired>>
              \/ call[c].id \in Ids /\ pc[c] = "insertOne" /\ Stores(call[c].id)
              \/ call[c].id \in Ids /\ pc[c] = "findOneAndUpdate" /\ Modifies(call[c].id)
              \/ call[c].id \in Ids /\ pc[c] = "findOneAndDelete" /\ Removes(call[c].id)
  <1> USE DEF DeliveryInv
  <1> DEFINE id == call[c].id
  <1>1. index' = index
    BY DEF serve
  <1>2. CASE /\ pc[c] = "insertOne" /\ Store(c) /\ retired' = retired
             /\ index = "built" => TrackingNumberFree(held[c].trackingNumber)
    <2>1. /\ id \in Ids /\ call[c].body \in CreateBodies
          /\ docs[id] = null /\ id \in allotted \ retired /\ held[c] \in Document
          /\ held[c] = newShipment(call[c].body, held[c].trackingNumber, held[c].createdAt)
      BY <1>2, NullIsNoDocument DEF Inv, TypeOK, InsertInv, ProgressInv, Calls
    <2>2. docs' = [docs EXCEPT ![id] = held[c]]
      BY <1>2 DEF Store
    <2> HIDE DEF id
    <2>3. Stores(id)
      BY <1>2, <2>1, <2>2, InsertStores
    <2> QED
      BY <1>1, <1>2, <2>1, <2>3 DEF id
  <1>3. CASE insertOne(c) /\ index = "built"
    BY <1>1, <1>2, <1>3 DEF insertOne, history
  <1>4. CASE insertOneUnindexed(c) /\ index # "built"
    BY <1>1, <1>2, <1>4 DEF insertOneUnindexed
  <1>5. CASE findOneAndUpdate(c)
    <2>1. CASE docs[id] = null
      BY <1>1, <1>5, <2>1 DEF findOneAndUpdate, ApplyUpdate
    <2>2. CASE docs[id] # null
      <3>1. /\ id \in Ids /\ docs[id] \in Document
            /\ call[c].body \in UpdateBodies /\ stamp[c] \in Instants
        BY <1>5, <2>2 DEF findOneAndUpdate, Inv, TypeOK, ProgressInv, Calls
      <3>2. docs[id].createdAt <= stamp[c]
        BY <1>5, <2>2, StampAfterCreation DEF findOneAndUpdate
      <3>3. /\ pc[c] = "findOneAndUpdate" /\ retired' = retired
            /\ docs' = [docs EXCEPT ![id] = applySet(docs[id], call[c].body, stamp[c])]
        BY <1>5, <2>2 DEF findOneAndUpdate, ApplyUpdate
      <3>4. \/ overtaken[c]
            \/ /\ docs[id].updatedAt <= stamp[c]
               /\ \/ call[c].body.status = undefined
                  \/ isValidStatusTransition(docs[id].status, call[c].body.status)
        BY <3>3 DEF Inv, UpdateInv, SnapshotInv, Snapshot
      <3>5. Updates(c, id)
        BY <1>5, <2>2 DEF Updates, findOneAndUpdate, ApplyUpdate, ResolveUnlessLost, Resolve, Reject,
                          Inv, TypeOK
      <3> HIDE DEF id
      <3>7. Carried(id, call[c].body, stamp[c]) /\ (overtaken[c] => UpdateOvertaken(id))
        BY <3>5 DEF Carried, UpdateOvertaken
      <3>6. Modifies(id)
        BY <2>2, <3>1, <3>2, <3>3, <3>4, <3>7 DEF Modifies
      <3> QED
        BY <1>1, <3>1, <3>3, <3>6 DEF id
    <2> QED
      BY <2>1, <2>2
  <1>6. CASE findOneAndDelete(c)
    BY <1>1, <1>6 DEF findOneAndDelete, Removes, Inv, TypeOK, Calls, history
  <1>7. CASE findOne(c) \/ commandFails(c) \/ resumeGet(c) \/ resumeUpdate(c)
    BY <1>1, <1>7 DEF findOne, commandFails, resumeGet, resumeUpdate, history
  <1> QED
    BY <1>3, <1>4, <1>5, <1>6, <1>7 DEF serve

\* What a late command does to the collection.
LEMMA LateChanges ==
    ASSUME DeliveryInv, NEW l \in late, executeLate(l)
    PROVE  /\ index' = index /\ l.id \in Ids
           /\ \/ l.command = "insertOne" /\ Stores(l.id)
              \/ l.command = "findOneAndUpdate" /\ Modifies(l.id)
              \/ l.command = "findOneAndDelete" /\ Removes(l.id)
  <1> USE DEF DeliveryInv
  <1>1. index' = index /\ l.id \in Ids
    BY LateCommandTypes DEF executeLate
  <1>2. CASE l.command = "insertOne"
    <2>1. /\ l.body \in CreateBodies /\ docs[l.id] = null /\ l.id \in allotted \ retired
          /\ l.held \in Document
          /\ l.held = newShipment(l.body, l.held.trackingNumber, l.held.createdAt)
      BY <1>2, LateCommandTypes DEF LateInsertInv
    <2>2. /\ docs' = [docs EXCEPT ![l.id] = l.held] /\ retired' = retired
          /\ index = "built" => TrackingNumberFree(l.held.trackingNumber)
      BY <1>2 DEF executeLate, ExecuteInsert, ExecuteUpdate, ExecuteDelete
    <2>3. Stores(l.id)
      BY <1>1, <2>1, <2>2, InsertStores
    <2> QED
      BY <1>1, <1>2, <2>3
  <1>3. CASE l.command = "findOneAndUpdate"
    <2>1. /\ docs[l.id] # null /\ retired' = retired
          /\ docs' = [docs EXCEPT ![l.id] = applySet(docs[l.id], l.body, l.stamp)]
      BY <1>3 DEF executeLate, ExecuteInsert, ExecuteUpdate, ExecuteDelete
    <2>2. /\ docs[l.id] \in Document /\ l.body \in UpdateBodies /\ l.stamp \in Instants
          /\ docs[l.id].createdAt <= l.stamp
      BY <1>3, <2>1, LateUpdateFacts
    <2>3. \/ l.overtaken
          \/ /\ docs[l.id].updatedAt <= l.stamp
             /\ \/ l.body.status = undefined
                \/ isValidStatusTransition(docs[l.id].status, l.body.status)
      BY <1>3 DEF LateUpdateInv
    <2>4. Carried(l.id, l.body, l.stamp) /\ (l.overtaken => UpdateOvertaken(l.id))
      BY <1>3 DEF Carried, UpdateOvertaken, UpdatesLate, executeLate
    <2> QED
      BY <1>1, <1>3, <2>1, <2>2, <2>3, <2>4 DEF Modifies
  <1>4. CASE l.command = "findOneAndDelete"
    BY <1>1, <1>4 DEF executeLate, ExecuteInsert, ExecuteUpdate, ExecuteDelete, Removes
  <1> QED
    BY <1>2, <1>3, <1>4 DEF executeLate, ExecuteInsert, ExecuteUpdate, ExecuteDelete

\* All other steps leave the collection alone.
LEMMA OnlyTheseChange ==
    ASSUME [DeliveryNext]_allVars,
           ~ \E c \in Clients : serve(c), ~ \E l \in late : executeLate(l)
    PROVE  UNCHANGED <<docs, retired>>
  BY DEF DeliveryNext, request, clientStep, createShipment, getShipmentById, updateShipment,
         deleteShipment, answer, respond, commandTimesOut, exit, start, buildIndex, tick, Tick,
         allVars, vars, program, history

\* One step changes at most one document, in one of three ways, and not while the index
\* changes.
LEMMA DeliveryChanges ==
    ASSUME DeliveryInv, [DeliveryNext]_allVars
    PROVE  \/ UNCHANGED <<docs, retired>>
           \/ /\ index' = index
              /\ \E id \in Ids : Stores(id) \/ Modifies(id) \/ Removes(id)
  BY ServeChanges, LateChanges, OnlyTheseChange

-----------------------------------------------------------------------------
(* What is assumed of late commands is preserved.                           *)

\* A step starts no insert.
InsertsKept ==
    \A c \in Clients : pc'[c] = "insertOne" => pc[c] = "insertOne" /\ call'[c] = call[c]

\* MongoDB executes a command while others are late.
LEMMA LateStays ==
    ASSUME DeliveryInv, NEW commands, commands \subseteq late, Overtake(commands),
           UNCHANGED <<allotted, now>>, InsertsKept,
           \/ UNCHANGED <<docs, retired>>
           \/ \E id \in Ids :
                \/ /\ Stores(id)
                   /\ \A l \in commands : l.command = "insertOne" => l.id # id
                \/ Modifies(id)
                \/ Removes(id)
    PROVE  LateInsertInv' /\ LateUpdateInv'
  <1> USE DEF DeliveryInv
  <1>1. ASSUME NEW id \in Ids
        PROVE  \/ docs'[id] = docs[id] /\ (id \in retired' <=> id \in retired)
               \/ /\ docs[id] = null /\ docs'[id] # null /\ id \notin retired
                  /\ \A l \in commands : l.command = "insertOne" => l.id # id
               \/ /\ docs[id] # null /\ docs'[id] # null
                  /\ docs'[id].createdAt = docs[id].createdAt
               \/ docs[id] # null /\ docs'[id] = null /\ id \in retired'
    <2>1. CASE UNCHANGED <<docs, retired>>
      BY <2>1
    <2>2. ASSUME NEW i \in Ids, Stores(i), \A l \in commands : l.command = "insertOne" => l.id # i
          PROVE  <1>1!2
      <3>1. PICK data \in CreateBodies, trackingNumber \in TrackingNumbers, time \in Instants :
              docs' = [docs EXCEPT ![i] = newShipment(data, trackingNumber, time)]
        BY <2>2 DEF Stores
      <3>2. newShipment(data, trackingNumber, time) # null
        BY NewShipmentType, NullIsNoDocument
      <3> QED
        BY <2>2, <3>1, <3>2 DEF Stores, Inv, TypeOK
    <2>3. ASSUME NEW i \in Ids, Modifies(i)
          PROVE  <1>1!2
      <3>1. PICK data \in UpdateBodies, time \in Instants :
              docs' = [docs EXCEPT ![i] = applySet(docs[i], data, time)]
        BY <2>3 DEF Modifies
      <3>2. /\ applySet(docs[i], data, time) # null
            /\ applySet(docs[i], data, time).createdAt = docs[i].createdAt
        BY <2>3, ApplySetFacts, NullIsNoDocument DEF Modifies
      <3> QED
        BY <2>3, <3>1, <3>2 DEF Modifies, Inv, TypeOK
    <2>4. ASSUME NEW i \in Ids, Removes(i)
          PROVE  <1>1!2
      BY <2>4 DEF Removes, Inv, TypeOK
    <2> QED
      BY <2>1, <2>2, <2>3, <2>4
  <1>2. LateInsertInv'
    <2> SUFFICES ASSUME NEW k \in late', k.command = "insertOne"
                 PROVE  /\ k.body \in CreateBodies
                        /\ k.id \in allotted' \ retired'
                        /\ docs'[k.id] = null
                        /\ k.held # null
                        /\ k.held = newShipment(k.body, k.held.trackingNumber, k.held.createdAt)
                        /\ k.held.createdAt <= now'
                        /\ \A c \in Clients : pc'[c] = "insertOne" => call'[c].id # k.id
                        /\ \A j \in late' : j.command = "insertOne" /\ j.id = k.id => j = k
      BY DEF LateInsertInv
    <2>1. PICK l \in commands :
            /\ k = [l EXCEPT !.overtaken = l.overtaken \/ docs'[l.id] # docs[l.id]]
            /\ k.command = l.command /\ k.id = l.id /\ k.body = l.body /\ k.held = l.held
      BY OvertakeFacts
    <2>2. /\ l \in late /\ l.command = "insertOne" /\ l.id \in Ids
          /\ l.body \in CreateBodies /\ l.id \in allotted \ retired /\ docs[l.id] = null
          /\ l.held # null
          /\ l.held = newShipment(l.body, l.held.trackingNumber, l.held.createdAt)
          /\ l.held.createdAt <= now
          /\ \A c \in Clients : pc[c] = "insertOne" => call[c].id # l.id
          /\ \A j \in late : j.command = "insertOne" /\ j.id = l.id => j = l
      BY <2>1, LateCommandTypes DEF LateInsertInv
    <2>3. docs'[l.id] = null /\ l.id \notin retired'
      BY <1>1, <2>1, <2>2
    <2>4. ASSUME NEW j \in late', j.command = "insertOne", j.id = k.id
          PROVE  j = k
      <3>1. PICK m \in commands :
              /\ j = [m EXCEPT !.overtaken = m.overtaken \/ docs'[m.id] # docs[m.id]]
              /\ j.command = m.command /\ j.id = m.id
        BY <2>4, OvertakeFacts
      <3>2. m = l
        BY <2>1, <2>2, <2>4, <3>1
      <3> QED
        BY <2>1, <3>1, <3>2
    <2>5. \A c \in Clients : pc'[c] = "insertOne" => call'[c].id # k.id
      BY <2>1, <2>2 DEF InsertsKept
    <2> QED
      BY <2>1, <2>2, <2>3, <2>4, <2>5
  <1>3. LateUpdateInv'
    <2> SUFFICES ASSUME NEW k \in late', k.command = "findOneAndUpdate"
                 PROVE  /\ k.body \in UpdateBodies
                        /\ k.id \in allotted'
                        /\ k.held # null
                        /\ k.held.createdAt <= k.held.updatedAt /\ k.held.updatedAt <= k.stamp
                        /\ k.stamp <= now'
                        /\ \/ k.body.status = undefined
                           \/ isValidStatusTransition(k.held.status, k.body.status)
                        /\ ~ k.overtaken => k.held = docs'[k.id]
                        /\ docs'[k.id] = null => k.id \in retired'
                        /\ docs'[k.id] # null => docs'[k.id].createdAt = k.held.createdAt
      BY DEF LateUpdateInv
    <2>1. PICK l \in commands :
            /\ k.command = l.command /\ k.id = l.id /\ k.body = l.body
            /\ k.held = l.held /\ k.stamp = l.stamp
            /\ ~ k.overtaken => ~ l.overtaken /\ docs'[l.id] = docs[l.id]
      BY OvertakeFacts
    <2>2. /\ l.id \in Ids
          /\ l.body \in UpdateBodies /\ l.id \in allotted /\ l.held # null
          /\ l.held.createdAt <= l.held.updatedAt /\ l.held.updatedAt <= l.stamp
          /\ l.stamp <= now
          /\ \/ l.body.status = undefined
             \/ isValidStatusTransition(l.held.status, l.body.status)
          /\ ~ l.overtaken => l.held = docs[l.id]
          /\ docs[l.id] = null => l.id \in retired
          /\ docs[l.id] # null => docs[l.id].createdAt = l.held.createdAt
      BY <2>1, LateCommandTypes DEF LateUpdateInv
    <2>3. /\ docs'[l.id] = null => l.id \in retired'
          /\ docs'[l.id] # null => docs'[l.id].createdAt = l.held.createdAt
      BY <1>1, <2>2
    <2> QED
      BY <2>1, <2>2, <2>3
  <1> QED
    BY <1>2, <1>3

\* Commands under way become late: what holds of a request's command holds of the late one.
LEMMA LateGrows ==
    ASSUME DeliveryInv, NEW clients, clients \subseteq Clients, LoseTrack(clients),
           UNCHANGED <<docs, retired, allotted, now>>,
           InsertsKept, \A c \in clients : pc'[c] # "insertOne"
    PROVE  /\ late' \subseteq LateCommands /\ lost' \in 0 .. MaxLost
           /\ LateInsertInv' /\ LateUpdateInv'
  <1> USE DEF DeliveryInv
  <1>1. late' = late \cup InFlight(clients)
    BY DEF LoseTrack
  <1>2. ASSUME NEW l \in InFlight(clients)
        PROVE  /\ l \in LateCommands
               /\ \E c \in clients :
                    /\ pc[c] \in Commands \ {"findOne"} /\ l.command = pc[c]
                    /\ l.id = call[c].id /\ l.body = call[c].body /\ l.held = held[c]
                    /\ l.stamp = stamp[c] /\ l.overtaken = overtaken[c]
    BY <1>2, InFlightFacts DEF LoseTrack
  <1>3. late' \subseteq LateCommands
    BY <1>1, <1>2 DEF DeliveryTypeOK
  <1>4. lost' \in 0 .. MaxLost
    BY MaxLostAssumption DEF LoseTrack, DeliveryTypeOK
  <1>5. LateInsertInv'
    <2>1. ASSUME NEW k \in InFlight(clients), k.command = "insertOne"
          PROVE  /\ k.body \in CreateBodies
                 /\ k.id \in allotted' \ retired'
                 /\ docs'[k.id] = null
                 /\ k.held # null
                 /\ k.held = newShipment(k.body, k.held.trackingNumber, k.held.createdAt)
                 /\ k.held.createdAt <= now'
                 /\ \A c \in Clients : pc'[c] = "insertOne" => call'[c].id # k.id
                 /\ \A j \in late' : j.command = "insertOne" /\ j.id = k.id => j = k
      <3>1. PICK c \in clients :
              /\ pc[c] = "insertOne"
              /\ k.id = call[c].id /\ k.body = call[c].body /\ k.held = held[c]
        BY <1>2, <2>1
      <3>2. /\ call[c].body \in CreateBodies
            /\ call[c].id \in allotted \ retired /\ docs[call[c].id] = null /\ held[c] # null
            /\ held[c] = newShipment(call[c].body, held[c].trackingNumber, held[c].createdAt)
            /\ held[c].createdAt <= now
        BY <3>1 DEF Inv, TypeOK, ProgressInv, InsertInv, Calls
      <3>3. \A d \in Clients : pc'[d] = "insertOne" => call'[d].id # k.id
        BY <3>1 DEF InsertsKept, Inv, InsertInv
      <3>4. \A j \in late : j.command = "insertOne" => j.id # k.id
        BY <3>1 DEF LateInsertInv
      <3>5. ASSUME NEW j \in InFlight(clients), j.command = "insertOne", j.id = k.id
            PROVE  j = k
        <4>1. PICK d \in clients :
                j = [command |-> pc[d], client |-> d, nr |-> lost + 1, id |-> call[d].id,
                     body |-> call[d].body, held |-> held[d], stamp |-> stamp[d],
                     overtaken |-> overtaken[d]]
          BY DEF InFlight
        <4>2. PICK e \in clients :
                k = [command |-> pc[e], client |-> e, nr |-> lost + 1, id |-> call[e].id,
                     body |-> call[e].body, held |-> held[e], stamp |-> stamp[e],
                     overtaken |-> overtaken[e]]
          BY DEF InFlight
        <4>3. /\ pc[d] = "insertOne" /\ pc[e] = "insertOne" /\ call[d].id = call[e].id
          BY <2>1, <3>5, <4>1, <4>2
        <4>4. d = e
          BY <4>3 DEF Inv, InsertInv
        <4> QED
          BY <4>1, <4>2, <4>4
      <3> QED
        BY <1>1, <3>1, <3>2, <3>3, <3>4, <3>5
    <2>2. ASSUME NEW k \in late, k.command = "insertOne"
          PROVE  /\ \A c \in Clients : pc'[c] = "insertOne" => call'[c].id # k.id
                 /\ \A j \in late' : j.command = "insertOne" /\ j.id = k.id => j = k
      <3>1. \A c \in Clients : pc[c] = "insertOne" => call[c].id # k.id
        BY <2>2 DEF LateInsertInv
      <3>2. \A j \in InFlight(clients) : j.command = "insertOne" => j.id # k.id
        BY <1>2, <3>1
      <3> QED
        BY <1>1, <2>2, <3>1, <3>2 DEF InsertsKept, LateInsertInv
    <2> QED
      BY <1>1, <2>1, <2>2 DEF LateInsertInv
  <1>6. LateUpdateInv'
    <2>1. ASSUME NEW k \in InFlight(clients), k.command = "findOneAndUpdate"
          PROVE  /\ k.body \in UpdateBodies
                 /\ k.id \in allotted
                 /\ k.held # null
                 /\ k.held.createdAt <= k.held.updatedAt /\ k.held.updatedAt <= k.stamp
                 /\ k.stamp <= now
                 /\ \/ k.body.status = undefined
                    \/ isValidStatusTransition(k.held.status, k.body.status)
                 /\ ~ k.overtaken => k.held = docs[k.id]
                 /\ docs[k.id] = null => k.id \in retired
                 /\ docs[k.id] # null => docs[k.id].createdAt = k.held.createdAt
      <3>1. PICK c \in clients :
              /\ pc[c] = "findOneAndUpdate" /\ k.id = call[c].id /\ k.body = call[c].body
              /\ k.held = held[c] /\ k.stamp = stamp[c] /\ k.overtaken = overtaken[c]
        BY <1>2, <2>1
      <3>2. /\ held[c] # null /\ call[c].id \in allotted
            /\ held[c].createdAt <= held[c].updatedAt
            /\ held[c].updatedAt <= stamp[c] /\ stamp[c] <= now
            /\ \/ call[c].body.status = undefined
               \/ isValidStatusTransition(held[c].status, call[c].body.status)
            /\ ~ overtaken[c] => held[c] = docs[call[c].id]
            /\ docs[call[c].id] = null => call[c].id \in retired
            /\ docs[call[c].id] # null => docs[call[c].id].createdAt = held[c].createdAt
        BY <3>1 DEF Inv, UpdateInv, SnapshotInv, Snapshot
      <3>3. call[c].body \in UpdateBodies
        BY <3>1 DEF Inv, TypeOK, ProgressInv, Calls
      <3> QED
        BY <3>1, <3>2, <3>3
    <2> QED
      BY <1>1, <2>1 DEF LateUpdateInv
  <1> QED
    BY <1>3, <1>4, <1>5, <1>6

\* Requests start, clocks tick, and the late commands stay as they are.
LEMMA LateUntouched ==
    ASSUME DeliveryInv, UNCHANGED <<docs, retired, late>>, allotted \subseteq allotted',
           now' \in Nat, now <= now',
           \A c \in Clients : pc'[c] = "insertOne" =>
              \/ pc[c] = "insertOne" /\ call'[c] = call[c]
              \/ call'[c].id \notin allotted
    PROVE  LateInsertInv' /\ LateUpdateInv'
  <1> USE DEF DeliveryInv
  <1>1. \A time \in Instants : time <= now => time <= now'
    BY InstantsAreNumbers DEF Inv, TypeOK
  <1>2. ASSUME NEW l \in late
        PROVE  l.stamp \in Instants /\ (l.held # null => l.held.createdAt \in Instants)
    BY LateCommandTypes DEF Document
  <1>3. LateInsertInv'
    BY <1>1, <1>2 DEF LateInsertInv
  <1>4. LateUpdateInv'
    BY <1>1, <1>2 DEF LateUpdateInv
  <1> QED
    BY <1>3, <1>4

\* Whatever happens, late commands stay as they were checked, or count as overtaken.
LEMMA DeliveryNextLate == DeliveryInv /\ [DeliveryNext]_allVars => LateInsertInv' /\ LateUpdateInv'
  <1> SUFFICES ASSUME DeliveryInv, [DeliveryNext]_allVars PROVE LateInsertInv' /\ LateUpdateInv'
    OBVIOUS
  <1> USE DEF DeliveryInv
  <1>1. now \in Nat
    BY InstantsAreNumbers DEF Inv, TypeOK
  <1>2. ASSUME NEW c \in Clients, request(c) PROVE LateInsertInv' /\ LateUpdateInv'
    <2>1. UNCHANGED <<docs, retired, late, now>> /\ allotted \subseteq allotted'
      BY <1>2 DEF request, clientStep, createShipment, getShipmentById, updateShipment,
                  deleteShipment, failures, history
    <2>2. ASSUME NEW d \in Clients, pc'[d] = "insertOne"
          PROVE  \/ pc[d] = "insertOne" /\ call'[d] = call[d]
                 \/ call'[d].id \notin allotted
      BY <1>2, <2>2 DEF request, clientStep, createShipment, getShipmentById, updateShipment,
                        deleteShipment, Arrives, Inv, TypeOK
    <2> QED
      BY <1>1, <2>1, <2>2, LateUntouched
  <1>3. ASSUME NEW c \in Clients, serve(c) PROVE LateInsertInv' /\ LateUpdateInv'
    <2>1. Overtake(late) /\ UNCHANGED <<allotted, now>>
      BY <1>3 DEF serve, insertOne, insertOneUnindexed, findOne, findOneAndUpdate, ApplyUpdate,
                  findOneAndDelete, commandFails, resumeGet, resumeUpdate
    <2>2. InsertsKept
      BY <1>3 DEF InsertsKept, Inv, TypeOK, serve, insertOne, insertOneUnindexed, Store, findOne,
                  findOneAndUpdate, ApplyUpdate, findOneAndDelete, commandFails, resumeGet,
                  resumeUpdate, ResolveUnlessLost, NotFoundUnlessLost, Resolve, Reject, IssueUpdate
    <2>3. pc[c] = "insertOne" => \A l \in late : l.command = "insertOne" => l.id # call[c].id
      BY DEF LateInsertInv
    <2> QED
      BY <1>3, <2>1, <2>2, <2>3, ServeChanges, LateStays
  <1>4. ASSUME NEW c \in Clients, answer(c) PROVE LateInsertInv' /\ LateUpdateInv'
    <2>1. UNCHANGED <<docs, retired, late, allotted, now>>
      BY <1>4 DEF answer, respond, failures
    <2>2. \A d \in Clients : pc'[d] = "insertOne" => pc[d] = "insertOne" /\ call'[d] = call[d]
      BY <1>4 DEF answer, respond, Inv, TypeOK
    <2> QED
      BY <1>1, <2>1, <2>2, LateUntouched
  <1>5. ASSUME NEW c \in Clients, commandTimesOut(c) PROVE LateInsertInv' /\ LateUpdateInv'
    <2>1. UNCHANGED <<docs, retired, allotted, now>> /\ LoseTrack({c})
      BY <1>5 DEF commandTimesOut, history
    <2>2. InsertsKept /\ \A d \in {c} : pc'[d] # "insertOne"
      BY <1>5 DEF commandTimesOut, Reject, InsertsKept, Inv, TypeOK
    <2> QED
      BY <2>1, <2>2, LateGrows
  <1>6. ASSUME NEW l \in late, executeLate(l) PROVE LateInsertInv' /\ LateUpdateInv'
    <2>1. Overtake(late \ {l}) /\ UNCHANGED <<allotted, now>> /\ InsertsKept
      BY <1>6 DEF executeLate, InsertsKept
    <2>2. l.command = "insertOne" =>
            \A k \in late \ {l} : k.command = "insertOne" => k.id # l.id
      BY DEF LateInsertInv
    <2> QED
      BY <1>6, <2>1, <2>2, LateChanges, LateStays
  <1>7. ASSUME exit PROVE LateInsertInv' /\ LateUpdateInv'
    <2>1. UNCHANGED <<docs, retired, allotted, now>> /\ LoseTrack(Clients)
      BY <1>7 DEF exit
    <2>2. InsertsKept /\ \A d \in Clients : pc'[d] # "insertOne"
      BY <1>7 DEF exit, InsertsKept
    <2> QED
      BY <2>1, <2>2, LateGrows
  <1>8. ASSUME start \/ buildIndex \/ tick \/ UNCHANGED allVars
        PROVE  LateInsertInv' /\ LateUpdateInv'
    <2>1. UNCHANGED <<docs, retired, late, allotted, pc, call>>
      BY <1>8 DEF start, buildIndex, tick, Tick, allVars, vars, program, history, failures
    <2>2. now' \in Nat /\ now <= now'
      <3>1. now' = now \/ now' = now + 1
        BY <1>8 DEF start, buildIndex, tick, Tick, allVars, vars, program
      <3> QED
        BY <1>1, <3>1
    <2> QED
      BY <2>1, <2>2, LateUntouched
  <1> QED
    BY <1>2, <1>3, <1>4, <1>5, <1>6, <1>7, <1>8 DEF DeliveryNext

\* The failures and what the clients know keep their types.
LEMMA DeliveryNextType == DeliveryInv /\ [DeliveryNext]_allVars => DeliveryTypeOK'
  <1> SUFFICES ASSUME DeliveryInv, [DeliveryNext]_allVars PROVE DeliveryTypeOK'
    OBVIOUS
  <1>1. TypeOK'
    BY DeliveryNextInv DEF Inv
  <1> USE DEF DeliveryInv, DeliveryTypeOK
  <1>2. CASE \E c \in Clients : request(c)
    BY <1>1, <1>2 DEF request, failures, told
  <1>3. ASSUME NEW c \in Clients, serve(c) PROVE DeliveryTypeOK'
    <2>1. late' \subseteq LateCommands
      BY <1>3, OvertakeFacts DEF serve
    <2> QED
      BY <1>1, <1>3, <2>1 DEF serve, told
  <1>4. ASSUME NEW c \in Clients, answer(c) PROVE DeliveryTypeOK'
    <2>1. call[c].id \in Ids
      BY <1>4 DEF answer, respond, Inv, TypeOK, Calls
    <2> QED
      BY <1>1, <1>4, <2>1 DEF answer, failures
  <1>5. ASSUME NEW c \in Clients, commandTimesOut(c) PROVE DeliveryTypeOK'
    <2>1. UNCHANGED <<docs, retired, allotted, now>> /\ LoseTrack({c})
      BY <1>5 DEF commandTimesOut, history
    <2>2. InsertsKept /\ \A d \in {c} : pc'[d] # "insertOne"
      BY <1>5 DEF commandTimesOut, Reject, InsertsKept, Inv, TypeOK
    <2>3. late' \subseteq LateCommands /\ lost' \in 0 .. MaxLost
      BY <2>1, <2>2, LateGrows
    <2> QED
      BY <1>1, <1>5, <2>3 DEF commandTimesOut, told
  <1>6. ASSUME NEW l \in late, executeLate(l) PROVE DeliveryTypeOK'
    <2>1. late' \subseteq LateCommands
      BY <1>6, OvertakeFacts DEF executeLate
    <2> QED
      BY <1>1, <1>6, <2>1 DEF executeLate, told
  <1>7. ASSUME exit PROVE DeliveryTypeOK'
    <2>1. UNCHANGED <<docs, retired, allotted, now>> /\ LoseTrack(Clients)
      BY <1>7 DEF exit
    <2>2. InsertsKept /\ \A d \in Clients : pc'[d] # "insertOne"
      BY <1>7 DEF exit, InsertsKept
    <2>3. late' \subseteq LateCommands /\ lost' \in 0 .. MaxLost
      BY <2>1, <2>2, LateGrows
    <2> QED
      BY <1>1, <1>7, <2>3 DEF exit, told
  <1>8. CASE start \/ buildIndex \/ tick \/ UNCHANGED allVars
    BY <1>1, <1>8 DEF start, buildIndex, tick, Tick, allVars, vars, program, failures, told
  <1> QED
    BY <1>2, <1>3, <1>4, <1>5, <1>6, <1>7, <1>8 DEF DeliveryNext

\* The index, once built, keeps tracking numbers apart.
LEMMA DeliveryNextUnique == DeliveryInv /\ [DeliveryNext]_allVars => IndexedIsUnique'
  <1> SUFFICES ASSUME DeliveryInv, [DeliveryNext]_allVars, index' = "built"
               PROVE  UniqueTrackingNumbers'
    BY DEF IndexedIsUnique
  <1> USE DEF DeliveryInv, UniqueTrackingNumbers
  <1>1. CASE docs' = docs
    <2>1. index = "built" \/ UniqueTrackingNumbers
      BY <1>1 DEF DeliveryNext, request, serve, answer, commandTimesOut, executeLate, exit, start,
                  buildIndex, tick, allVars, failures
    <2> QED
      BY <1>1, <2>1 DEF IndexedIsUnique
  <1>2. CASE docs' # docs
    <2>1. index = "built" /\ UniqueTrackingNumbers
      BY <1>2, DeliveryChanges DEF IndexedIsUnique
    <2>2. PICK id \in Ids : Stores(id) \/ Modifies(id) \/ Removes(id)
      BY <1>2, DeliveryChanges
    <2>3. CASE Stores(id)
      <3>1. PICK data \in CreateBodies, trackingNumber \in TrackingNumbers, time \in Instants :
              /\ docs' = [docs EXCEPT ![id] = newShipment(data, trackingNumber, time)]
              /\ TrackingNumberFree(trackingNumber)
        BY <2>1, <2>3 DEF Stores
      <3>2. newShipment(data, trackingNumber, time).trackingNumber = trackingNumber
        BY DEF newShipment
      <3> QED
        BY <2>1, <3>1, <3>2 DEF Inv, TypeOK, TrackingNumberFree
    <2>4. CASE Modifies(id)
      <3>1. PICK data \in UpdateBodies, time \in Instants :
              docs' = [docs EXCEPT ![id] = applySet(docs[id], data, time)]
        BY <2>4 DEF Modifies
      <3>2. applySet(docs[id], data, time).trackingNumber = docs[id].trackingNumber
        BY <2>4, ApplySetFacts DEF Modifies
      <3> QED
        BY <2>1, <2>4, <3>1, <3>2 DEF Modifies, Inv, TypeOK
    <2>5. CASE Removes(id)
      BY <2>1, <2>5 DEF Removes, Inv, TypeOK
    <2> QED
      BY <2>2, <2>3, <2>4, <2>5
  <1> QED
    BY <1>1, <1>2

-----------------------------------------------------------------------------
(* What the clients are told.                                               *)

\* A stored document stays stored, or its removal is recorded for good.
LEMMA DeliveryRecordsRemovals ==
    ASSUME DeliveryInv, [DeliveryNext]_allVars
    PROVE  /\ retired \subseteq retired'
           /\ \A id \in Ids : docs[id] # null => docs'[id] # null \/ id \in retired'
  <1> USE DEF DeliveryInv
  <1>1. CASE UNCHANGED <<docs, retired>>
    BY <1>1
  <1>2. ASSUME NEW i \in Ids, Stores(i)
        PROVE  retired' = retired /\ \A id \in Ids : docs[id] # null => docs'[id] # null
    <2>1. PICK data \in CreateBodies, trackingNumber \in TrackingNumbers, time \in Instants :
            docs' = [docs EXCEPT ![i] = newShipment(data, trackingNumber, time)]
      BY <1>2 DEF Stores
    <2>2. newShipment(data, trackingNumber, time) # null
      BY NewShipmentType, NullIsNoDocument
    <2> QED
      BY <1>2, <2>1, <2>2 DEF Stores, Inv, TypeOK
  <1>3. ASSUME NEW i \in Ids, Modifies(i)
        PROVE  retired' = retired /\ \A id \in Ids : docs[id] # null => docs'[id] # null
    <2>1. PICK data \in UpdateBodies, time \in Instants :
            docs' = [docs EXCEPT ![i] = applySet(docs[i], data, time)]
      BY <1>3 DEF Modifies
    <2>2. applySet(docs[i], data, time) # null
      BY <1>3, ApplySetFacts, NullIsNoDocument DEF Modifies
    <2> QED
      BY <1>3, <2>1, <2>2 DEF Modifies, Inv, TypeOK
  <1>4. ASSUME NEW i \in Ids, Removes(i)
        PROVE  /\ retired \subseteq retired'
               /\ \A id \in Ids : docs[id] # null => docs'[id] # null \/ id \in retired'
    BY <1>4 DEF Removes, Inv, TypeOK
  <1> QED
    BY <1>1, <1>2, <1>3, <1>4, DeliveryChanges

\* Inserts come from requests, and late ones from requests or earlier late ones.
LEMMA InsertSources ==
    ASSUME DeliveryInv, [DeliveryNext]_allVars
    PROVE  /\ allotted \subseteq allotted'
           /\ \A c \in Clients : pc'[c] = "insertOne" =>
                \/ pc[c] = "insertOne" /\ call'[c].id = call[c].id
                \/ call'[c].id \notin allotted
           /\ \A k \in late' : k.command = "insertOne" =>
                \/ \E l \in late : l.command = "insertOne" /\ l.id = k.id
                \/ \E c \in Clients : pc[c] = "insertOne" /\ call[c].id = k.id
  <1> USE DEF DeliveryInv
  <1> DEFINE Kept == /\ allotted \subseteq allotted'
                     /\ \A c \in Clients : pc'[c] = "insertOne" =>
                          \/ pc[c] = "insertOne" /\ call'[c].id = call[c].id
                          \/ call'[c].id \notin allotted
             Sourced == \A k \in late' : k.command = "insertOne" =>
                          \/ \E l \in late : l.command = "insertOne" /\ l.id = k.id
                          \/ \E c \in Clients : pc[c] = "insertOne" /\ call[c].id = k.id
  <1>1. ASSUME NEW clients, clients \subseteq Clients, LoseTrack(clients) PROVE Sourced
    BY <1>1, InFlightFacts DEF LoseTrack
  <1>2. CASE \E c \in Clients : request(c)
    <2>1. Kept
      BY <1>2 DEF request, clientStep, createShipment, getShipmentById, updateShipment,
                  deleteShipment, Arrives, Inv, TypeOK
    <2> QED
      BY <1>2, <2>1 DEF request, failures
  <1>3. ASSUME NEW c \in Clients, serve(c) PROVE Kept /\ Sourced
    <2>1. Kept
      BY <1>3 DEF Inv, TypeOK, serve, insertOne, insertOneUnindexed, Store, findOne,
                  findOneAndUpdate, ApplyUpdate, findOneAndDelete, commandFails, resumeGet,
                  resumeUpdate, ResolveUnlessLost, NotFoundUnlessLost, Resolve, Reject, IssueUpdate
    <2>2. Sourced
      BY <1>3, OvertakeFacts DEF serve
    <2> QED
      BY <2>1, <2>2
  <1>4. CASE \E c \in Clients : answer(c)
    <2>1. Kept
      BY <1>4 DEF answer, respond, Inv, TypeOK
    <2> QED
      BY <1>4, <2>1 DEF answer, failures
  <1>5. ASSUME NEW c \in Clients, commandTimesOut(c) PROVE Kept /\ Sourced
    <2>1. Kept
      BY <1>5 DEF commandTimesOut, Reject, Inv, TypeOK
    <2>2. LoseTrack({c})
      BY <1>5 DEF commandTimesOut
    <2> QED
      BY <1>1, <2>1, <2>2
  <1>6. ASSUME NEW l \in late, executeLate(l) PROVE Kept /\ Sourced
    <2>1. Kept
      BY <1>6 DEF executeLate
    <2>2. Sourced
      BY <1>6, OvertakeFacts DEF executeLate
    <2> QED
      BY <2>1, <2>2
  <1>7. CASE exit
    <2>1. Kept /\ LoseTrack(Clients)
      BY <1>7 DEF exit
    <2> QED
      BY <1>1, <2>1
  <1>8. CASE start \/ buildIndex \/ tick \/ UNCHANGED allVars
    BY <1>8 DEF start, buildIndex, tick, Tick, allVars, vars, program, failures
  <1> QED
    BY <1>2, <1>3, <1>4, <1>5, <1>6, <1>7, <1>8 DEF DeliveryNext

\* Void stays void.
LEMMA VoidKept ==
    ASSUME DeliveryInv, [DeliveryNext]_allVars, NEW id \in Ids, Void(id)
    PROVE  Void(id)'
  <1> USE DEF DeliveryInv
  <1>1. docs'[id] = null /\ id \notin retired'
    <2>1. CASE UNCHANGED <<docs, retired>>
      BY <2>1 DEF Void
    <2>2. ASSUME NEW i \in Ids, Modifies(i) \/ Removes(i) \/ (Stores(i) /\ i # id)
          PROVE  docs'[id] = null /\ id \notin retired'
      BY <2>2 DEF Modifies, Removes, Stores, Void, Inv, TypeOK
    <2>3. CASE \E c \in Clients : serve(c)
      BY <2>1, <2>2, <2>3, ServeChanges DEF Void
    <2>4. CASE \E l \in late : executeLate(l)
      BY <2>2, <2>4, LateChanges DEF Void
    <2> QED
      BY <2>1, <2>3, <2>4, OnlyTheseChange
  <1>2. id \in allotted'
    BY InsertSources DEF Void
  <1>3. \A c \in Clients : pc'[c] = "insertOne" => call'[c].id # id
    BY InsertSources DEF Void
  <1>4. \A k \in late' : k.command = "insertOne" => k.id # id
    BY InsertSources DEF Void
  <1> QED
    BY <1>1, <1>2, <1>3, <1>4 DEF Void

\* A served request leaves every other request and its own call alone.
LEMMA ServeIsLocal ==
    ASSUME DeliveryInv, NEW c \in Clients, serve(c)
    PROVE  /\ pc[c] \notin {"idle", "settled"} /\ pc'[c] # "idle" /\ call' = call
           /\ UNCHANGED <<sure, acked, refused, gone>>
           /\ \A d \in Clients : d # c =>
                /\ pc'[d] = pc[d] /\ held'[d] = held[d] /\ outcome'[d] = outcome[d]
                /\ stamp'[d] = stamp[d] /\ applied'[d] = applied[d]
  BY DEF serve, insertOne, insertOneUnindexed, Store, findOne, findOneAndUpdate, ApplyUpdate,
         findOneAndDelete, commandFails, resumeGet, resumeUpdate, ResolveUnlessLost,
         NotFoundUnlessLost, Resolve, Reject, IssueUpdate, Commands, told, history, Wrote,
         DeliveryInv, Inv, TypeOK

\* What an answer tells about its request.
LEMMA ServeAnswers ==
    ASSUME DeliveryInv, NEW c \in Clients, serve(c), pc'[c] = "settled"
    PROVE  LET id     == call[c].id
               status == outcome'[c].statusCode
           IN
           /\ id \in Ids
           /\ call[c].op = "create" /\ status = 201 => docs'[id] # null
           /\ call[c].op = "create" /\ status \in {400, 404, 409}
                => pc[c] = "insertOne" /\ UNCHANGED <<docs, retired>>
           /\ call[c].op = "delete" /\ status = 200 => id \in retired'
           /\ status = 404 => /\ retired' = retired
                              /\ \/ pc[c] = "resume" /\ held[c] = null
                                 \/ docs[id] = null
  <1> USE DEF DeliveryInv, Inv, TypeOK, history
  <1>1. call[c].id \in Ids
    BY ServeIsLocal DEF Calls
  <1>2. CASE insertOne(c) \/ insertOneUnindexed(c)
    <2>1. held[c] # null /\ call[c].op = "create" /\ pc[c] = "insertOne" /\ retired' = retired
      BY <1>2 DEF insertOne, insertOneUnindexed, InsertInv, ProgressInv
    <2>2. CASE Store(c)
      <3>1. outcome'[c].statusCode \in {201, 500}
        BY <2>1, <2>2 DEF Store, ResolveUnlessLost, Resolve, Reject, normalizeError
      <3>2. docs'[call[c].id] # null
        BY <1>1, <2>1, <2>2 DEF Store
      <3> QED
        BY <1>1, <2>1, <3>1, <3>2
    <2>3. CASE Reject(c, "E11000") /\ docs' = docs
      <3>1. outcome'[c].statusCode = 409
        BY <2>3 DEF Reject, normalizeError
      <3> QED
        BY <1>1, <2>1, <2>3, <3>1
    <2> QED
      BY <1>2, <2>2, <2>3 DEF insertOne, insertOneUnindexed
  <1>3. CASE findOneAndUpdate(c)
    <2>1. call[c].op = "update" /\ retired' = retired
      BY <1>3 DEF findOneAndUpdate, ProgressInv
    <2>2. outcome'[c].statusCode = 404 => docs[call[c].id] = null
      BY <1>3, <2>1 DEF findOneAndUpdate, ApplyUpdate, ResolveUnlessLost, Resolve, Reject,
                        normalizeError
    <2> QED
      BY <1>1, <2>1, <2>2
  <1>4. CASE findOneAndDelete(c)
    <2>1. call[c].op = "delete"
      BY <1>4 DEF findOneAndDelete, ProgressInv
    <2>2. CASE docs[call[c].id] # null
      <3>1. call[c].id \in retired' /\ outcome'[c].statusCode \in {200, 500}
        BY <1>4, <2>1, <2>2
        DEF findOneAndDelete, ResolveUnlessLost, Resolve, Reject, normalizeError
      <3> QED
        BY <1>1, <2>1, <3>1
    <2>3. CASE docs[call[c].id] = null
      <3>1. retired' = retired /\ outcome'[c].statusCode \in {404, 500}
        BY <1>4, <2>3 DEF findOneAndDelete, NotFoundUnlessLost, Reject, normalizeError
      <3> QED
        BY <1>1, <2>1, <2>3, <3>1
    <2> QED
      BY <2>2, <2>3
  <1>5. CASE commandFails(c)
    <2>1. outcome'[c].statusCode = 500
      BY <1>5 DEF commandFails, Reject, normalizeError
    <2> QED
      BY <1>1, <2>1
  <1>6. CASE resumeGet(c) \/ resumeUpdate(c)
    <2>1. /\ call[c].op \in {"get", "update"} /\ retired' = retired /\ pc[c] = "resume"
      BY <1>6 DEF resumeGet, resumeUpdate
    <2>2. outcome'[c].statusCode = 404 => held[c] = null
      BY <1>6, <2>1 DEF resumeGet, resumeUpdate, IssueUpdate, Resolve, Reject, normalizeError
    <2> QED
      BY <1>1, <2>1, <2>2
  <1>7. CASE findOne(c)
    BY <1>7 DEF findOne
  <1> QED
    BY <1>2, <1>3, <1>4, <1>5, <1>6, <1>7 DEF serve

\* Client c was answered before, and its answer stands.
StaysSettled(c) ==
    /\ pc[c] = "settled"
    /\ call'[c] = call[c] /\ held'[c] = held[c] /\ stamp'[c] = stamp[c]
    /\ outcome'[c] = outcome[c] /\ applied'[c] = applied[c]

\* Only served requests and timeouts settle, and a timeout is a 500.
LEMMA WhoSettles ==
    ASSUME DeliveryInv, [DeliveryNext]_allVars, NEW c \in Clients, pc'[c] = "settled"
    PROVE  serve(c) \/ outcome'[c].statusCode = 500 \/ StaysSettled(c)
  <1> USE DEF DeliveryInv, Inv, TypeOK, StaysSettled
  <1>1. ASSUME NEW d \in Clients, request(d) PROVE StaysSettled(c)
    BY <1>1 DEF request, clientStep, createShipment, getShipmentById, updateShipment,
                deleteShipment, Arrives, history
  <1>2. ASSUME NEW d \in Clients, serve(d), d # c PROVE StaysSettled(c)
    BY <1>2, ServeIsLocal
  <1>3. ASSUME NEW d \in Clients, answer(d) PROVE StaysSettled(c)
    BY <1>3 DEF answer, respond
  <1>4. ASSUME NEW d \in Clients, commandTimesOut(d)
        PROVE  outcome'[c].statusCode = 500 \/ StaysSettled(c)
    BY <1>4 DEF commandTimesOut, Reject, normalizeError, history
  <1>5. CASE exit
    BY <1>5 DEF exit
  <1>6. CASE start \/ buildIndex \/ tick \/ UNCHANGED allVars \/ \E l \in late : executeLate(l)
    BY <1>6 DEF start, buildIndex, tick, Tick, executeLate, allVars, vars, program, history
  <1> QED
    BY <1>1, <1>2, <1>3, <1>4, <1>5, <1>6 DEF DeliveryNext

\* Whatever happens, nothing comes to exist that could store a refused shipment.
LEMMA DeliveryNextRefused == DeliveryInv /\ [DeliveryNext]_allVars => RefusedInv'
  <1> SUFFICES ASSUME DeliveryInv, [DeliveryNext]_allVars PROVE RefusedInv'
    OBVIOUS
  <1> USE DEF DeliveryInv
  <1>1. ASSUME NEW c \in Clients, pc'[c] = "settled", call'[c].op = "create",
               outcome'[c].statusCode \in {400, 404, 409}
        PROVE  Void(call[c].id)'
    <2>1. CASE serve(c)
      <3>1. /\ call' = call /\ pc[c] = "insertOne" /\ call[c].id \in Ids
            /\ UNCHANGED <<docs, retired>>
        BY <1>1, <2>1, ServeIsLocal, ServeAnswers
      <3>2. /\ call[c].id \in allotted \ retired /\ docs[call[c].id] = null
            /\ \A d \in Clients : pc[d] = "insertOne" /\ call[d].id = call[c].id => d = c
        BY <3>1 DEF Inv, InsertInv
      <3>3. \A d \in Clients : pc'[d] = "insertOne" => call'[d].id # call[c].id
        BY <1>1, <2>1, <3>1, <3>2, ServeIsLocal
      <3>4. \A l \in late : l.command = "insertOne" => l.id # call[c].id
        BY <3>1 DEF LateInsertInv
      <3>5. \A k \in late' : k.command = "insertOne" => k.id # call[c].id
        BY <2>1, <3>4, OvertakeFacts DEF serve
      <3>6. call[c].id \in allotted'
        BY <3>2, InsertSources
      <3> QED
        BY <3>1, <3>2, <3>3, <3>5, <3>6 DEF Void
    <2>2. CASE StaysSettled(c)
      <3>1. Void(call[c].id) /\ call[c].id \in Ids
        BY <1>1, <2>2 DEF StaysSettled, RefusedInv, Inv, TypeOK, Calls
      <3>2. \A id \in Ids : Void(id) => Void(id)'
        BY VoidKept
      <3> QED
        BY <2>2, <3>1, <3>2 DEF StaysSettled, Void
    <2> QED
      BY <1>1, <2>1, <2>2, WhoSettles
  <1>2. ASSUME NEW id \in refused' PROVE Void(id)'
    <2>1. id \in Ids /\ Void(id)
      <3>1. CASE id \in refused
        BY <3>1 DEF RefusedInv, DeliveryTypeOK
      <3>2. CASE id \notin refused
        <4>1. PICK c \in Clients : answer(c)
          BY <1>2, <3>2 DEF DeliveryNext, request, serve, commandTimesOut, executeLate, exit, start,
                            buildIndex, tick, allVars, told
        <4>2. /\ pc[c] = "settled" /\ id = call[c].id /\ call[c].op = "create"
              /\ outcome[c].statusCode \in {400, 404, 409}
          BY <1>2, <3>2, <4>1 DEF answer, respond
        <4> QED
          BY <4>2 DEF RefusedInv, Inv, TypeOK, Calls
      <3> QED
        BY <3>1, <3>2
    <2> QED
      BY <2>1, VoidKept
  <1> QED
    BY <1>1, <1>2 DEF RefusedInv, Void

\* Whatever happens, an acknowledged shipment is stored until a request removes it.
LEMMA DeliveryNextAcked == DeliveryInv /\ [DeliveryNext]_allVars => AckedInv'
  <1> SUFFICES ASSUME DeliveryInv, [DeliveryNext]_allVars PROVE AckedInv'
    OBVIOUS
  <1> USE DEF DeliveryInv
  <1>1. ASSUME NEW c \in Clients, pc'[c] = "settled", call'[c].op = "create",
               outcome'[c].statusCode = 201
        PROVE  docs'[call'[c].id] # null \/ call'[c].id \in retired'
    <2>1. CASE serve(c)
      BY <1>1, <2>1, ServeIsLocal, ServeAnswers
    <2>2. CASE StaysSettled(c)
      <3>1. call[c].id \in Ids /\ (docs[call[c].id] # null \/ call[c].id \in retired)
        BY <1>1, <2>2 DEF StaysSettled, AckedInv, CreatedIsStored, Inv, TypeOK, Calls
      <3> QED
        BY <2>2, <3>1, DeliveryRecordsRemovals DEF StaysSettled
    <2> QED
      BY <1>1, <2>1, <2>2, WhoSettles
  <1>2. ASSUME NEW id \in acked' PROVE docs'[id] # null \/ id \in retired'
    <2>1. id \in Ids /\ (docs[id] # null \/ id \in retired)
      <3>1. CASE id \in acked
        BY <3>1 DEF AckedInv, AcknowledgedIsStored, DeliveryTypeOK
      <3>2. CASE id \notin acked
        <4>1. PICK c \in Clients : answer(c)
          BY <1>2, <3>2 DEF DeliveryNext, request, serve, commandTimesOut, executeLate, exit, start,
                            buildIndex, tick, allVars, told
        <4>2. /\ pc[c] = "settled" /\ id = call[c].id /\ call[c].op = "create"
              /\ outcome[c].statusCode = 201
          BY <1>2, <3>2, <4>1 DEF answer, respond
        <4> QED
          BY <4>2 DEF AckedInv, CreatedIsStored, Inv, TypeOK, Calls
      <3> QED
        BY <3>1, <3>2
    <2> QED
      BY <2>1, DeliveryRecordsRemovals
  <1> QED
    BY <1>1, <1>2 DEF AckedInv, AcknowledgedIsStored, CreatedIsStored

\* Whatever happens, nothing comes to exist that could store a shipment said to be gone.
LEMMA DeliveryNextGone == DeliveryInv /\ [DeliveryNext]_allVars => GoneInv'
  <1> SUFFICES ASSUME DeliveryInv, [DeliveryNext]_allVars PROVE GoneInv'
    OBVIOUS
  <1> USE DEF DeliveryInv
  <1>1. retired \subseteq retired'
    BY DeliveryRecordsRemovals
  <1>2. ASSUME NEW c \in Clients, serve(c) PROVE GoneInv'
    <2>1. /\ pc[c] # "idle" /\ pc'[c] # "idle" /\ call' = call
          /\ UNCHANGED <<sure, acked, gone>>
          /\ \A d \in Clients : d # c =>
               pc'[d] = pc[d] /\ held'[d] = held[d] /\ outcome'[d] = outcome[d]
      BY <1>2, ServeIsLocal
    <2>2. c \in sure => docs[call[c].id] # null \/ call[c].id \in retired
      BY DEF GoneInv, AckedInv, AcknowledgedIsStored
    <2>3. ASSUME \/ /\ pc'[c] = "settled" /\ outcome'[c].statusCode = 200
                    /\ call[c].op = "delete"
                 \/ /\ pc'[c] = "settled" /\ outcome'[c].statusCode = 404 /\ c \in sure
                 \/ /\ pc'[c] = "resume" /\ held'[c] = null /\ c \in sure
          PROVE  call[c].id \in retired'
      <3>1. CASE pc'[c] = "settled"
        BY <1>1, <1>2, <2>2, <2>3, <3>1, ServeAnswers DEF GoneInv
      <3>2. CASE pc'[c] = "resume"
        <4>1. findOne(c)
          BY <1>2, <3>2
          DEF serve, insertOne, insertOneUnindexed, Store, findOneAndUpdate, ApplyUpdate,
              findOneAndDelete, commandFails, resumeGet, resumeUpdate, ResolveUnlessLost,
              NotFoundUnlessLost, Resolve, Reject, IssueUpdate, Inv, TypeOK
        <4>2. held'[c] = docs[call[c].id]
          BY <4>1 DEF findOne, Inv, TypeOK
        <4> QED
          BY <1>1, <2>2, <2>3, <3>2, <4>2
      <3> QED
        BY <2>3, <3>1, <3>2
    <2>4. gone' \subseteq retired' /\ \A d \in sure' : pc'[d] # "idle" /\ call'[d].id \in acked'
      BY <1>1, <2>1 DEF GoneInv, DeliveryTypeOK
    <2>5. ASSUME NEW d \in Clients, d # c,
                 \/ /\ pc'[d] = "settled" /\ outcome'[d].statusCode = 200
                    /\ call'[d].op = "delete"
                 \/ /\ pc'[d] = "settled" /\ outcome'[d].statusCode = 404 /\ d \in sure'
                 \/ /\ pc'[d] = "resume" /\ held'[d] = null /\ d \in sure'
          PROVE  call'[d].id \in retired'
      BY <1>1, <2>1, <2>5 DEF GoneInv
    <2> QED
      BY <2>1, <2>3, <2>4, <2>5 DEF GoneInv
  <1>3. ASSUME NEW c \in Clients, request(c) PROVE GoneInv'
    <2>1. /\ pc[c] = "idle" /\ pc'[c] \in Commands /\ UNCHANGED <<outcome, acked, gone>>
          /\ \A d \in Clients : d # c =>
               pc'[d] = pc[d] /\ call'[d] = call[d] /\ held'[d] = held[d]
      BY <1>3 DEF request, clientStep, createShipment, getShipmentById, updateShipment,
                  deleteShipment, Arrives, Commands, told, Inv, TypeOK
    <2>2. sure' = IF call'[c].id \in acked THEN sure \cup {c} ELSE sure
      BY <1>3 DEF request
    <2> QED
      BY <1>1, <2>1, <2>2 DEF GoneInv, Commands, DeliveryTypeOK
  <1>4. ASSUME NEW c \in Clients, answer(c) PROVE GoneInv'
    <2>1. /\ pc[c] = "settled" /\ pc' = [pc EXCEPT ![c] = "idle"] /\ retired' = retired
          /\ UNCHANGED docs
          /\ sure' = sure \ {c} /\ acked \subseteq acked'
          /\ \A d \in Clients : d # c =>
               call'[d] = call[d] /\ held'[d] = held[d] /\ outcome'[d] = outcome[d]
      BY <1>4 DEF answer, respond, Inv, TypeOK
    <2>2. gone' \subseteq retired'
      BY <1>4, <2>1 DEF answer, GoneInv, Inv, ProgressInv
    <2>3. \A d \in sure' : pc'[d] # "idle" /\ call'[d].id \in acked'
      BY <2>1 DEF GoneInv, DeliveryTypeOK, Inv, TypeOK
    <2>4. ASSUME NEW d \in Clients,
                 \/ /\ pc'[d] = "settled" /\ outcome'[d].statusCode = 200
                    /\ call'[d].op = "delete"
                 \/ /\ pc'[d] = "settled" /\ outcome'[d].statusCode = 404 /\ d \in sure'
                 \/ /\ pc'[d] = "resume" /\ held'[d] = null /\ d \in sure'
          PROVE  call'[d].id \in retired'
      <3>1. d # c /\ pc'[d] = pc[d]
        BY <2>1, <2>4 DEF Inv, TypeOK
      <3> QED
        BY <2>1, <2>4, <3>1 DEF GoneInv
    <2> QED
      BY <2>2, <2>3, <2>4 DEF GoneInv
  <1>5. ASSUME NEW c \in Clients, commandTimesOut(c) PROVE GoneInv'
    <2>1. /\ pc[c] \in Commands /\ pc' = [pc EXCEPT ![c] = "settled"]
          /\ outcome'[c].statusCode = 500
          /\ \A d \in Clients : d # c => outcome'[d] = outcome[d]
          /\ UNCHANGED <<call, held, retired, sure, acked, gone>>
      BY <1>5 DEF commandTimesOut, Reject, normalizeError, told, history, Inv, TypeOK
    <2> QED
      BY <2>1 DEF GoneInv, Inv, TypeOK
  <1>6. ASSUME exit PROVE GoneInv'
    BY <1>1, <1>6 DEF exit, told, GoneInv
  <1>7. ASSUME start \/ buildIndex \/ tick \/ UNCHANGED allVars \/ \E l \in late : executeLate(l)
        PROVE  GoneInv'
    <2>1. UNCHANGED <<pc, call, held, outcome, sure, acked, gone>>
      BY <1>7 DEF start, buildIndex, tick, Tick, executeLate, allVars, vars, program, told
    <2> QED
      BY <1>1, <2>1 DEF GoneInv
  <1> QED
    BY <1>2, <1>3, <1>4, <1>5, <1>6, <1>7 DEF DeliveryNext

-----------------------------------------------------------------------------
(* The invariant and what follows from it.                                  *)

\* The first start has nothing under way and nothing stored.
LEMMA DeliveryInitInv == DeliveryInit => DeliveryInv
  <1> SUFFICES ASSUME DeliveryInit PROVE DeliveryInv
    OBVIOUS
  <1>1. Inv
    BY InitInv DEF DeliveryInit
  <1>2. DeliveryTypeOK
    BY <1>1, MaxLostAssumption DEF DeliveryInit, DeliveryTypeOK, Init, Inv
  <1>3. LateInsertInv /\ LateUpdateInv
    BY DEF DeliveryInit, LateInsertInv, LateUpdateInv
  <1>4. IndexedIsUnique
    BY DEF DeliveryInit, Init, IndexedIsUnique, UniqueTrackingNumbers
  <1>5. RefusedInv /\ AckedInv /\ GoneInv
    BY DEF DeliveryInit, Init, RefusedInv, AckedInv, AcknowledgedIsStored, CreatedIsStored, GoneInv
  <1> QED
    BY <1>1, <1>2, <1>3, <1>4, <1>5 DEF DeliveryInv

\* DeliveryInv is inductive.
LEMMA DeliveryNextKeepsInv == DeliveryInv /\ [DeliveryNext]_allVars => DeliveryInv'
  BY DeliveryNextInv, DeliveryNextType, DeliveryNextLate, DeliveryNextUnique, DeliveryNextRefused,
     DeliveryNextAcked, DeliveryNextGone DEF DeliveryInv

\* DeliveryInv holds in every reachable state, whatever fails.
THEOREM DeliverySpecInv == DeliverySpec => []DeliveryInv
  BY DeliveryInitInv, DeliveryNextKeepsInv, PTL DEF DeliverySpec

\* Requests, failures, late commands and what the clients know keep their types.
THEOREM DeliverySpecTypeOK == DeliverySpec => []DeliveryTypeOK
  BY DeliverySpecInv, PTL DEF DeliveryInv

\* Once the index is built, tracking numbers differ, late inserts included.
THEOREM DeliverySpecIndexedIsUnique == DeliverySpec => []IndexedIsUnique
  BY DeliverySpecInv, PTL DEF DeliveryInv

\* A shipment acknowledged with 201 survives every failure until it is removed.
THEOREM DeliverySpecAcknowledgedIsStored == DeliverySpec => []AcknowledgedIsStored
  BY DeliverySpecInv, PTL DEF DeliveryInv, AckedInv

\* A creation answered 4xx leaves nothing, not even late.
THEOREM DeliverySpecRefusedIsNeverStored == DeliverySpec => []RefusedIsNeverStored
  <1>1. DeliveryInv => RefusedIsNeverStored
    BY DEF DeliveryInv, RefusedInv, Void, RefusedIsNeverStored
  <1> QED
    BY <1>1, DeliverySpecInv, PTL

\* A shipment a client was told is gone never comes back.
THEOREM DeliverySpecGoneStaysGone == DeliverySpec => []GoneStaysGone
  <1>1. DeliveryInv => GoneStaysGone
    BY DEF DeliveryInv, DeliveryTypeOK, GoneInv, GoneStaysGone, Inv, StoredInv
  <1> QED
    BY <1>1, DeliverySpecInv, PTL

\* The status rule breaks only by an update that another write overtook.
THEOREM DeliverySpecStatusBrokenOnlyByOvertaken == DeliverySpec => StatusBrokenOnlyByOvertaken
  <1>1. DeliveryInv /\ [DeliveryNext]_allVars => [DeliveryStatusStep]_allVars
    <2> SUFFICES ASSUME DeliveryInv, [DeliveryNext]_allVars, NEW id \in Ids,
                        docs[id] # null, docs'[id] # null,
                        ~ isValidStatusTransition(docs[id].status, docs'[id].status)
                 PROVE  UpdateOvertaken(id)
      BY DEF DeliveryStatusStep, UpdateOvertaken
    <2>1. docs'[id] # docs[id]
      BY DEF isValidStatusTransition
    <2>2. Modifies(id)
      BY <2>1, DeliveryChanges DEF Stores, Modifies, Removes, DeliveryInv, Inv, TypeOK
    <2>3. PICK data \in UpdateBodies, time \in Instants :
            /\ docs' = [docs EXCEPT ![id] = applySet(docs[id], data, time)]
            /\ \/ UpdateOvertaken(id)
               \/ data.status = undefined
               \/ isValidStatusTransition(docs[id].status, data.status)
      BY <2>2 DEF Modifies
    <2>4. applySet(docs[id], data, time).status = Given(data.status, docs[id].status)
      BY <2>2, ApplySetFacts DEF Modifies
    <2>5. docs'[id].status = Given(data.status, docs[id].status)
      BY <2>3, <2>4 DEF DeliveryInv, Inv, TypeOK
    <2> QED
      BY <2>3, <2>5 DEF Given, isValidStatusTransition
  <1> QED
    BY <1>1, DeliverySpecInv, PTL DEF DeliverySpec, StatusBrokenOnlyByOvertaken

-----------------------------------------------------------------------------
(* The promises of ShipmentService survive the failures.                    *)

\* Through exits, timeouts and late commands: a 4xx answer means nothing was changed,
\* 200 and 201 that the write was made.
THEOREM DeliverySpecAnswersMatchEffects == DeliverySpec => []AnswersMatchEffects
  <1>1. DeliveryInit => AnswersMatchEffects
    BY DEF DeliveryInit, Init, AnswersMatchEffects
  <1>2. DeliveryInv /\ AnswersMatchEffects /\ [DeliveryNext]_allVars => AnswersMatchEffects'
    <2> SUFFICES ASSUME DeliveryInv, AnswersMatchEffects, [DeliveryNext]_allVars,
                        NEW c \in Clients, pc'[c] = "settled"
                 PROVE  /\ outcome'[c].statusCode \in {400, 404, 409} => ~ applied'[c]
                        /\ outcome'[c].statusCode \in {200, 201} =>
                              outcome'[c].shipment # null /\ (applied'[c] <=> call'[c].op # "get")
      BY DEF AnswersMatchEffects
    <2>1. CASE serve(c)
      BY <2>1, AnswerMatchesEffect DEF serve, serverStep, DeliveryInv
    <2>2. CASE StaysSettled(c)
      BY <2>2 DEF StaysSettled, AnswersMatchEffects
    <2> QED
      BY <2>1, <2>2, WhoSettles
  <1> QED
    BY <1>1, <1>2, DeliverySpecInv, PTL DEF DeliverySpec

\* Whatever fails, the answer to an update shows the requested values on the shipment
\* that was checked.
THEOREM DeliverySpecUpdateAnswerShowsUpdate == DeliverySpec => []UpdateAnswerShowsUpdate
  <1>1. DeliveryInit => UpdateAnswerShowsUpdate
    BY DEF DeliveryInit, Init, UpdateAnswerShowsUpdate
  <1>2. DeliveryInv /\ UpdateAnswerShowsUpdate /\ [DeliveryNext]_allVars => UpdateAnswerShowsUpdate'
    <2> SUFFICES ASSUME DeliveryInv, UpdateAnswerShowsUpdate, [DeliveryNext]_allVars,
                        NEW c \in Clients,
                        pc'[c] = "settled", call'[c].op = "update", outcome'[c].statusCode = 200
                 PROVE  LET shipment == outcome'[c].shipment IN
                        /\ shipment = applySet(shipment, call'[c].body, stamp'[c])
                        /\ shipment.trackingNumber = held'[c].trackingNumber
                        /\ shipment.createdAt = held'[c].createdAt
      BY DEF UpdateAnswerShowsUpdate
    <2>1. CASE serve(c)
      BY <2>1, UpdateAnswer DEF serve, serverStep, DeliveryInv
    <2>2. CASE StaysSettled(c)
      BY <2>2 DEF StaysSettled, UpdateAnswerShowsUpdate
    <2> QED
      BY <2>1, <2>2, WhoSettles
  <1> QED
    BY <1>1, <1>2, DeliverySpecInv, PTL DEF DeliverySpec

\* A shipment whose creation is being acknowledged is stored, or was removed already.
THEOREM DeliverySpecCreatedIsStored == DeliverySpec => []CreatedIsStored
  BY DeliverySpecInv, PTL DEF DeliveryInv, AckedInv

\* Of the DELETEs of a shipment at most one is answered 200, the late and repeated ones
\* included, and then it is gone.
THEOREM DeliverySpecDeletedOnce == DeliverySpec => DeletedOnce
  <1>1. DeliveryInv /\ [DeliveryNext]_allVars => [RemovalStep]_vars
    <2> SUFFICES ASSUME DeliveryInv, [DeliveryNext]_allVars, NEW c \in Clients,
                        pc[c] = "findOneAndDelete", pc'[c] = "settled",
                        outcome'[c].statusCode = 200
                 PROVE  call[c].id \notin retired /\ call[c].id \in retired' /\ docs'[call[c].id] = null
      BY DEF RemovalStep
    <2>1. serve(c)
      BY WhoSettles DEF StaysSettled
    <2>2. findOneAndDelete(c) \/ commandFails(c)
      BY <2>1 DEF serve, insertOne, insertOneUnindexed, findOne, findOneAndUpdate, resumeGet,
                  resumeUpdate
    <2> QED
      BY <2>2, AcknowledgedRemoval DEF DeliveryInv
  <1> QED
    BY <1>1, DeliverySpecInv, PTL DEF DeliverySpec, DeletedOnce

\* A stored shipment changes only by an update, awaited or late, which writes the fields
\* its body carries and no other (updatedAt aside).
DeliveryFieldsStep ==
    \A id \in Ids :
        \/ docs[id] = null \/ docs'[id] = null \/ docs'[id] = docs[id]
        \/ \E data \in UpdateBodies, time \in Instants :
             /\ Carried(id, data, time)
             /\ \A f \in TextFields :
                   docs'[id].text[f] # docs[id].text[f] => docs'[id].text[f] = data.text[f]
             /\ docs'[id].status # docs[id].status => docs'[id].status = data.status
             /\ docs'[id].updatedAt = time
             /\ docs'[id].trackingNumber = docs[id].trackingNumber
             /\ docs'[id].createdAt = docs[id].createdAt

\* A stored document that changes and stays stored has had an update applied to it.
LEMMA DeliveryStoredChange ==
    ASSUME DeliveryInv, [DeliveryNext]_allVars, NEW id \in Ids,
           docs[id] # null, docs'[id] # null, docs'[id] # docs[id]
    PROVE  \E data \in UpdateBodies, time \in Instants :
             /\ docs[id] \in Document /\ docs'[id] = applySet(docs[id], data, time)
             /\ Carried(id, data, time)
             /\ \/ UpdateOvertaken(id)
                \/ /\ docs[id].updatedAt <= time
                   /\ \/ data.status = undefined
                      \/ isValidStatusTransition(docs[id].status, data.status)
  <1>1. Modifies(id)
    BY DeliveryChanges DEF Stores, Modifies, Removes, DeliveryInv, Inv, TypeOK
  <1> QED
    BY <1>1 DEF Modifies, DeliveryInv, Inv, TypeOK

\* Late and overlapping updates merge field by field.
THEOREM DeliverySpecOnlyRequestedFieldsChange == DeliverySpec => [][DeliveryFieldsStep]_allVars
  <1>1. DeliveryInv /\ [DeliveryNext]_allVars => [DeliveryFieldsStep]_allVars
    <2> SUFFICES ASSUME DeliveryInv, [DeliveryNext]_allVars, NEW id \in Ids, docs[id] # null,
                        docs'[id] # null, docs'[id] # docs[id]
                 PROVE  \E data \in UpdateBodies, time \in Instants :
                          /\ Carried(id, data, time)
                          /\ \A f \in TextFields :
                                docs'[id].text[f] # docs[id].text[f]
                                   => docs'[id].text[f] = data.text[f]
                          /\ docs'[id].status # docs[id].status => docs'[id].status = data.status
                          /\ docs'[id].updatedAt = time
                          /\ docs'[id].trackingNumber = docs[id].trackingNumber
                          /\ docs'[id].createdAt = docs[id].createdAt
      BY DEF DeliveryFieldsStep
    <2>1. PICK data \in UpdateBodies, time \in Instants :
            /\ docs[id] \in Document /\ docs'[id] = applySet(docs[id], data, time)
            /\ Carried(id, data, time)
      BY DeliveryStoredChange
    <2>2. \A f \in TextFields : docs'[id].text[f] = Given(data.text[f], docs[id].text[f])
      BY <2>1 DEF applySet, Document
    <2> QED
      BY <2>1, <2>2, ApplySetFacts DEF Given
  <1> QED
    BY <1>1, DeliverySpecInv, PTL DEF DeliverySpec

\* An update sets updatedAt to the instant it was issued, and back only when another
\* write overtook it.
DeliveryUpdatedAtStep ==
    \A id \in Ids :
        \/ docs[id] = null \/ docs'[id] = null \/ docs'[id] = docs[id]
        \/ \E data \in UpdateBodies, time \in Instants :
             /\ Carried(id, data, time) /\ docs'[id].updatedAt = time
             /\ docs[id].updatedAt <= time \/ UpdateOvertaken(id)

\* updatedAt goes back by an overtaken update, awaited or late, and by nothing else.
THEOREM DeliverySpecUpdatedAtBackOnlyByOvertaken ==
    DeliverySpec => [][DeliveryUpdatedAtStep]_allVars
  <1>1. DeliveryInv /\ [DeliveryNext]_allVars => [DeliveryUpdatedAtStep]_allVars
    <2> SUFFICES ASSUME DeliveryInv, [DeliveryNext]_allVars, NEW id \in Ids,
                        docs[id] # null, docs'[id] # null, docs'[id] # docs[id]
                 PROVE  \E data \in UpdateBodies, time \in Instants :
                          /\ Carried(id, data, time) /\ docs'[id].updatedAt = time
                          /\ docs[id].updatedAt <= time \/ UpdateOvertaken(id)
      BY DEF DeliveryUpdatedAtStep
    <2>1. PICK data \in UpdateBodies, time \in Instants :
            /\ docs[id] \in Document /\ docs'[id] = applySet(docs[id], data, time)
            /\ Carried(id, data, time)
            /\ docs[id].updatedAt <= time \/ UpdateOvertaken(id)
      BY DeliveryStoredChange
    <2> QED
      BY <2>1, ApplySetFacts
  <1> QED
    BY <1>1, DeliverySpecInv, PTL DEF DeliverySpec

-----------------------------------------------------------------------------
(* One client, no command lost.                                             *)

\* Before the first command is lost, no update is overtaken.
NothingLost == lost = 0 => late = {} /\ NeverOvertaken

\* A client that sends one request at a time is overtaken only by its own lost commands.
LEMMA OneClientNothingLost ==
    ASSUME \A c, d \in Clients : c = d
    PROVE  DeliverySpec => []NothingLost
  <1>1. DeliveryInit => NothingLost
    BY DEF DeliveryInit, Init, NothingLost, NeverOvertaken
  <1>2. DeliveryInv /\ NothingLost /\ [DeliveryNext]_allVars => NothingLost'
    <2> SUFFICES ASSUME DeliveryInv, NothingLost, [DeliveryNext]_allVars, lost' = 0
                 PROVE  late' = {} /\ NeverOvertaken'
      BY DEF NothingLost
    <2> USE DEF NeverOvertaken
    <2>1. lost \in Nat
      BY MaxLostAssumption DEF DeliveryInv, DeliveryTypeOK
    <2>2. ASSUME NEW clients, LoseTrack(clients) PROVE lost = 0 /\ late' = late
      BY <2>1, <2>2 DEF LoseTrack
    <2>3. CASE \E c \in Clients : request(c) \/ answer(c) \/ commandTimesOut(c)
      <3>1. lost = 0 /\ late' = late
        BY <2>2, <2>3 DEF request, answer, commandTimesOut, failures
      <3>2. \A r \in Clients : overtaken'[r] => overtaken[r]
        BY <2>3 DEF request, clientStep, createShipment, getShipmentById, updateShipment,
                    deleteShipment, answer, respond, commandTimesOut, history, DeliveryInv, Inv, TypeOK
      <3> QED
        BY <3>1, <3>2 DEF NothingLost
    <2>4. ASSUME NEW c \in Clients, serve(c) PROVE late' = {} /\ NeverOvertaken'
      <3>1. lost = 0 /\ late' = {}
        BY <2>4 DEF serve, NothingLost, Overtake
      <3>2. overtaken' = overtaken \/ Wrote(c, call[c].id)
        BY <2>4 DEF serve, insertOne, insertOneUnindexed, Store, findOne, findOneAndUpdate,
                    ApplyUpdate, findOneAndDelete, commandFails, resumeGet, resumeUpdate, history
      <3> QED
        BY <3>1, <3>2 DEF NothingLost, Wrote
    <2>5. CASE \E l \in late : executeLate(l)
      BY <2>5 DEF executeLate, NothingLost
    <2>6. CASE exit
      BY <2>2, <2>6 DEF exit, NothingLost
    <2>7. CASE start \/ buildIndex \/ tick \/ UNCHANGED allVars
      BY <2>7 DEF start, buildIndex, tick, Tick, allVars, vars, history, failures, NothingLost
    <2> QED
      BY <2>3, <2>4, <2>5, <2>6, <2>7 DEF DeliveryNext
  <1> QED
    BY <1>1, <1>2, DeliverySpecInv, PTL DEF DeliverySpec

\* As long as no command was lost, the status moves as documented and updatedAt never
\* goes back.
QuietStep ==
    lost = 0 =>
        \A id \in Ids : docs[id] # null /\ docs'[id] # null =>
            /\ isValidStatusTransition(docs[id].status, docs'[id].status)
            /\ docs[id].updatedAt <= docs'[id].updatedAt

\* One request at a time, exits, restarts and failed commands do the rule no harm: only
\* a command that is executed after its handler gave up does.
THEOREM OneClientKeepsTheRule ==
    ASSUME \A c, d \in Clients : c = d
    PROVE  DeliverySpec => [][QuietStep]_allVars
  <1>1. DeliveryInv /\ NothingLost /\ [DeliveryStatusStep]_allVars
          /\ [DeliveryUpdatedAtStep]_allVars => [QuietStep]_allVars
    <2> SUFFICES ASSUME DeliveryInv, NothingLost, DeliveryStatusStep, DeliveryUpdatedAtStep,
                        lost = 0, NEW id \in Ids, docs[id] # null, docs'[id] # null
                 PROVE  /\ isValidStatusTransition(docs[id].status, docs'[id].status)
                        /\ docs[id].updatedAt <= docs'[id].updatedAt
      BY DEF QuietStep
    <2>1. ~ UpdateOvertaken(id)
      BY DEF NothingLost, NeverOvertaken, UpdateOvertaken
    <2>2. docs[id].updatedAt \in Nat
      BY InstantsAreNumbers DEF DeliveryInv, Inv, TypeOK, Document
    <2> QED
      BY <2>1, <2>2 DEF DeliveryStatusStep, UpdateOvertaken, DeliveryUpdatedAtStep
  <1> QED
    BY <1>1, OneClientNothingLost, DeliverySpecInv, DeliverySpecStatusBrokenOnlyByOvertaken,
       DeliverySpecUpdatedAtBackOnlyByOvertaken, PTL DEF StatusBrokenOnlyByOvertaken

-----------------------------------------------------------------------------
(* ShipmentDelivery implements ShipmentRegistry.                            *)

\* The registry's helpers are the service's.
LEMMA SameReliableOperators ==
    /\ ReliableRegistry!Document = Document /\ ReliableRegistry!Instants = Instants
    /\ \A d, t, m : ReliableRegistry!newShipment(d, t, m) = newShipment(d, t, m)
    /\ \A d, t, m : ReliableRegistry!applySet(d, t, m) = applySet(d, t, m)
  BY DEF ReliableRegistry!Document, Document, ReliableRegistry!Instants, Instants,
         ReliableRegistry!newShipment, newShipment, ReliableRegistry!applySet, applySet,
         ReliableRegistry!Given, Given, ReliableRegistry!SHIPMENT_STATUSES, SHIPMENT_STATUSES

\* Each way the collection changes is a step of the registry.
LEMMA ChangesImplementWrite ==
    ASSUME DeliveryInv, NEW id \in Ids, Stores(id) \/ Modifies(id) \/ Removes(id), index' = index
    PROVE  ReliableRegistry!Write
  <1>1. CASE Stores(id)
    <2>1. PICK data \in CreateBodies, trackingNumber \in TrackingNumbers, time \in Instants :
            /\ docs' = [docs EXCEPT ![id] = newShipment(data, trackingNumber, time)]
            /\ index = "built" => TrackingNumberFree(trackingNumber)
      BY <1>1 DEF Stores
    <2>2. index = "built" => trackingNumber \notin ReliableRegistry!TrackingNumbersInUse
      BY <2>1 DEF TrackingNumberFree, ReliableRegistry!TrackingNumbersInUse, ReliableRegistry!Live
    <2>3. /\ time \in ReliableRegistry!Instants
          /\ docs' = [docs EXCEPT ![id] = ReliableRegistry!newShipment(data, trackingNumber, time)]
      BY <2>1, SameReliableOperators
    <2>4. ReliableRegistry!Create(id)
      BY <1>1, <2>2, <2>3 DEF Stores, ReliableRegistry!Create
    <2> QED
      BY <2>4 DEF ReliableRegistry!Write
  <1>2. CASE Modifies(id)
    <2>1. PICK data \in UpdateBodies, time \in Instants :
            /\ docs' = [docs EXCEPT ![id] = applySet(docs[id], data, time)]
            /\ docs[id].createdAt <= time
      BY <1>2 DEF Modifies
    <2>2. time \in docs[id].createdAt .. MaxTime
      BY <1>2, <2>1, MaxTimeAssumption DEF Modifies, Document, Instants
    <2>3. docs' = [docs EXCEPT ![id] = ReliableRegistry!applySet(docs[id], data, time)]
      BY <2>1, SameReliableOperators
    <2>4. ReliableRegistry!Update(id)
      BY <1>2, <2>2, <2>3 DEF Modifies, ReliableRegistry!Update
    <2> QED
      BY <2>4 DEF ReliableRegistry!Write
  <1>3. CASE Removes(id)
    BY <1>3 DEF Removes, ReliableRegistry!Delete, ReliableRegistry!Write
  <1> QED
    BY <1>1, <1>2, <1>3

\* The index changes from absent to present only by being built over distinct numbers.
LEMMA IndexChanges ==
    ASSUME DeliveryInv, [DeliveryNext]_allVars, UNCHANGED <<docs, retired>>
    PROVE  \/ (index' = "built") = (index = "built")
           \/ ReliableRegistry!BuildIndex
  <1>1. CASE buildIndex
    <2>1. CASE UniqueTrackingNumbers
      BY <1>1, <2>1
      DEF buildIndex, UniqueTrackingNumbers, ReliableRegistry!BuildIndex,
          ReliableRegistry!TrackingNumbersDiffer, ReliableRegistry!Live
    <2>2. CASE ~ UniqueTrackingNumbers
      BY <1>1, <2>2 DEF buildIndex
    <2> QED
      BY <2>1, <2>2
  <1>2. CASE ~ buildIndex
    BY <1>2 DEF DeliveryNext, request, serve, answer, commandTimesOut, executeLate, exit, start,
                tick, allVars, failures
  <1> QED
    BY <1>1, <1>2

\* For every set of ids, clients and bodies, and whatever fails, the service implements
\* the registry.
THEOREM DeliverySpecImplementsRegistry == DeliverySpec => DeliveryImplementsRegistry
  <1>1. DeliveryInit => ReliableRegistry!Init
    BY DEF DeliveryInit, Init, ReliableRegistry!Init
  <1>2. DeliveryInv /\ [DeliveryNext]_allVars => [ReliableRegistry!Next]_(ReliableRegistry!vars)
    <2> SUFFICES ASSUME DeliveryInv, [DeliveryNext]_allVars
                 PROVE  \/ ReliableRegistry!Write \/ ReliableRegistry!BuildIndex
                        \/ /\ UNCHANGED <<docs, retired>>
                           /\ (index' = "built") = (index = "built")
      BY DEF ReliableRegistry!vars, ReliableRegistry!Next
    <2>1. CASE UNCHANGED <<docs, retired>>
      BY <2>1, IndexChanges
    <2>2. CASE ~ UNCHANGED <<docs, retired>>
      BY <2>2, DeliveryChanges, ChangesImplementWrite
    <2> QED
      BY <2>1, <2>2
  <1> QED
    BY <1>1, <1>2, DeliverySpecInv, PTL
    DEF DeliverySpec, DeliveryImplementsRegistry, ReliableRegistry!Spec

=============================================================================
