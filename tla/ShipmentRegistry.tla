--------------------------- MODULE ShipmentRegistry ---------------------------
(***************************************************************************)
(* What the API promises about the stored shipments, whoever calls it and  *)
(* however the calls overlap: a registry in which a shipment is created    *)
(* once under an identifier and a tracking number of its own, is changed   *)
(* field by field, and is removed for good.  Every operation is one step.  *)
(*                                                                         *)
(* That no two shipments share a tracking number is promised from the      *)
(* moment the database enforces it (indexed), which a new database does    *)
(* not do at once.  The rule on status changes is stated apart             *)
(* (StatusRule): it is what the documentation promises, and whether the    *)
(* service keeps it depends on how requests overlap.                       *)
(***************************************************************************)
EXTENDS ShipmentTypes

CONSTANTS
    Ids,           \* ObjectIds
    CreateBodies,  \* bodies shipments are created from
    UpdateBodies   \* bodies they are updated with

VARIABLES
    docs,     \* the shipment stored under each identifier, or null
    retired,  \* identifiers whose shipment was removed
    indexed   \* the unique index on the tracking numbers exists

vars == <<docs, retired, indexed>>

Live == {id \in Ids : docs[id] # null}

TrackingNumbersInUse == {docs[id].trackingNumber : id \in Live}

TrackingNumbersDiffer ==
    \A i, j \in Live : docs[i].trackingNumber = docs[j].trackingNumber => i = j

Init ==
    /\ docs = [id \in Ids |-> null]
    /\ retired = {}
    /\ indexed \in BOOLEAN

\* A new shipment has an identifier never used before and, once the index exists, a
\* tracking number no stored shipment has.
Create(id) ==
    /\ docs[id] = null
    /\ id \notin retired
    /\ \E data \in CreateBodies, trackingNumber \in TrackingNumbers, time \in Instants :
            /\ indexed => trackingNumber \notin TrackingNumbersInUse
            /\ docs' = [docs EXCEPT ![id] = newShipment(data, trackingNumber, time)]
    /\ UNCHANGED retired
    /\ indexed' = indexed

\* A stored shipment takes the fields of the body and keeps all others; it is
\* never stamped with an instant before its creation.
Update(id) ==
    /\ docs[id] # null
    /\ \E data \in UpdateBodies, time \in docs[id].createdAt .. MaxTime :
            docs' = [docs EXCEPT ![id] = applySet(docs[id], data, time)]
    /\ UNCHANGED retired
    /\ indexed' = indexed

Delete(id) ==
    /\ docs[id] # null
    /\ docs' = [docs EXCEPT ![id] = null]
    /\ retired' = retired \cup {id}
    /\ indexed' = indexed

\* The index is built, which takes tracking numbers that differ, and stays.
BuildIndex ==
    /\ ~ indexed /\ TrackingNumbersDiffer
    /\ indexed' = TRUE
    /\ UNCHANGED <<docs, retired>>

Write == \E id \in Ids : Create(id) \/ Update(id) \/ Delete(id)

Next == Write \/ BuildIndex

Spec == Init /\ [][Next]_vars

\* The documented life of a shipment: as long as it is stored, its status moves
\* only along STATUS_TRANSITIONS, so delivered and cancelled are final.
StatusRule ==
    [][\A id \in Ids :
         docs[id] # null /\ docs'[id] # null
           => isValidStatusTransition(docs[id].status, docs'[id].status)]_vars

StrictSpec == Spec /\ StatusRule
=============================================================================
