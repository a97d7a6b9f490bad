---------------------------- MODULE ShipmentTypes ----------------------------
(***************************************************************************)
(* The data the service works on: the statuses of a shipment and the moves *)
(* between them, the document stored for a shipment, the bodies of POST    *)
(* and PUT requests, and the two ways a document is built from a body.     *)
(*                                                                         *)
(* The four text fields of a shipment (senderName, receiverName, origin,   *)
(* destination) are treated alike by every layer, so they are a parameter: *)
(* a document maps each field of TextFields to a member of Texts.  Texts   *)
(* are the values that Joi and Mongoose both accept, already trimmed.      *)
(***************************************************************************)
EXTENDS Naturals

CONSTANTS
    TextFields,       \* names of the free-text fields of a shipment
    Texts,            \* values of those fields
    TrackingNumbers,  \* what generateTrackingNumber may return
    MaxTime,          \* bound: the last instant the clock of a run shows
    null,             \* JavaScript's null: no document
    undefined         \* JavaScript's undefined: a field the body leaves out

SHIPMENT_STATUSES == {"pending", "in_transit", "delivered", "cancelled"}

STATUS_TRANSITIONS ==
    [s \in SHIPMENT_STATUSES |->
        CASE s = "pending"    -> {"in_transit", "cancelled"}
          [] s = "in_transit" -> {"delivered", "cancelled"}
          [] OTHER            -> {}]

\* Keeping the status is always a valid "move".
isValidStatusTransition(currentStatus, newStatus) ==
    \/ currentStatus = newStatus
    \/ newStatus \in STATUS_TRANSITIONS[currentStatus]

Instants == 0 .. MaxTime

Document ==
    [trackingNumber : TrackingNumbers,
     text           : [TextFields -> Texts],
     status         : SHIPMENT_STATUSES,
     createdAt      : Instants,
     updatedAt      : Instants]

CreateShipmentDTO ==
    [text : [TextFields -> Texts], status : SHIPMENT_STATUSES \cup {undefined}]

\* Joi's min(1): a PUT body has at least one field.
UpdateShipmentDTO ==
    {data \in [text   : [TextFields -> Texts \cup {undefined}],
               status : SHIPMENT_STATUSES \cup {undefined}] :
        data.status # undefined \/ \E f \in TextFields : data.text[f] # undefined}

Given(value, default) == IF value = undefined THEN default ELSE value

\* The document `new ShipmentModel({...data, trackingNumber})` saves: the status
\* defaults to pending and Mongoose stamps both timestamps.
newShipment(data, trackingNumber, time) ==
    [trackingNumber |-> trackingNumber,
     text           |-> data.text,
     status         |-> Given(data.status, "pending"),
     createdAt      |-> time,
     updatedAt      |-> time]

\* Mutant: the whole body is written, the fields it leaves out included.
applySetOverwrite(document, data, time) ==
    [document EXCEPT !.text = data.text, !.status = data.status, !.updatedAt = time]

\* `{ $set: data }`: only the fields the body carries are written, and Mongoose
\* adds updatedAt.
applySet(document, data, time) ==
    [document EXCEPT
        !.text      = [f \in TextFields |-> Given(data.text[f], document.text[f])],
        !.status    = Given(data.status, document.status),
        !.updatedAt = time]

ASSUME MaxTimeAssumption == MaxTime \in Nat

\* The two sentinels are no ordinary value.
ASSUME SentinelAssumption ==
    /\ null \notin Document
    /\ undefined \notin Texts
    /\ undefined \notin SHIPMENT_STATUSES
=============================================================================
