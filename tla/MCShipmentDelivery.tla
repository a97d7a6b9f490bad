-------------------------- MODULE MCShipmentDelivery --------------------------
(***************************************************************************)
(* Instances of ShipmentDelivery for TLC.                                  *)
(***************************************************************************)
EXTENDS ShipmentDelivery, MCShipmentService

\* The properties of ShipmentDelivery tell no texts apart.
MCNoTextFields == {}

\* Two moves of one status, of which the first forbids the second.
MCStatusBodies == {Body(undefined, s) : s \in {"in_transit", "cancelled"}}

\* Bound: of the runs that lose two commands, only those of one instant.
MCLostOrLater == lost <= 1 \/ now = 0
=============================================================================
