------------------------- MODULE MCShipmentService -------------------------
(***************************************************************************)
(* Instances of ShipmentService for TLC.                                   *)
(***************************************************************************)
EXTENDS ShipmentService, TLC

CONSTANTS note, lagos, abuja  \* a text field and two values of it

MCTextFields == {note}
MCTexts == {lagos, abuja}

Body(text, status) == [text |-> [f \in TextFields |-> text], status |-> status]

\* One body per kind: the status left out (pending by default) or given.
MCCreateBodies == {Body(lagos, undefined), Body(lagos, "in_transit")}

\* A text alone, a status alone (each one but pending), both.
MCUpdateBodies ==
    {Body(abuja, undefined), Body(lagos, "in_transit")}
      \cup {Body(undefined, s) : s \in {"in_transit", "delivered", "cancelled"}}

\* Statuses are of no interest where the race is for tracking numbers and ids.
MCOneCreateBody == {Body(lagos, undefined)}
MCOneUpdateBody == {Body(abuja, "cancelled")}

\* Clients are interchangeable, and so are identifiers and tracking numbers.
MCSymmetry == Permutations(Clients) \cup Permutations(Ids) \cup Permutations(TrackingNumbers)
=============================================================================
