------------------------- MODULE MCShipmentListing -------------------------
(***************************************************************************)
(* Instances of ShipmentListing for TLC: two text fields, one filtered and *)
(* one searched, and three texts in the order of their numbers.            *)
(***************************************************************************)
EXTENDS ShipmentListing, TLC

MCTextFields == {"origin", "senderName"}
MCFilteredFields == {"origin"}
MCSearchedFields == {"senderName"}

\* "Apapa (Lagos", "Apapa (Lagos)", "Lagos": the first has an open group, the second
\* is found in "Apapa Lagos" but not in itself, the third is found in all of them.
MCTexts == 1 .. 3
MCRegexMatches == <<{}, {}, {1, 2, 3}>>
MCNoRegex == {1}

MCTrackingNumbers == 1 .. 3

Body(origin, senderName, status) ==
    [text |-> [origin |-> origin, senderName |-> senderName], status |-> status]

MCCreateBodies == {Body(3, 2, undefined), Body(2, 3, "delivered")}
MCUpdateBodies == {Body(undefined, undefined, "delivered")}

NoFilters ==
    [status |-> undefined, text |-> [origin |-> undefined], search |-> undefined,
     startDate |-> undefined, endDate |-> undefined]

Raw(page, limit, sortBy, order, filters) ==
    [page |-> page, limit |-> limit, sortBy |-> sortBy, order |-> order, filters |-> filters]

\* Each parameter left out, at its bounds and beyond them; a unique sort field and
\* some with ties; filters by status, text, search and date.
MCRawQueries ==
    { Raw(undefined, undefined, undefined, undefined, NoFilters),
      Raw(1, 7, "trackingNumber", "asc", [NoFilters EXCEPT !.text.origin = 3]),
      Raw(0, 0, "trackingNumber", "desc",
          [NoFilters EXCEPT !.status = "pending", !.startDate = 1, !.endDate = 1]),
      Raw(2, 7, "origin", "asc", [NoFilters EXCEPT !.search = 3]),
      Raw(1, 1, "updatedAt", "asc", [NoFilters EXCEPT !.text.origin = 1]) }

\* A sort field on which shipments agree.
MCStatusQueries == {Raw(1, 1, "status", "asc", NoFilters)}

\* The origin of a stored shipment.
MCOriginQueries == {Raw(1, 1, "createdAt", "desc", [NoFilters EXCEPT !.text.origin = o]) : o \in {2, 3}}

MCSymmetry == Permutations(Ids)
=============================================================================
