\* Two overlapping updates of one shipment against the documented status rule.
CONSTANTS
    null = null
    undefined = undefined
    note = note
    lagos = lagos
    abuja = abuja
    TextFields <- MCTextFields
    Texts <- MCTexts
    MaxTime = 0
    TrackingNumbers = {t1}
    Ids = {i1}
    Clients = {c1, c2}
    CreateBodies <- MCCreateBodies
    UpdateBodies <- MCUpdateBodies
SPECIFICATION Spec
PROPERTIES
    StatusesFollowTransitions
