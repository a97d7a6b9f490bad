\* One client, one request at a time: an update that timed out is executed late.
CONSTANTS
    null = null
    undefined = undefined
    note = note
    lagos = lagos
    abuja = abuja
    TextFields <- MCNoTextFields
    Texts <- MCTexts
    MaxTime = 0
    TrackingNumbers = {t1}
    Ids = {i1}
    Clients = {c1}
    CreateBodies <- MCOneCreateBody
    UpdateBodies <- MCStatusBodies
    MaxLost = 1
SPECIFICATION DeliverySpec
PROPERTIES
    StatusesFollowTransitions
