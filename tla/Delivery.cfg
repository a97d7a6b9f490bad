\* One client, two shipments, two losses (timeouts or exits), an index still to be built:
\* its requests overlap with what its earlier ones left behind.
CONSTANTS
    null = null
    undefined = undefined
    note = note
    lagos = lagos
    abuja = abuja
    TextFields <- MCNoTextFields
    Texts <- MCTexts
    MaxTime = 1
    TrackingNumbers = {t1}
    Ids = {i1, i2}
    Clients = {c1}
    CreateBodies <- MCOneCreateBody
    UpdateBodies <- MCStatusBodies
    MaxLost = 2
SYMMETRY MCSymmetry
CONSTRAINT MCLostOrLater
SPECIFICATION DeliverySpec
INVARIANTS
    DeliveryTypeOK
    AcknowledgedIsStored
    RefusedIsNeverStored
    GoneStaysGone
    IndexedIsUnique
PROPERTIES
    DeliveryImplementsRegistry
    StatusBrokenOnlyByOvertaken
