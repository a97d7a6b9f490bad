\* Two requests at a time on one shipment: every overlap of two handlers.
CONSTANTS
    null = null
    undefined = undefined
    note = note
    lagos = lagos
    abuja = abuja
    TextFields <- MCTextFields
    Texts <- MCTexts
    MaxTime = 1
    TrackingNumbers = {t1}
    Ids = {i1}
    Clients = {c1, c2}
    CreateBodies <- MCCreateBodies
    UpdateBodies <- MCUpdateBodies
SYMMETRY MCSymmetry
SPECIFICATION Spec
INVARIANTS
    TypeOK
    AnswersMatchEffects
    UpdateAnswerShowsUpdate
    CreatedIsStored
PROPERTIES
    ImplementsRegistry
    StatusBrokenOnlyByRace
    OnlyRequestedFieldsChange
    DeletedOnce
    UpdatedAtBackOnlyByRace
