\* One request at a time: what the rule on status rests on, and that
\* every request is answered (no symmetry: that one is a liveness property).
CONSTANTS
    null = null
    undefined = undefined
    note = note
    lagos = lagos
    abuja = abuja
    TextFields <- MCTextFields
    Texts <- MCTexts
    MaxTime = 1
    TrackingNumbers = {t1, t2}
    Ids = {i1, i2}
    Clients = {c1}
    CreateBodies <- MCCreateBodies
    UpdateBodies <- MCUpdateBodies
SPECIFICATION FairSpec
PROPERTIES
    StatusesFollowTransitions
    Answered
