\* A listing filtered by the origin of a stored shipment.
CONSTANTS
    null = null
    undefined = undefined
    TextFields <- MCTextFields
    Texts <- MCTexts
    FilteredFields <- MCFilteredFields
    SearchedFields <- MCSearchedFields
    RegexMatches <- MCRegexMatches
    NoRegex <- MCNoRegex
    TrackingNumbers <- MCTrackingNumbers
    MaxTime = 0
    Ids = {i1, i2}
    CreateBodies <- MCCreateBodies
    UpdateBodies <- MCUpdateBodies
    RawQueries <- MCOriginQueries
    DEFAULT_LIMIT = 1
    MAX_LIMIT = 2
SPECIFICATION Spec
INVARIANTS
    TextIsFound
