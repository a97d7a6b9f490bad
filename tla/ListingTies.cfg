\* The same walk over a sort field on which shipments agree.
CONSTANTS
    null = null
    undefined = undefined
    TextFields <- MCTextFields
    Texts <- MCTexts
    FilteredFields <- MCFilteredFields
    SearchedFields <- MCSearchedFields
    RegexMatches <- MCRegexMatches
    NoRegex <- MCNoRegex
    TrackingNumbers <- MCTrackingNumbers
    MaxTime = 0
    Ids = {i1, i2}
    CreateBodies <- MCCreateBodies
    UpdateBodies <- MCUpdateBodies
    RawQueries <- MCStatusQueries
    DEFAULT_LIMIT = 1
    MAX_LIMIT = 2
SPECIFICATION Spec
INVARIANTS
    AnyWalkListsEachOnce
