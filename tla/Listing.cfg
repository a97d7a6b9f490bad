\* Three shipments read in pages of one and two, while others are written.
CONSTANTS
    null = null
    undefined = undefined
    TextFields <- MCTextFields
    Texts <- MCTexts
    FilteredFields <- MCFilteredFields
    SearchedFields <- MCSearchedFields
    RegexMatches <- MCRegexMatches
    NoRegex <- MCNoRegex
    TrackingNumbers <- MCTrackingNumbers
    MaxTime = 1
    Ids = {i1, i2, i3}
    CreateBodies <- MCCreateBodies
    UpdateBodies <- MCUpdateBodies
    RawQueries <- MCRawQueries
    DEFAULT_LIMIT = 1
    MAX_LIMIT = 2
SYMMETRY MCSymmetry
SPECIFICATION Spec
INVARIANTS
    TypeOK
    PageIsBounded
    MetadataFitsPage
    WalkListsEachOnce
    WalkMissesOnlyByRepeating
