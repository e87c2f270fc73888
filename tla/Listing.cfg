SPECIFICATION FairSpec
CONSTANTS
    Rows <- MCRows
    Key <- MCKey
    WithUri <- MCOneBare
    Place <- MCPlace
    PageSize = 2
    Modes = {"keyset", "offset"}
    None = None
INVARIANTS StableListed ListedOnce OffsetExact
PROPERTIES ListingEnds
