SPECIFICATION Spec
CONSTANTS
    Rows <- MCRows
    Key <- MCKey
    WithUri <- MCTwoBare
    Place <- MCPlace
    PageSize = 2
    Modes = {"keyset"}
    None = None
INVARIANT StableListed
