SPECIFICATION Spec
CONSTANTS
    IntMax = 7
    Exact = 4
    Spacing = 4
    None = None
    NameOrder <- MCNameOrder
    Relations <- MCRelations
    Bindings <- MCBindings
    Requests <- MCRequests
    Texts <- MCTexts
INVARIANT
    MemoryIsFresh
