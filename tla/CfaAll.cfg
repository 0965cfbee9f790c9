SPECIFICATION Spec
CONSTANTS
    Length = 3
    Insns <- AllInsns
    AssertsOn = FALSE
INVARIANTS
    IInv
    LookupIsInternal
    EdgesMirrored
    RecursionBounded
    BlocksStraight
    StartsInFunction
    GraphExact
    ExitsLeave
PROPERTIES
    FinishedFrozen
    Termination
    ImplementsDiscovery
