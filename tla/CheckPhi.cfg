SPECIFICATION CheckSpec
CONSTANTS
    Length = 4
    Insns <- MCInsns
    AssertsOn = FALSE
    Regs <- MCRegs
    Functions = {}
    KilledByCall <- MCKilled
    DefinedByCall <- MCDefined
    MaxPasses = 8
    Pairs <- JoinPair
INVARIANTS
    SelfEquivalent
