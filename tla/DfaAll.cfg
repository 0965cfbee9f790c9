SPECIFICATION FunctionSpec
CONSTANTS
    Length = 5
    Insns <- SomeInsns
    AssertsOn = TRUE
    Regs = {"r3", "r5", "r31"}
    Functions <- CallsAndLoops
    KilledByCall = {"r3", "r5"}
    DefinedByCall = {"r3"}
    MaxPasses = 12
INVARIANTS
    DfaTypeOK
    WorklistProper
    NoSpuriousDefinition
    DefinednessExact
    InputsOlder
    SinksInOrder
PROPERTIES
    ForwardEnds
