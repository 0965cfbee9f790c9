SPECIFICATION FunctionSpec
CONSTANTS
    Length = 4
    Insns <- SomeInsns
    AssertsOn = TRUE
    Regs = {"r3"}
    Functions <- ConditionalInLoop
    KilledByCall = {}
    DefinedByCall = {}
    MaxPasses = 60
PROPERTIES
    DfaTermination
