SPECIFICATION LoadSpec
CONSTANTS
    Programs <- AllPrograms
    Word = 32
    LoadInfos <- SomeLoadInfos
    Values <- SomeValues
    Binaries = {1, 2, 3}
    Sections = {1, 2, 3}
    Offsets = {0, 1, 2, 3}
    Names = {"f", "g", "h", "io", "none"}
INVARIANTS
    RoundTrip
    NamesResolved
    TargetsExact
PROPERTIES
    ReferencesStand
