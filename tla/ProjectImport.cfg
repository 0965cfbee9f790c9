SPECIFICATION Spec
CONSTANTS
    Binaries = {"dol", "a", "b"}
    Sections = {1}
    Offsets = {0, 4, 8}
    Names = {"old", "new"}
    Rels = {"a", "b"}
    LoadedSymbols <- NoRows
    LoadedRelocs <- OneBranch
    Triples <- AllTriples
    MaxTriples = 2
INVARIANTS
    ProjectTypeOK
    AnswersStand
    SavesAll
    Idempotent
    CreatedRowsStay
PROPERTIES
    ImplementsStore
