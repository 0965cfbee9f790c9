SPECIFICATION FairSpec
CONSTANTS
    Binaries = {"elf"}
    Sections = {1, 2}
    Offsets = {0, 2, 4, 6, 8, 10, 12, 14}
    Names = {"f", "g", "h", "d"}
    Programs <- MovedPrograms
    MaxDepth = 5
INVARIANTS
    RearrangedEqual
