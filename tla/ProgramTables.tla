--------------------------- MODULE ProgramTables ---------------------------
(***************************************************************************)
(* The symbol and relocation tables of a program: vectors of rows, and     *)
(* indices from a location or a name to the row that a lookup answers      *)
(* with.  push_back adds a row and leaves the indices as they are; they    *)
(* are made anew for the whole vector.  An optional row is a set of at     *)
(* most one.                                                               *)
(***************************************************************************)
EXTENDS Naturals, Sequences

CONSTANTS
    Binaries,  \* the files of the program
    Sections,  \* the indices of sections in them
    Offsets,   \* the offsets in a section
    Names      \* the names of symbols

Location == [binary : Binaries, section : Sections, offset : Offsets]

Symbol == [location : Location, name : Names,
           binding : {"local", "global", "weak"}]

Relocation == [source : Location, destination : Location]

(***************************************************************************)
(* ProgramLocation adds the binary to a BinaryLocation and inherits its    *)
(* operator==, which knows of the section and the offset only.  This is    *)
(* the equality that the keys of both unordered_maps have.                 *)
(***************************************************************************)
Key(loc) == <<loc.section, loc.offset>>

Keys == Sections \X Offsets

(* The definitions named ..Slip are the next ones with a mistake.          *)
FirstRowSlip(rows) ==    \* insert_or_assign: the last row wins
    CHOOSE i \in rows : \A j \in rows : j <= i

\* unordered_map::insert keeps the row it has for a key.
FirstRow(rows) == CHOOSE i \in rows : \A j \in rows : i <= j

LocationIndex(symbols) ==
    [k \in {Key(symbols[i].location) : i \in DOMAIN symbols} |->
        FirstRow({i \in DOMAIN symbols : Key(symbols[i].location) = k})]

NameIndex(symbols) ==
    LET Indexed == {i \in DOMAIN symbols : symbols[i].binding # "local"}
    IN  [n \in {symbols[i].name : i \in Indexed} |->
            FirstRow({i \in Indexed : symbols[i].name = n})]

SourceIndex(relocs) ==
    [k \in {Key(relocs[i].source) : i \in DOMAIN relocs} |->
        FirstRow({i \in DOMAIN relocs : Key(relocs[i].source) = k})]

\* lookupByLocation, lookupByName and lookupBySource: a row by its index.
Lookup(rows, index, k) == {rows[index[k]] : i \in {k} \cap DOMAIN index}

lookupByLocation(symbols, index, loc) == Lookup(symbols, index, Key(loc))
lookupByName(symbols, index, name) == Lookup(symbols, index, name)
lookupBySource(relocs, index, loc) == Lookup(relocs, index, Key(loc))

=============================================================================
