--------------------------- MODULE ProgramLoading ---------------------------
(***************************************************************************)
(* The program loaders: what ElfProgramLoader and NinProgramLoader put in  *)
(* the symbol and relocation tables, how a location and an address are     *)
(* found from each other, and where a branch leads.  A program is a        *)
(* sequence of files, all ELF or all RVL (DOL and REL).  Parsing a file is *)
(* ELFIO's and ninutils's; a file is taken here as they deliver it.        *)
(*                                                                         *)
(* Binaries and sections are numbered from 1, in the code from 0.  An      *)
(* optional value is a set of at most one.                                 *)
(***************************************************************************)
EXTENDS Integers, ProgramTables, SequencesExt, Sublists

CONSTANTS
    Programs,    \* the programs to load
    Word,        \* the number of addresses, 2^32 in the code
    LoadInfos,   \* the load addresses an import may give to a REL
    Values       \* the displacements and addresses of branches to resolve

Undefined == -1    \* SHN_UNDEF
Absolute  == -2    \* SHN_ABS

(***************************************************************************)
(* A file has sections, each with its offset and length in it, its type    *)
(* and, in an ELF file or a DOL, its address.  An ELF file has symbols and *)
(* relocations by them; linked says that their values are addresses.  A    *)
(* REL has a module id, relocations by module, section and addend, and the *)
(* branches that are instructions of its sections.                         *)
(***************************************************************************)
IsFile(f) ==
    /\ f.kind \in {"elf", "dol", "rel"} /\ f.linked \in BOOLEAN
    /\ DOMAIN f.sections \subseteq Nat
    /\ \A s \in DOMAIN f.sections :
          /\ f.sections[s].offset \in Nat
          /\ f.sections[s].addr \in 0..(Word - 1) /\ f.sections[s].length \in 0..(Word - 1)
    /\ DOMAIN f.relocs \subseteq Nat
    /\ \A r \in DOMAIN f.relocs : f.relocs[r].section \in DOMAIN f.sections

ASSUME LoaderAssumption ==
    /\ Word \in Nat \ {0}
    /\ \A p \in Programs :
          /\ Len(p) \in Nat /\ DOMAIN p = 1..Len(p)
          /\ \A b \in DOMAIN p : IsFile(p[b]) /\ (p[b].kind = "elf" <=> p[1].kind = "elf")
ASSUME DolAssumption ==    \* a reference to module 0 is an address of the DOL
    \A p \in Programs : \A b \in DOMAIN p : \A r \in DOMAIN p[b].relocs :
        LET row == p[b].relocs[r]
        IN  p[b].kind = "rel" /\ row.module = 0 =>
                /\ row.addend \in 0..(Word - 1)
                /\ \E d \in DOMAIN p : p[d].kind = "dol" /\ \E s \in DOMAIN p[d].sections :
                      LET sec == p[d].sections[s]
                      IN  sec.addr <= row.addend /\ row.addend < sec.addr + sec.length
ASSUME ElfAssumption ==    \* tables in their order; a relocation is by one of the symbols
    \A p \in Programs : \A b \in DOMAIN p :
        p[b].kind = "elf" =>
            /\ p[b].symbols \in Seq(ToSet(p[b].symbols)) /\ p[b].relocs \in Seq(ToSet(p[b].relocs))
            /\ \A k \in DOMAIN p[b].symbols : p[b].symbols[k].value \in 0..(Word - 1)
            /\ \A r \in DOMAIN p[b].relocs : p[b].relocs[r].symbol \in DOMAIN p[b].symbols
ASSUME LoadInfosAssumption ==
    \A i \in LoadInfos : i.text \in 0..(Word - 1) /\ i.bss \in 0..(Word - 1)
ASSUME ValuesAssumption == Values \subseteq Int

VARIABLES
    files,           \* ProgramLoader::binaries
    load,            \* the load addresses of the RELs; 0 is unknown
    symbols, relocs, \* the tables
    index,           \* their indices; empty until they are made
    at,              \* the binary that is registered next
    phase            \* "symbols", "relocs", "done" or "aborted"

loaderVars == <<files, load, symbols, relocs, index, at, phase>>

Loc(b, s, o) == [binary |-> b, section |-> s, offset |-> o]
IsElf == files[1].kind = "elf"
SectionOf(loc) == files[loc.binary].sections[loc.section]

-----------------------------------------------------------------------------
(* Addresses and locations.                                                *)

(* Zero is no address, except in a DOL.                                    *)
getAddress(b, s) ==
    LET sec == files[b].sections[s]
        a   == IF files[b].kind # "rel" THEN sec.addr
               ELSE IF sec.type = "BSS" THEN load[b].bss
               ELSE (load[b].text + sec.offset) % Word
    IN  IF a = 0 /\ files[b].kind # "dol" THEN {} ELSE {a}

getLocationVMA(loc) ==
    {(a + loc.offset) % Word : a \in getAddress(loc.binary, loc.section)}

SectionsAtSlip(b, vma) ==    \* the address after the last one
    {s \in DOMAIN files[b].sections :
        \E a \in getAddress(b, s) : a <= vma /\ vma <= (a + files[b].sections[s].length) % Word}

SectionsAt(b, vma) ==
    {s \in DOMAIN files[b].sections :
        \E a \in getAddress(b, s) : a <= vma /\ vma < (a + files[b].sections[s].length) % Word}

(* In the first section of the first of n binaries that has the address.   *)
resolveVMA(n, vma) ==
    LET has == {b \in 1..n : SectionsAt(b, vma) # {}}
    IN  {Loc(b, FirstRow(SectionsAt(b, vma)),
             vma - (CHOOSE a \in getAddress(b, FirstRow(SectionsAt(b, vma))) : TRUE)) :
            b \in {b \in has : b = FirstRow(has)}}

-----------------------------------------------------------------------------
(* ElfProgramLoader.                                                       *)

LoadInit ==
    /\ files \in Programs
    /\ load = [b \in DOMAIN files |-> [text |-> 0, bss |-> 0]]
    /\ symbols = <<>> /\ relocs = <<>>
    /\ index = [name |-> NameIndex(<<>>), location |-> LocationIndex(<<>>),
                source |-> SourceIndex(<<>>)]
    /\ at = 1
    /\ phase = IF IsElf THEN "symbols" ELSE "relocs"

getElfSymbolLocation(n, b, sym) ==
    IF files[b].linked \/ sym.section = Absolute THEN resolveVMA(n, sym.value)
    ELSE {Loc(b, sym.section, sym.value)}

TheOnly(S) == CHOOSE x \in S : TRUE
Dies == phase' = "aborted" /\ UNCHANGED <<files, load, symbols, relocs, index, at>>

(* Data, functions and labels, not sections; an address is looked for in   *)
(* the files loaded so far.                                                *)
RegisterSymbols ==
    /\ phase = "symbols" /\ at <= Len(files)
    /\ LET defined == Sublist(files[at].symbols,
                {s \in ToSet(files[at].symbols) : s.section # Undefined /\ s.type # "section"})
           place   == [k \in DOMAIN defined |-> getElfSymbolLocation(at, at, defined[k])]
       IN  \/ /\ \E k \in DOMAIN place : place[k] = {}
              /\ Dies
           \/ /\ \A k \in DOMAIN place : place[k] # {}
              /\ symbols' = symbols \o
                    [k \in DOMAIN place |->
                        [location |-> TheOnly(place[k]), name |-> defined[k].name,
                         binding |-> defined[k].binding]]
              /\ at' = at + 1
              /\ UNCHANGED <<files, load, relocs, index, phase>>

IndexSymbolsSlip ==    \* by location only
    /\ phase = "symbols" /\ at > Len(files)
    /\ index' = [index EXCEPT !.location = LocationIndex(symbols)]
    /\ at' = 1 /\ phase' = "relocs"
    /\ UNCHANGED <<files, load, symbols, relocs>>

IndexSymbols ==
    /\ phase = "symbols" /\ at > Len(files)
    /\ index' = [index EXCEPT !.name = NameIndex(symbols), !.location = LocationIndex(symbols)]
    /\ at' = 1 /\ phase' = "relocs"
    /\ UNCHANGED <<files, load, symbols, relocs>>

(* A symbol that is defined nowhere is at the first place of the program.  *)
getElfRelocDest(b, sym) ==
    IF sym.section # Undefined THEN getElfSymbolLocation(Len(files), b, sym)
    ELSE LET found == lookupByName(symbols, index.name, sym.name)
         IN  IF found = {} THEN {Loc(1, 1, 0)} ELSE {s.location : s \in found}

(* The offset of a relocation is kept, also when it is an address.         *)
RegisterRelocations ==
    /\ phase = "relocs" /\ IsElf /\ at <= Len(files)
    /\ LET rows == files[at].relocs
           dest == [k \in DOMAIN rows |-> getElfRelocDest(at, files[at].symbols[rows[k].symbol])]
       IN  \/ /\ \E k \in DOMAIN dest : dest[k] = {}
              /\ Dies
           \/ /\ \A k \in DOMAIN dest : dest[k] # {}
              /\ relocs' = relocs \o
                    [k \in DOMAIN rows |->
                        [source |-> Loc(at, rows[k].section, rows[k].offset),
                         destination |-> TheOnly(dest[k])]]
              /\ at' = at + 1
              /\ UNCHANGED <<files, load, symbols, index, phase>>

IndexRelocations ==
    /\ phase = "relocs" /\ IsElf /\ at > Len(files)
    /\ index' = [index EXCEPT !.source = SourceIndex(relocs)]
    /\ phase' = "done"
    /\ UNCHANGED <<files, load, symbols, relocs, at>>

-----------------------------------------------------------------------------
(* NinProgramLoader.                                                       *)

(* The sections that begin at the offset or less than their length after   *)
(* it: >= and < have their operands the wrong way round.                   *)
findSectionByOffset(f, off) ==
    {s \in DOMAIN f.sections :
        LET sec == f.sections[s]
        IN  sec.offset >= off % Word /\ sec.offset < ((off % Word) + sec.length) % Word}

(* The destination has its offset in the file, not in the section.         *)
RegisterRel24Relocs ==
    /\ phase = "relocs" /\ ~IsElf /\ at <= Len(files)
    /\ LET f == files[at]
           target(br) == f.sections[br.section].offset + br.offset + br.value
           rows == Sublist(f.branches,
                      {br \in ToSet(f.branches) :
                          /\ f.kind = "rel" /\ f.sections[br.section].type = "TEXT"
                          /\ findSectionByOffset(f, target(br)) # {}})
       IN  relocs' = relocs \o
              [k \in DOMAIN rows |->
                  [source |-> Loc(at, rows[k].section, rows[k].offset),
                   destination |-> Loc(at, FirstRow(findSectionByOffset(f, target(rows[k]))),
                                       target(rows[k]) % Word)]]
    /\ at' = at + 1
    /\ UNCHANGED <<files, load, symbols, index, phase>>

(* No index is made.                                                       *)
FinishRvl ==
    /\ phase = "relocs" /\ ~IsElf /\ at > Len(files)
    /\ phase' = "done"
    /\ UNCHANGED <<files, load, symbols, relocs, index, at>>

(* Rel::setLoadInfo, by an import.                                         *)
SetLoadInfo ==
    /\ phase = "done"
    /\ \E b \in DOMAIN files, i \in LoadInfos :
          files[b].kind = "rel" /\ load' = [load EXCEPT ![b] = i]
    /\ UNCHANGED <<files, symbols, relocs, index, at, phase>>

Loaded == phase \in {"done", "aborted"} /\ UNCHANGED loaderVars

LoadNext ==
    \/ RegisterSymbols \/ IndexSymbols \/ RegisterRelocations \/ IndexRelocations
    \/ RegisterRel24Relocs \/ FinishRvl \/ SetLoadInfo \/ Loaded

LoadSpec == LoadInit /\ [][LoadNext]_loaderVars

-----------------------------------------------------------------------------
(* References and targets, once the program is loaded.                     *)

moduleId2binaryIdxSlip(id) == {id} \cap DOMAIN files    \* the id as an index

(* The last binary with the id; the DOL has id 0.                          *)
moduleId2binaryIdx(id) ==
    LET has == {b \in DOMAIN files : IF files[b].kind = "rel" THEN files[b].id = id ELSE id = 0}
    IN  {b \in has : \A c \in has : c <= b}

(* Of a REL's relocations at a place, the first.                           *)
RelocsAt(loc) ==
    {r \in DOMAIN files[loc.binary].relocs :
        LET row == files[loc.binary].relocs[r]
        IN  row.section = loc.section /\ row.offset = loc.offset}

(* A module that is not there throws, which is Thrown here.                *)
Thrown == Loc(0, 0, 0)

RelReference(row) ==
    IF row.module = 0 THEN resolveVMA(Len(files), row.addend)
    ELSE IF moduleId2binaryIdx(row.module) = {} THEN {Thrown}
    ELSE {Loc(b, row.target, row.addend) : b \in moduleId2binaryIdx(row.module)}

getReferenceAtLocation(loc) ==
    IF IsElf THEN {r.destination : r \in lookupBySource(relocs, index.source, loc)}
    ELSE IF files[loc.binary].kind = "dol" \/ RelocsAt(loc) = {} THEN {}
    ELSE RelReference(files[loc.binary].relocs[FirstRow(RelocsAt(loc))])

resolveTargetSlip(pc, value, isAbsolute) ==    \* the length is not looked at
    IF getReferenceAtLocation(pc) # {} THEN getReferenceAtLocation(pc)
    ELSE IF isAbsolute THEN resolveVMA(Len(files), value % Word)
    ELSE IF pc.offset + value >= 0 THEN {[pc EXCEPT !.offset = @ + value]} ELSE {}

resolveTarget(pc, value, isAbsolute) ==
    IF getReferenceAtLocation(pc) # {} THEN getReferenceAtLocation(pc)
    ELSE IF isAbsolute THEN resolveVMA(Len(files), value % Word)
    ELSE IF pc.offset + value \in 0..(SectionOf(pc).length - 1)
         THEN {[pc EXCEPT !.offset = @ + value]} ELSE {}

-----------------------------------------------------------------------------
(* Properties.                                                             *)

Spots ==
    UNION {UNION {{Loc(b, s, o) : o \in 0..(files[b].sections[s].length - 1)} :
                     s \in DOMAIN files[b].sections} : b \in DOMAIN files}
SpotsAt(vma) == {l \in Spots : getLocationVMA(l) = {vma}}

(* No two sections share an address and none reaches the last one, where   *)
(* address and length add up to 0.                                         *)
Disjoint ==
    /\ \A l \in Spots : (Word - 1) \notin getLocationVMA(l)
    /\ \A v \in 0..(Word - 1) : \A l, m \in SpotsAt(v) : l = m

(* Location and address are inverse to each other whatever has been loaded *)
(* where: the location found for an address has that address, and every    *)
(* address of a section is found.                                          *)
RoundTrip ==
    phase = "done" =>
        \A v \in 0..(Word - 1) :
            /\ resolveVMA(Len(files), v) \subseteq SpotsAt(v)
            /\ Disjoint => resolveVMA(Len(files), v) = SpotsAt(v)

(* A name that an ELF file uses and another one defines is found, whichever *)
(* of them comes first: the relocation leads to a definition of it that is *)
(* not local.  The definition is where its file says it is.                *)
Meant(b, sym) ==
    IF files[b].linked \/ sym.section = Absolute THEN SpotsAt(sym.value)
    ELSE {Loc(b, sym.section, sym.value)}
Definitions(name) ==
    UNION {UNION {Meant(b, files[b].symbols[k]) :
              k \in {k \in DOMAIN files[b].symbols :
                        /\ files[b].symbols[k].name = name
                        /\ files[b].symbols[k].type # "section"
                        /\ files[b].symbols[k].binding # "local"
                        /\ files[b].symbols[k].section # Undefined}} : b \in DOMAIN files}
RelocResolved(b, r) ==
    LET sym == files[b].symbols[r.symbol]
        D   == IF sym.section # Undefined THEN Meant(b, sym) ELSE Definitions(sym.name)
    IN  \E i \in DOMAIN relocs :
            /\ relocs[i].source = Loc(b, r.section, r.offset)
            /\ IF D = {} THEN relocs[i].destination = Loc(1, 1, 0)
               ELSE relocs[i].destination \in D
NamesResolved ==
    phase = "done" /\ IsElf =>
        \A b \in DOMAIN files : \A k \in DOMAIN files[b].relocs :
            RelocResolved(b, files[b].relocs[k])

(* A target that is found is the right one.  A relative branch without a   *)
(* reference is resolved exactly when it stays in its section, at the      *)
(* address the processor would go to; an absolute one at its address.      *)
TargetsExact ==
    phase = "done" =>
        \A pc \in Spots, v \in Values, isAbsolute \in BOOLEAN :
            LET t == resolveTarget(pc, v, isAbsolute)
            IN  getReferenceAtLocation(pc) = {} =>
                    /\ \A l \in t :
                          /\ l \in Spots
                          /\ isAbsolute => getLocationVMA(l) = {v % Word}
                          /\ ~isAbsolute => l.section = pc.section /\ getLocationVMA(l)
                                = {(a + v) % Word : a \in getLocationVMA(pc)}
                    /\ ~isAbsolute /\ t = {} =>
                          ~\E l \in Spots : /\ l.binary = pc.binary /\ l.section = pc.section
                                            /\ l.offset = pc.offset + v

(* What a place refers to does not change when a REL gets its load address *)
(* later, although references to the DOL are addresses.  It is in the      *)
(* module the REL file names.                                              *)
ModuleOf(b) == IF files[b].kind = "rel" THEN files[b].id ELSE 0
ReferencesStand ==
    [][phase = "done" /\ ~IsElf =>
          \A pc \in Spots :
              /\ Disjoint /\ Disjoint' =>
                    getReferenceAtLocation(pc)' = getReferenceAtLocation(pc)
              /\ \A l \in getReferenceAtLocation(pc) \ {Thrown} :
                    Disjoint => \E r \in RelocsAt(pc) :
                        files[pc.binary].relocs[r].module = ModuleOf(l.binary)]_loaderVars

(* Relocation.hpp:13, "Program location that the relocation references":   *)
(* for the branches of a REL it is where the branch goes.                  *)
Rel24Meant ==
    phase = "done" /\ ~IsElf =>
        \A i \in DOMAIN relocs :
            LET from == relocs[i].source
                f    == files[from.binary]
                br   == CHOOSE x \in ToSet(f.branches) :
                            x.section = from.section /\ x.offset = from.offset
            IN  /\ relocs[i].destination \in Spots
                /\ SectionOf(relocs[i].destination).offset + relocs[i].destination.offset
                      = SectionOf(from).offset + from.offset + br.value
=============================================================================
