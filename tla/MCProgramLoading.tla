-------------------------- MODULE MCProgramLoading --------------------------
(***************************************************************************)
(* Small programs.  ELF: two relocatable files that use each other's       *)
(* names, in both orders, with local and weak definitions, an absolute     *)
(* symbol, and a linked file, also one with a symbol at the end of a       *)
(* segment or a relocation by a section that is not loaded.  RVL: a DOL    *)
(* and two RELs whose ids are not their places, that refer to the DOL, to  *)
(* each other and to a module that is not there.                           *)
(***************************************************************************)
EXTENDS ProgramLoading

Sec(offset, length, type, addr) ==
    [offset |-> offset, length |-> length, type |-> type, addr |-> addr]
Sym(name, section, value, binding) ==
    [name |-> name, section |-> section, value |-> value, binding |-> binding,
     type |-> "func"]
SectionSym(section, value) ==
    [Sym("", section, value, "local") EXCEPT !.type = "section"]
Row(section, offset, symbol) ==
    [section |-> section, offset |-> offset, symbol |-> symbol]
Elf(linked, sections, syms, rows) ==
    [kind |-> "elf", linked |-> linked, sections |-> sections, symbols |-> syms,
     relocs |-> rows]

Code == Sec(1, 4, "TEXT", 0)
Vars == Sec(5, 2, "DATA", 0)

\* Defines f, a local g and a weak h; uses g, h and what no file defines.
User(binding) ==
    Elf(FALSE, <<Code, Vars>>,
        <<Sym("f", 1, 2, "global"), Sym("g", Undefined, 0, "global"),
          Sym("h", 1, 0, binding), Sym("none", Undefined, 0, "global"), SectionSym(2, 0)>>,
        <<Row(1, 0, 2), Row(1, 1, 3), Row(1, 3, 4), Row(2, 0, 1), Row(2, 1, 5)>>)

\* Defines g, h and a local f; uses f and h of the other file.
Provider(local) ==
    Elf(FALSE, <<Code, Vars>>,
        <<Sym("f", 2, 1, local), Sym("g", 2, 0, "global"), Sym("h", Undefined, 0, "global")>>,
        <<Row(1, 1, 3), Row(1, 2, 1)>>)

\* Linked files: the values of their symbols are addresses.
Linked(start, value, debug) ==
    Elf(TRUE, <<Sec(1, 4, "TEXT", start), Sec(5, 3, "DATA", start + 6)>>,
        <<Sym("g", 1, start + 1, "global"), Sym("h", 2, value, "global"),
          SectionSym(3, 0)>>,
        <<Row(1, start, 2)>> \o IF debug THEN <<Row(1, start + 1, 3)>> ELSE <<>>)

\* A symbol of a relocatable file with an address of the linked one.
Fixed(value) ==
    Elf(FALSE, <<Code>>, <<Sym("io", Absolute, value, "global"),
                           Sym("g", Undefined, 0, "global")>>,
        <<Row(1, 0, 1), Row(1, 2, 2)>>)

ElfPrograms ==
    UNION {{<<u, p>>, <<p, u>>} : u \in {User(b) : b \in {"local", "global", "weak"}},
                                 p \in {Provider("local"), Provider("weak")}}
    \cup UNION {{<<l>>, <<l, Fixed(9)>>, <<Fixed(9), l>>, <<l, User("weak")>>} :
                   l \in {Linked(8, 14, FALSE), Linked(8, 17, FALSE), Linked(23, 30, FALSE),
                         Linked(22, 29, FALSE), Linked(8, 14, TRUE)}}

-----------------------------------------------------------------------------
Dol == [kind |-> "dol", linked |-> TRUE, relocs |-> <<>>, branches |-> <<>>,
        sections |-> <<Sec(1, 3, "TEXT", 12), Sec(0, 2, "BSS", 16)>>]

RelRow(section, offset, module, target, addend) ==
    [section |-> section, offset |-> offset, module |-> module, target |-> target,
     addend |-> addend]
Branch(section, offset, value) == [section |-> section, offset |-> offset, value |-> value]

Rel(id, rows, branches) ==
    [kind |-> "rel", linked |-> FALSE, id |-> id, relocs |-> rows, branches |-> branches,
     sections |-> <<Sec(2, 4, "TEXT", 0), Sec(6, 2, "DATA", 0), Sec(0, 2, "BSS", 0)>>]

\* To itself and the other; twice the same place; branches back and forth.
RelOf(id, other) ==
    Rel(id, <<RelRow(1, 1, 0, 0, 13), RelRow(1, 2, other, 2, 1), RelRow(2, 0, id, 3, 0),
              RelRow(1, 2, id, 1, 0), RelRow(2, 1, 0, 0, 17)>>,
        <<Branch(1, 0, 2), Branch(1, 3, -3), Branch(1, 2, 2)>>)

RvlPrograms ==
    {<<Dol, RelOf(1, 2), RelOf(2, 1)>>, <<RelOf(1, 2), RelOf(2, 1), Dol>>,
     <<RelOf(2, 1), Dol, RelOf(1, 3)>>, <<RelOf(3, 3), Dol>>}

AllPrograms == ElfPrograms \cup RvlPrograms

\* Not known, apart from all else, at the top of memory, and over the DOL.
SomeLoadInfos ==
    {[text |-> 18, bss |-> 29], [text |-> 24, bss |-> 8], [text |-> 10, bss |-> 0]}

SomeValues == {-9, -2, 0, 1, 3, 5, 14}

=============================================================================
