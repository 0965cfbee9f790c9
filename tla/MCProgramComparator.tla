------------------------ MODULE MCProgramComparator ------------------------
(***************************************************************************)
(* Small ELF programs: two functions, f and g, a local one, h, and a datum *)
(* d, with references between them.                                        *)
(***************************************************************************)
EXTENDS ProgramComparator

Text(off) == [binary |-> "elf", section |-> 1, offset |-> off]
Data(off) == [binary |-> "elf", section |-> 2, offset |-> off]

S(name, loc, size, binding) ==
    [name |-> name, location |-> loc, size |-> size, binding |-> binding]

Branch == [name |-> "REL24", masked |-> TRUE]
Half == [name |-> "ADDR16_LO", masked |-> TRUE]
Pointer == [name |-> "ADDR32", masked |-> TRUE]

\* What differs between the programs: where f, g and d are, the sizes of f
\* and d, the end of the data, the opcodes of f and h, the name of g and how it
\* is bound, what each refers to.
Base == [f |-> 0, g |-> 4, d |-> 0, fSize |-> 4, dSize |-> 6, length |-> 8,
         dType |-> "DATA", op |-> "lwz", hOp |-> "b", gName |-> "g", binding |-> "local",
         fRef |-> "none", gRef |-> "none", dRef |-> "none"]

Place(c, name) ==
    CASE name = "f" -> Text(c.f)
      [] name = "g" -> Text(c.g)
      [] name = "h" -> Text(12)
      [] name = "d" -> Data(c.d)
      [] name = "nowhere" -> Data(2)

Refers(c, source, name, type) ==
    IF name = "none" THEN <<>>
    ELSE <<[source |-> source, destination |-> Place(c, name), type |-> type,
            addend |-> 0]>>

Program(c) ==
    [symbols |-> <<S("f", Place(c, "f"), c.fSize, "global"),
                   S(c.gName, Place(c, "g"), 4, c.binding),
                   S("h", Place(c, "h"), 4, "local"),
                   S("d", Place(c, "d"), c.dSize, "global")>>,
     relocs |-> (IF c.fRef = "d"
                 THEN Refers(c, Text(c.f + 2), "d", Half)
                 ELSE Refers(c, Place(c, "f"), c.fRef, Branch))
                \o Refers(c, Place(c, "g"), c.gRef, Branch)
                \o Refers(c, Place(c, "d"), c.dRef, Pointer),
     type |-> <<"TEXT", c.dType>>,
     length |-> <<16, c.length>>,
     word |-> [loc \in Location |->
                CASE loc = Place(c, "f") -> [opcode |-> c.op, field |-> "0"]
                  [] loc = Place(c, "g") -> [opcode |-> "b", field |-> "0"]
                  [] loc = Place(c, "h") -> [opcode |-> c.hOp, field |-> "0"]
                  [] OTHER -> [opcode |-> "data", field |-> "0"]]]

\* Laid out alike, with every reference but one in a circle; the size of d is
\* no multiple of 4.
AlikeChoices ==
    {[Base EXCEPT !.binding = b, !.fRef = f, !.gRef = g, !.dRef = d] :
        b \in {"local", "global"}, f \in {"none", "d", "g", "h"},
        g \in {"none", "f", "nowhere"}, d \in {"none", "g"}}

\* Another opcode of f, with a reference and without, or of h.
OpChoices ==
    {[Base EXCEPT !.op = "stw", !.fRef = f] : f \in {"none", "d", "g"}}
    \cup {[Base EXCEPT !.hOp = "blr", !.fRef = f] : f \in {"g", "h"}}

\* Other sections, sizes and places, aligned data, also beyond the section and
\* with a reference, and two symbols of one name.
OddChoices ==
    {[Base EXCEPT !.dType = "BSS"],
     [Base EXCEPT !.dSize = 4, !.length = 4],
     [Base EXCEPT !.dSize = 6, !.length = 6],
     [Base EXCEPT !.dSize = 8],
     [Base EXCEPT !.dSize = 8, !.length = 4],
     [Base EXCEPT !.dSize = 4, !.d = 4],
     [Base EXCEPT !.dSize = 8, !.dRef = "f"],
     [Base EXCEPT !.gName = "f", !.binding = "global"],
     [Base EXCEPT !.fSize = 12, !.f = 4, !.g = 0]}

\* A local function, or one that is not, that calls itself.
CircleChoices ==
    {[Base EXCEPT !.fRef = f, !.gRef = "g", !.binding = b] :
        f \in {"none", "g"}, b \in {"local", "global"}}

AlikePrograms ==
    {Program(c) : c \in AlikeChoices \cup OpChoices \cup OddChoices \cup CircleChoices}

\* Functions in another order, or further back.
MovedPrograms ==
    {Program([Base EXCEPT !.f = fg[1], !.g = fg[2], !.binding = b, !.op = o,
                          !.fRef = f, !.dType = "BSS"]) :
        fg \in {<<0, 4>>, <<4, 0>>, <<4, 8>>}, b \in {"local", "global", "weak"},
        o \in {"lwz", "stw"}, f \in {"none", "d", "g"}}

\* An aligned datum with a reference.
PointerPrograms ==
    {Program([Base EXCEPT !.dSize = 4, !.binding = b, !.fRef = f, !.gRef = g,
                          !.dRef = d]) :
        b \in {"global", "weak"}, f \in {"none", "d", "g"}, g \in {"none", "f"},
        d \in {"none", "f", "g"}}

=============================================================================
