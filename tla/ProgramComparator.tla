------------------------- MODULE ProgramComparator -------------------------
(***************************************************************************)
(* ProgramComparator::comparePrograms: does each symbol of the target      *)
(* program, but for the local ones, have a namesake in the source program  *)
(* with the same contents?  Contents are compared word by word; words with *)
(* a relocation are compared by the symbol they refer to, and for a local  *)
(* symbol that means to compare its contents in turn.                      *)
(*                                                                         *)
(* This is the build with assertions, as the tests run it.  pLoader1 has   *)
(* the source program and pLoader2 the target.                             *)
(***************************************************************************)
EXTENDS Integers, ProgramTables

CONSTANTS
    Programs,  \* the programs there are
    MaxDepth   \* bound: the calls that fit on the stack of the process

SectionTypes == {"TEXT", "DATA", "BSS", "NOLOAD"}

(* A word is its opcode and the field that a relocation would fill in; of  *)
(* the type of a relocation only matters whether getRelocMask knows it.    *)
Word == [opcode : STRING, field : STRING]

IsProgram(p) ==
    /\ DOMAIN p.symbols = 1..Len(p.symbols) /\ DOMAIN p.relocs = 1..Len(p.relocs)
    /\ Len(p.symbols) \in Nat /\ Len(p.relocs) \in Nat
    /\ \A i \in DOMAIN p.symbols :
          /\ [f \in {"location", "name", "binding"} |-> p.symbols[i][f]] \in Symbol
          /\ p.symbols[i].size \in Nat
    /\ \A i \in DOMAIN p.relocs :
          /\ [f \in {"source", "destination"} |-> p.relocs[i][f]] \in Relocation
          /\ p.relocs[i].type \in [name : STRING, masked : BOOLEAN]
          /\ p.relocs[i].addend \in Int
    /\ p.type \in [Sections -> SectionTypes]
    /\ p.length \in [Sections -> Nat]
    /\ DOMAIN p.word = Location

ASSUME ProgramsOK ==
    (\A p \in Programs : IsProgram(p)) /\ Offsets \subseteq Nat /\ MaxDepth \in Nat \ {0}

VARIABLES
    prog1, prog2, \* the source and the target program
    row,          \* the row of the target's symbol table that is compared
    stack,        \* the recursion of compareSymbols, innermost first
    result,       \* what a call has returned; <<>> if the caller has it
    answer        \* of comparePrograms, when it has returned

vars == <<prog1, prog2, row, stack, result, answer>>

\* A call of compareSymbols, at an offset of the two symbols; "relocated"
\* when the relocation there has been compared, but not yet the word.
Call(source, target) ==
    [source |-> source, target |-> target, off |-> 0, phase |-> "enter"]

Init ==
    /\ prog1 \in Programs /\ prog2 \in Programs
    /\ row = 1
    /\ stack = <<>>
    /\ result = <<>>
    /\ answer = "none"

Top == stack[1]
Return(value) ==
    /\ stack' = Tail(stack) /\ result' = <<value>>
    /\ UNCHANGED <<prog1, prog2, row, answer>>
GoTo(off, phase) ==
    /\ stack' = [stack EXCEPT ![1].off = off, ![1].phase = phase]
    /\ result' = <<>>
    /\ UNCHANGED <<prog1, prog2, row, answer>>

\* compareSymbols for two local symbols, until the stack is full.
Recurse(source, target) ==
    /\ IF Len(stack) < MaxDepth
       THEN stack' = <<Call(source, target)>> \o stack /\ UNCHANGED answer
       ELSE answer' = "overflow" /\ stack' = <<>>
    /\ UNCHANGED <<prog1, prog2, row, result>>

\* An assertion fails.
Abort ==
    /\ answer' = "aborted" /\ stack' = <<>>
    /\ UNCHANGED <<prog1, prog2, row, result>>

-----------------------------------------------------------------------------
(* comparePrograms.                                                        *)

AtSymbols == answer = "none" /\ stack = <<>> /\ result = <<>>

\* (..Slip: the next definition with a mistake) in the wrong program.
NamesakesSlip(name) == lookupByName(prog2.symbols, NameIndex(prog2.symbols), name)

Namesakes(name) == lookupByName(prog1.symbols, NameIndex(prog1.symbols), name)

NextSymbol ==
    /\ AtSymbols /\ row \in DOMAIN prog2.symbols
    /\ LET target == prog2.symbols[row]
       IN  \/ /\ target.binding = "local"
              /\ row' = row + 1
              /\ UNCHANGED <<stack, answer>>
           \/ /\ target.binding # "local" /\ Namesakes(target.name) = {}
              /\ answer' = "different"
              /\ UNCHANGED <<row, stack>>
           \/ /\ target.binding # "local"
              /\ \E source \in Namesakes(target.name) :
                    stack' = <<Call(source, target)>>
              /\ UNCHANGED <<row, answer>>
    /\ UNCHANGED <<prog1, prog2, result>>

SymbolCompared ==
    /\ answer = "none" /\ stack = <<>> /\ result # <<>>
    /\ IF result[1] THEN row' = row + 1 /\ UNCHANGED answer
                    ELSE answer' = "different" /\ UNCHANGED row
    /\ result' = <<>>
    /\ UNCHANGED <<prog1, prog2, stack>>

EndProgram ==
    /\ AtSymbols /\ row \notin DOMAIN prog2.symbols
    /\ answer' = "equal"
    /\ UNCHANGED <<prog1, prog2, row, stack, result>>

-----------------------------------------------------------------------------
(* compareSymbols, compareFunctions and compareData.                       *)

Plus(loc, off) == [loc EXCEPT !.offset = @ + off]

Type1 == prog1.type[Top.source.location.section]
Type2 == prog2.type[Top.target.location.section]
IsText == Type1 = "TEXT"

MaxNat(a, b) == IF a >= b THEN a ELSE b
compareSize == MaxNat(Top.source.size, Top.target.size)

\* The places that are read: the location of the TARGET in the source
\* program, and that of the SOURCE in the target program.
Place1(off) == Plus(Top.target.location, off)
Place2(off) == Plus(Top.source.location, off)

HasBuffer(p, loc) == loc.offset < p.length[loc.section]
HasBuffers(off) == HasBuffer(prog1, Place1(off)) /\ HasBuffer(prog2, Place2(off))

\* "if both symbols are 4-word aligned", the comment says of this condition.
Unaligned ==
    \/ Top.source.location.offset % 4 # 0 \/ Top.source.size % 4 # 0
    \/ Top.target.location.offset % 4 # 0 \/ Top.target.size % 4 # 0

Words == {4 * k : k \in 0..((compareSize - 1) \div 4)}

\* memcmp of all words at once.  It reads on where a section ends.
InBuffers == \A off \in Words : HasBuffers(off)
SameBytes == \A off \in Words : prog1.word[Place1(off)] = prog2.word[Place2(off)]

Entering == stack # <<>> /\ result = <<>> /\ Top.phase = "enter"

EnterSymbol ==
    /\ Entering
    /\ \/ Type1 # Type2 /\ Return(FALSE)
       \/ Type1 = Type2 /\ Type1 \in {"BSS", "NOLOAD"} /\ Return(TRUE)

EnterFunction ==
    /\ Entering /\ Type1 = Type2 /\ IsText
    /\ IF Top.source.size - Top.target.size \in -7..7
       THEN GoTo(0, "word")
       ELSE Abort

EnterData ==
    /\ Entering /\ Type1 = Type2 /\ Type1 = "DATA"
    /\ \/ ~ HasBuffers(0) /\ Abort
       \/ HasBuffers(0) /\ Unaligned /\ GoTo(0, "word")
       \/ HasBuffers(0) /\ ~ Unaligned /\ InBuffers /\ Return(SameBytes)
       \/ /\ HasBuffers(0) /\ ~ Unaligned /\ ~ InBuffers
          /\ \E any \in BOOLEAN : Return(any)

\* lookupByInsnLoc looks at the second half of the instruction, too.
RelocAt(p, loc) == lookupBySource(p.relocs, SourceIndex(p.relocs), loc)
RelocFor(p, loc) ==
    IF IsText /\ RelocAt(p, loc) = {} THEN RelocAt(p, Plus(loc, 2))
                                      ELSE RelocAt(p, loc)

Relocs1Slip == RelocAt(prog1, Place1(Top.off))    \* by lookupBySource
Relocs1 == RelocFor(prog1, Place1(Top.off))
Relocs2 == RelocFor(prog2, Place2(Top.off))

AtWord ==
    /\ stack # <<>> /\ result = <<>> /\ Top.phase = "word"
    /\ Top.off < compareSize

EndSymbol ==
    /\ stack # <<>> /\ result = <<>> /\ Top.phase = "word"
    /\ Top.off >= compareSize
    /\ Return(TRUE)

CompareWord ==
    /\ AtWord
    /\ \/ (Relocs1 = {}) # (Relocs2 = {}) /\ Return(FALSE)
       \/ (Relocs1 = {}) = (Relocs2 = {}) /\ ~ HasBuffers(Top.off) /\ Abort
       \/ /\ Relocs1 = {} /\ Relocs2 = {} /\ HasBuffers(Top.off)
          /\ IF prog1.word[Place1(Top.off)] = prog2.word[Place2(Top.off)]
             THEN GoTo(Top.off + 4, "word")
             ELSE Return(FALSE)

-----------------------------------------------------------------------------
(* compareRelocations, and what compareFunctions does after it.            *)

SymbolFor(p, r) == lookupByLocation(p.symbols, LocationIndex(p.symbols), r.destination)

ByContentsSlip(s, t) == TRUE    \* whatever their bindings

\* A symbol that other files cannot see is compared by its contents.
ByContents(s, t) == "local" \in {s.binding, t.binding}

\* The names, types and addends of two relocations to symbols s and t.
SameReference(r, s, q, t) ==
    s.name = t.name /\ r.type = q.type /\ r.addend = q.addend

CompareRelocations ==
    /\ AtWord /\ HasBuffers(Top.off)
    /\ \E r \in Relocs1, q \in Relocs2 :
          \/ SymbolFor(prog1, r) = {} /\ Abort
          \/ SymbolFor(prog1, r) # {} /\ SymbolFor(prog2, q) = {} /\ Abort
          \/ \E s \in SymbolFor(prog1, r), t \in SymbolFor(prog2, q) :
                IF ByContents(s, t)
                THEN Recurse(s, t)
                ELSE IF SameReference(r, s, q, t)
                THEN GoTo(Top.off, "relocated")
                ELSE Return(FALSE)

LocalCompared ==
    /\ stack # <<>> /\ result # <<>>
    /\ IF result[1] THEN GoTo(Top.off, "relocated") ELSE Return(FALSE)

SameMaskedSlip(r) ==    \* the field is kept and the rest masked
    LET w1 == prog1.word[Place1(Top.off)]
        w2 == prog2.word[Place2(Top.off)]
    IN  w1.field = w2.field /\ (r.type.masked \/ w1.opcode = w2.opcode)

\* The rest of the instruction, by the mask of the source's relocation.
SameMasked(r) ==
    LET w1 == prog1.word[Place1(Top.off)]
        w2 == prog2.word[Place2(Top.off)]
    IN  w1.opcode = w2.opcode /\ (r.type.masked \/ w1.field = w2.field)

CompareRelocated ==
    /\ stack # <<>> /\ result = <<>> /\ Top.phase = "relocated"
    /\ IF IsText => \A r \in Relocs1 : SameMasked(r)
       THEN GoTo(Top.off + 4, "word")
       ELSE Return(FALSE)

Finished == answer # "none" /\ UNCHANGED vars

Next ==
    \/ NextSymbol \/ SymbolCompared \/ EndProgram
    \/ EnterSymbol \/ EnterFunction \/ EnterData
    \/ CompareWord \/ EndSymbol
    \/ CompareRelocations \/ LocalCompared \/ CompareRelocated
    \/ Finished

Spec == Init /\ [][Next]_vars

-----------------------------------------------------------------------------
(* Properties.                                                             *)

\* The calls on the stack are about symbols of the two programs.
ProgramTypeOK ==
    /\ prog1 \in Programs /\ prog2 \in Programs
    /\ row \in 1..(Len(prog2.symbols) + 1)
    /\ Len(stack) <= MaxDepth
    /\ \A i \in DOMAIN stack :
          /\ \E j \in DOMAIN prog1.symbols : stack[i].source = prog1.symbols[j]
          /\ \E j \in DOMAIN prog2.symbols : stack[i].target = prog2.symbols[j]
          /\ stack[i].off \in Nat
          /\ stack[i].phase \in {"enter", "word", "relocated"}
    /\ result \in {<<>>, <<TRUE>>, <<FALSE>>}
    /\ answer \in {"none", "equal", "different", "aborted", "overflow"}

(* A program is equal to itself, if no two of its symbols that are not     *)
(* local have one name, and the symbols are within their sections.         *)
NamesUnique(p) ==
    \A i, j \in DOMAIN p.symbols :
        /\ p.symbols[i].name = p.symbols[j].name
        /\ p.symbols[i].binding # "local" /\ p.symbols[j].binding # "local"
        => i = j
InSection(p, i) ==
    p.symbols[i].location.offset + p.symbols[i].size <= p.length[p.symbols[i].location.section]
WellFormed(p) == NamesUnique(p) /\ \A i \in DOMAIN p.symbols : InSection(p, i)

SelfEqual == prog1 = prog2 /\ WellFormed(prog1) => answer # "different"

(* What it means that a symbol i of program p and a symbol j of program q  *)
(* are the same, with each symbol read in its own program.  A relation     *)
(* between symbols is a proof of it if it holds of namesakes, and wherever *)
(* it holds the contents agree word by word: without relocations, or by    *)
(* references to the same name, or to symbols that it relates.             *)
Pairs(p, q) == (DOMAIN p.symbols) \X (DOMAIN q.symbols)

Reloc(p, i, off, text) ==
    LET loc == Plus(p.symbols[i].location, off)
    IN  IF text /\ RelocAt(p, loc) = {} THEN RelocAt(p, Plus(loc, 2))
                                        ELSE RelocAt(p, loc)

RowsAt(p, loc) == {i \in DOMAIN p.symbols : p.symbols[i].location = loc}

SameTarget(p, q, r1, r2, related) ==
    \E i \in RowsAt(p, r1.destination), j \in RowsAt(q, r2.destination) :
        LET s == p.symbols[i]
            t == q.symbols[j]
        IN  IF "local" \in {s.binding, t.binding}
            THEN <<i, j>> \in related
            ELSE SameReference(r1, s, r2, t)

SameWord(p, q, i, j, off, text, related) ==
    LET w1 == p.word[Plus(p.symbols[i].location, off)]
        w2 == q.word[Plus(q.symbols[j].location, off)]
        R1 == Reloc(p, i, off, text)
        R2 == Reloc(q, j, off, text)
    IN  IF R1 = {} \/ R2 = {}
        THEN R1 = {} /\ R2 = {} /\ w1 = w2
        ELSE \A r1 \in R1, r2 \in R2 :
                /\ SameTarget(p, q, r1, r2, related)
                /\ text => w1.opcode = w2.opcode /\ (r1.type.masked \/ w1.field = w2.field)

TypeOf(p, i) == p.type[p.symbols[i].location.section]

SameContents(p, q, i, j, related) ==
    /\ TypeOf(p, i) = TypeOf(q, j)
    /\ TypeOf(p, i) \in {"TEXT", "DATA"} =>
          /\ p.symbols[i].size = q.symbols[j].size
          /\ \A k \in 0..((p.symbols[i].size - 1) \div 4) :
                SameWord(p, q, i, j, 4 * k, TypeOf(p, i) = "TEXT", related)

Namesake(p, q, j) ==
    {i \in DOMAIN p.symbols : /\ p.symbols[i].binding # "local"
                              /\ p.symbols[i].name = q.symbols[j].name}

\* The pairs that may be the same, depending on the local symbols they refer to.
Candidates(p, q) ==
    {ij \in Pairs(p, q) : SameContents(p, q, ij[1], ij[2], Pairs(p, q))}

Equivalent(p, q) ==
    \E related \in SUBSET Candidates(p, q) :
        /\ \A j \in DOMAIN q.symbols : q.symbols[j].binding # "local" =>
              \E i \in Namesake(p, q, j) : <<i, j>> \in related
        /\ \A ij \in related : SameContents(p, q, ij[1], ij[2], related)

(* Programs are laid out alike if they have the same symbols in the same   *)
(* places, and what refers to a local symbol in one of them refers to the  *)
(* same place in the other.                                                *)
WordsOf(p, i) == {4 * k : k \in 0..((p.symbols[i].size - 1) \div 4)}
LocalAt(p, loc) == \E i \in RowsAt(p, loc) : p.symbols[i].binding = "local"
Alike(p, q) ==
    /\ p.symbols = q.symbols
    /\ \A i \in DOMAIN p.symbols, text \in BOOLEAN : \A off \in WordsOf(p, i) :
          \A r1 \in Reloc(p, i, off, text), r2 \in Reloc(q, i, off, text) :
              LocalAt(p, r1.destination) \/ LocalAt(q, r2.destination) =>
                  r1.destination = r2.destination

(* A place names a symbol if there is one file and one symbol at a place.  *)
PlacesUnique(p) ==
    /\ \E b \in Binaries : /\ \A i \in DOMAIN p.symbols : p.symbols[i].location.binary = b
                           /\ \A k \in DOMAIN p.relocs : p.relocs[k].destination.binary = b
    /\ \A i, j \in DOMAIN p.symbols : p.symbols[i].location = p.symbols[j].location => i = j

(* Aligned data are compared as bytes, which is right of data without      *)
(* relocations that are within their section.                              *)
BytesSuffice(p) ==
    \A i \in DOMAIN p.symbols :
        LET loc == p.symbols[i].location
        IN  p.type[loc.section] = "DATA" /\ loc.offset % 4 = 0 /\ p.symbols[i].size % 4 = 0 =>
                /\ InSection(p, i)
                /\ \A off \in WordsOf(p, i) : Reloc(p, i, off, FALSE) = {}

Readable(p) == NamesUnique(p) /\ PlacesUnique(p) /\ BytesSuffice(p)

\* Of such programs that are laid out alike, the answer is "equal" when there is
\* a proof that they are the same, and "different" when there is none.
ExactWhenAlike ==
    /\ answer \in {"equal", "different"}
    /\ Alike(prog1, prog2) /\ Readable(prog1) /\ Readable(prog2)
    => (answer = "equal" <=> Equivalent(prog1, prog2))

(* The local symbols of two programs laid out alike that a symbol i refers *)
(* to, at the same word in both.  They go in a circle if there are some    *)
(* that each refer to another of them, or to themselves.                   *)
LocalRefs(p, q, i) ==
    {k \in DOMAIN p.symbols :
        /\ "local" \in {p.symbols[k].binding, q.symbols[k].binding}
        /\ \E off \in WordsOf(p, i), text \in BOOLEAN :
              \E r1 \in Reloc(p, i, off, text), r2 \in Reloc(q, i, off, text) :
                 {r1.destination, r2.destination} = {p.symbols[k].location}}
Circular(p, q) ==
    \E S \in (SUBSET DOMAIN p.symbols) \ {{}} :
        \A i \in S : LocalRefs(p, q, i) \cap S # {}

\* The comparison comes to an answer, and of programs laid out alike it runs
\* out of stack only when local symbols refer to one another in a circle:
\* compareSymbols keeps no record of the symbols it is in.  One thread runs it
\* and nothing makes it wait: the fairness is that of the whole next-state
\* relation.
ComparisonEnds ==
    <>(/\ answer # "none"
       /\ answer = "overflow" /\ Alike(prog1, prog2) => Circular(prog1, prog2))
FairSpec == Spec /\ WF_vars(Next)

-----------------------------------------------------------------------------
(* What the sources say of the comparison, and the code does not do.       *)

\* "Exit code 0 if matches, other integer otherwise": the recursion through
\* local symbols does not exhaust the stack.
StackSuffices == answer # "overflow"

\* It "allows symbols to be rearranged arbitrarily": what is the same but for
\* the places of the symbols is not found different.
RearrangedEqual == answer = "different" => ~ Equivalent(prog1, prog2)

\* "if both symbols are 4-word aligned, check for relocations every 4 bytes":
\* aligned data that refer to different symbols are not found equal.
DataRelocsCompared ==
    answer = "equal" /\ prog1.symbols = prog2.symbols => Equivalent(prog1, prog2)

=============================================================================
