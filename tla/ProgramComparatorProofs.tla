----------------------- MODULE ProgramComparatorProofs -----------------------
(***************************************************************************)
(* Theorems about ProgramComparator, for programs of every size: a program *)
(* is equal to itself, and of programs that are laid out alike the answer  *)
(* is right, with local symbols compared in turn to any depth.             *)
(***************************************************************************)
EXTENDS ProgramComparator, SequenceLemmas

Phases == {"enter", "word", "relocated"}
Frames(A, B) == [source : A, target : B, off : Nat, phase : Phases]
Frame == Frames(Elements(prog1.symbols), Elements(prog2.symbols))

(* The state of the comparison.                                            *)
PInv ==
    /\ prog1 \in Programs /\ prog2 \in Programs
    /\ row \in 1..(Len(prog2.symbols) + 1)
    /\ stack # <<>> \/ result # <<>> => row \in 1..Len(prog2.symbols)
    /\ stack \in Seq(Frame) /\ Len(stack) <= MaxDepth
    /\ result \in {<<>>, <<TRUE>>, <<FALSE>>}
    /\ answer \in {"none", "equal", "different", "aborted", "overflow"}

-----------------------------------------------------------------------------
(* The stack of calls.                                                     *)

GoneTo(st, off, phase) == [st EXCEPT ![1].off = off, ![1].phase = phase]

\* The stack new is the stack st with its top at another offset and phase.
GoneFrom(new, st, off, phase) ==
    /\ Len(new) = Len(st) /\ Len(st) \in Nat \ {0}
    /\ new[1].source = st[1].source /\ new[1].target = st[1].target
    /\ new[1].off = off /\ new[1].phase = phase
    /\ \A k \in 2..Len(st) : new[k] = st[k]

LEMMA GoToStack ==
    ASSUME NEW A, NEW B, NEW st \in Seq(Frames(A, B)), st # <<>>,
           NEW off \in Nat, NEW phase \in Phases
    PROVE  /\ GoneTo(st, off, phase) \in Seq(Frames(A, B))
           /\ GoneFrom(GoneTo(st, off, phase), st, off, phase)
<1>0. PICK new : new = GoneTo(st, off, phase)
  OBVIOUS
<1>1. /\ Len(st) \in Nat /\ Len(st) # 0 /\ DOMAIN st = 1..Len(st)
      /\ \A k \in 1..Len(st) : st[k] \in Frames(A, B)
  BY LenProperties, ElementOfSeq, EmptySeq
<1>2. PICK top : top = [source |-> st[1].source, target |-> st[1].target,
                        off |-> off, phase |-> phase]
  OBVIOUS
<1>3. top \in Frames(A, B) /\ 1 \in 1..Len(st)
  BY <1>1, <1>2 DEF Frames
<1>4. DOMAIN new = 1..Len(st) /\ \A k \in 2..Len(st) : new[k] = st[k]
  BY <1>0, <1>1 DEF GoneTo
<1>5. new[1] = top
  <2>1. new[1] = [[st[1] EXCEPT !.off = off] EXCEPT !.phase = phase]
    BY <1>0, <1>1, <1>3 DEF GoneTo
  <2>. QED  BY <1>1, <1>2, <1>3, <2>1 DEF Frames
<1>6. new = [k \in 1..Len(st) |-> new[k]]
  BY <1>0, <1>1, <1>4 DEF GoneTo
<1>7. \A k \in 1..Len(st) : new[k] \in Frames(A, B)
  <2>1. \A k \in 1..Len(st) : k = 1 \/ k \in 2..Len(st)
    BY <1>1
  <2>. QED  BY <1>1, <1>3, <1>4, <1>5, <2>1
<1>8. new \in Seq(Frames(A, B)) /\ Len(new) = Len(st)
  BY <1>1, <1>6, <1>7
<1>9. GoneFrom(new, st, off, phase)
  BY <1>1, <1>2, <1>4, <1>5, <1>8 DEF GoneFrom
<1>. QED  BY <1>0, <1>8, <1>9

LEMMA ReturnStack ==
    ASSUME NEW F, NEW st \in Seq(F), st # <<>>
    PROVE  /\ Tail(st) \in Seq(F) /\ Len(Tail(st)) = Len(st) - 1 /\ Len(st) \in Nat \ {0}
           /\ \A k \in 1..(Len(st) - 1) : Tail(st)[k] = st[k + 1]
BY LenProperties, HeadTailProperties, EmptySeq

LEMMA CallStack ==
    ASSUME NEW F, NEW st \in Seq(F), NEW c \in F
    PROVE  /\ <<c>> \o st \in Seq(F) /\ Len(<<c>> \o st) = Len(st) + 1 /\ Len(st) \in Nat
           /\ (<<c>> \o st)[1] = c
           /\ \A k \in 2..(Len(st) + 1) : (<<c>> \o st)[k] = st[k - 1]
<1>1. <<c>> \in Seq(F) /\ Len(<<c>>) = 1 /\ <<c>>[1] = c /\ Len(st) \in Nat
  BY LenProperties
<1>. QED  BY <1>1, ConcatProperties

LEMMA TopIsFrame ==
    ASSUME NEW F, NEW st \in Seq(F), st # <<>>
    PROVE  st[1] \in F /\ 1 \in DOMAIN st /\ Len(st) \in Nat \ {0} /\ DOMAIN st = 1..Len(st)
BY LenProperties, ElementOfSeq, EmptySeq

-----------------------------------------------------------------------------
(* Lookups answer with a row of the table.                                 *)

LEMMA ProgramFacts ==
    ASSUME NEW p \in Programs
    PROVE  /\ IsProgram(p) /\ Len(p.symbols) \in Nat
           /\ DOMAIN p.symbols = 1..Len(p.symbols) /\ DOMAIN p.relocs = 1..Len(p.relocs)
           /\ DOMAIN p.symbols \subseteq Nat /\ DOMAIN p.relocs \subseteq Nat
<1>1. IsProgram(p)
  BY ProgramsOK
<1>2. /\ Len(p.symbols) \in Nat /\ Len(p.relocs) \in Nat
      /\ DOMAIN p.symbols = 1..Len(p.symbols) /\ DOMAIN p.relocs = 1..Len(p.relocs)
  BY <1>1, Zenon DEF IsProgram
<1>. QED  BY <1>1, <1>2

LEMMA FirstIsRow ==
    ASSUME NEW S \in SUBSET Nat, S # {}
    PROVE  FirstRow(S) \in S /\ \A i \in S : FirstRow(S) <= i
BY LeastExists DEF FirstRow

LEMMA ByName ==
    ASSUME NEW p \in Programs, NEW name
    PROVE  LET found == lookupByName(p.symbols, NameIndex(p.symbols), name)
               named == {i \in DOMAIN p.symbols :
                            p.symbols[i].binding # "local" /\ p.symbols[i].name = name}
           IN  IF named = {} THEN found = {} ELSE \E i \in named : found = {p.symbols[i]}
<1> DEFINE named == {i \in DOMAIN p.symbols :
                        p.symbols[i].binding # "local" /\ p.symbols[i].name = name}
<1>1. lookupByName(p.symbols, NameIndex(p.symbols), name)
         = IF named = {} THEN {} ELSE {p.symbols[FirstRow(named)]}
  BY DEF lookupByName, Lookup, NameIndex
<1>2. named \in SUBSET Nat
  BY ProgramFacts
<1>3. named # {} => FirstRow(named) \in named
  <2> HIDE DEF named
  <2>. QED  BY <1>2, FirstIsRow
<1> HIDE DEF named
<1>4. IF named = {} THEN lookupByName(p.symbols, NameIndex(p.symbols), name) = {}
      ELSE \E i \in named : lookupByName(p.symbols, NameIndex(p.symbols), name) = {p.symbols[i]}
  BY <1>1, <1>3
<1>. QED  BY <1>4 DEF named

LEMMA BySymbol ==
    ASSUME NEW p \in Programs, NEW r
    PROVE  LET there == {i \in DOMAIN p.symbols :
                            Key(p.symbols[i].location) = Key(r.destination)}
           IN  IF there = {} THEN SymbolFor(p, r) = {}
               ELSE \E i \in there : SymbolFor(p, r) = {p.symbols[i]}
<1> DEFINE there == {i \in DOMAIN p.symbols : Key(p.symbols[i].location) = Key(r.destination)}
<1>1. SymbolFor(p, r) = IF there = {} THEN {} ELSE {p.symbols[FirstRow(there)]}
  BY DEF SymbolFor, lookupByLocation, Lookup, LocationIndex
<1>2. there \in SUBSET Nat
  BY ProgramFacts
<1>3. there # {} => FirstRow(there) \in there
  <2> HIDE DEF there
  <2>. QED  BY <1>2, FirstIsRow
<1> HIDE DEF there
<1>4. IF there = {} THEN SymbolFor(p, r) = {} ELSE \E i \in there : SymbolFor(p, r) = {p.symbols[i]}
  BY <1>1, <1>3
<1>. QED  BY <1>4 DEF there

LEMMA BySource ==
    ASSUME NEW p \in Programs, NEW loc
    PROVE  RelocAt(p, loc) = {} \/ \E k \in DOMAIN p.relocs : RelocAt(p, loc) = {p.relocs[k]}
<1> DEFINE there == {k \in DOMAIN p.relocs : Key(p.relocs[k].source) = Key(loc)}
<1>1. RelocAt(p, loc) = IF there = {} THEN {} ELSE {p.relocs[FirstRow(there)]}
  BY DEF RelocAt, lookupBySource, Lookup, SourceIndex
<1>2. there \in SUBSET Nat
  BY ProgramFacts
<1>3. there # {} => FirstRow(there) \in there
  <2> HIDE DEF there
  <2>. QED  BY <1>2, FirstIsRow
<1>4. there \subseteq DOMAIN p.relocs
  OBVIOUS
<1> HIDE DEF there
<1>. QED  BY <1>1, <1>3, <1>4

-----------------------------------------------------------------------------
(* The types.                                                              *)

LEMMA TopFacts ==
    ASSUME PInv, stack # <<>>
    PROVE  /\ Top \in Frame /\ Top.source \in Elements(prog1.symbols)
           /\ Top.target \in Elements(prog2.symbols) /\ Top.off \in Nat
           /\ 1 \in DOMAIN stack /\ Len(stack) \in Nat \ {0} /\ DOMAIN stack = 1..Len(stack)
<1>1. /\ Top \in Frame /\ 1 \in DOMAIN stack
      /\ Len(stack) \in Nat \ {0} /\ DOMAIN stack = 1..Len(stack)
  BY TopIsFrame DEF PInv, Top
<1>. QED  BY <1>1 DEF Frame, Frames

LEMMA ReturnTypes ==
    ASSUME PInv, stack # <<>>, NEW value \in BOOLEAN, Return(value)
    PROVE  PInv'
<1>1. Tail(stack) \in Seq(Frame) /\ Len(Tail(stack)) <= MaxDepth
  BY ReturnStack, ProgramsOK DEF PInv
<1>. QED  BY <1>1 DEF PInv, Return, Frame

LEMMA GoToTypes ==
    ASSUME PInv, stack # <<>>, NEW off \in Nat, NEW phase \in Phases, GoTo(off, phase)
    PROVE  PInv' /\ GoneFrom(stack', stack, off, phase)
<1>1. PICK A, B : A = Elements(prog1.symbols) /\ B = Elements(prog2.symbols)
  OBVIOUS
<1>2. stack \in Seq(Frames(A, B)) /\ Frame = Frames(A, B) /\ stack' = GoneTo(stack, off, phase)
  BY <1>1 DEF PInv, Frame, GoTo, GoneTo
<1>3. stack' \in Seq(Frame) /\ GoneFrom(stack', stack, off, phase)
  BY <1>2, GoToStack
<1>4. Len(stack') = Len(stack) /\ Len(stack) \in Nat \ {0}
  BY <1>3 DEF GoneFrom
<1>. QED  BY <1>3, <1>4 DEF PInv, GoTo, Frame

LEMMA CallIsFrame ==
    ASSUME NEW s \in Elements(prog1.symbols), NEW t \in Elements(prog2.symbols)
    PROVE  Call(s, t) \in Frame
BY DEF Call, Frame, Frames, Phases

LEMMA RecurseTypes ==
    ASSUME PInv, NEW s \in Elements(prog1.symbols), NEW t \in Elements(prog2.symbols),
           Recurse(s, t), stack # <<>>
    PROVE  PInv'
<1>1. CASE Len(stack) < MaxDepth
  <2>1. stack' = <<Call(s, t)>> \o stack /\ answer' = answer
    BY <1>1 DEF Recurse
  <2>2. stack' \in Seq(Frame) /\ Len(stack') <= MaxDepth
    BY <1>1, <2>1, CallIsFrame, CallStack, ProgramsOK DEF PInv
  <2>. QED  BY <2>1, <2>2 DEF PInv, Recurse, Frame
<1>2. CASE ~(Len(stack) < MaxDepth)
  <2>1. stack' = <<>> /\ answer' = "overflow" /\ <<>> \in Seq(Frame) /\ Len(<<>>) <= MaxDepth
    BY <1>2, ProgramsOK DEF Recurse
  <2>. QED  BY <2>1 DEF PInv, Recurse, Frame
<1>. QED  BY <1>1, <1>2

LEMMA AbortTypes ==
    ASSUME PInv, Abort
    PROVE  PInv'
<1>1. stack' = <<>> /\ <<>> \in Seq(Frame) /\ Len(<<>>) <= MaxDepth
  BY ProgramsOK DEF Abort
<1>. QED  BY <1>1 DEF PInv, Abort, Frame

LEMMA NamesakeIsRow ==
    ASSUME PInv, NEW name, NEW source \in Namesakes(name)
    PROVE  \E i \in DOMAIN prog1.symbols :
              /\ source = prog1.symbols[i] /\ source.binding # "local" /\ source.name = name
<1> DEFINE named == {i \in DOMAIN prog1.symbols :
                        prog1.symbols[i].binding # "local" /\ prog1.symbols[i].name = name}
<1>1. prog1 \in Programs
  BY DEF PInv
<1>2. IF named = {} THEN Namesakes(name) = {} ELSE \E i \in named : Namesakes(name) = {prog1.symbols[i]}
  BY <1>1, ByName DEF Namesakes
<1>3. \E i \in named : source = prog1.symbols[i]
  <2> HIDE DEF named
  <2>. QED  BY <1>2
<1>. QED  BY <1>3

LEMMA SymbolIsRow ==
    ASSUME NEW p \in Programs, NEW r, NEW s \in SymbolFor(p, r)
    PROVE  /\ \E i \in DOMAIN p.symbols :
                 s = p.symbols[i] /\ Key(s.location) = Key(r.destination)
           /\ s \in Elements(p.symbols)
BY BySymbol DEF Elements

LEMMA InitTypes == Init => PInv
<1>. SUFFICES ASSUME Init PROVE PInv
  OBVIOUS
<1>1. Len(prog2.symbols) \in Nat
  BY ProgramFacts DEF Init
<1>. QED  BY <1>1, ProgramsOK DEF Init, PInv

LEMMA StepTypes == PInv /\ [Next]_vars => PInv'
<1>. SUFFICES ASSUME PInv, [Next]_vars PROVE PInv'
  OBVIOUS
<1>0. /\ Len(prog2.symbols) \in Nat /\ DOMAIN prog2.symbols = 1..Len(prog2.symbols)
      /\ row \in 1..(Len(prog2.symbols) + 1) /\ "enter" \in Phases /\ "word" \in Phases
      /\ "relocated" \in Phases
  BY ProgramFacts DEF PInv, Phases
<1>1. CASE NextSymbol
  <2>1. PICK target : target = prog2.symbols[row]
    OBVIOUS
  <2>2. /\ row \in 1..Len(prog2.symbols) /\ row + 1 \in 1..(Len(prog2.symbols) + 1)
        /\ stack = <<>> /\ result = <<>> /\ target \in Elements(prog2.symbols)
        /\ UNCHANGED <<prog1, prog2, result>>
    BY <1>0, <1>1, <2>1 DEF NextSymbol, AtSymbols, Elements
  <2>3. CASE target.binding = "local" \/ Namesakes(target.name) = {}
    <3>1. row' \in {row, row + 1} /\ stack' = <<>> /\ answer' \in {answer, "different"}
      BY <1>1, <2>1, <2>2, <2>3 DEF NextSymbol
    <3>2. row' \in 1..(Len(prog2.symbols) + 1)
      BY <1>0, <2>2, <3>1
    <3>. QED  BY <2>2, <3>1, <3>2 DEF PInv, Frame
  <2>4. CASE \E source \in Namesakes(target.name) :
                stack' = <<Call(source, target)>> /\ UNCHANGED <<row, answer>>
    <3>1. PICK source \in Namesakes(target.name) :
                stack' = <<Call(source, target)>> /\ UNCHANGED <<row, answer>>
      BY <2>4
    <3>2. source \in Elements(prog1.symbols)
      BY NamesakeIsRow DEF Elements
    <3>3. Call(source, target) \in Frame
      BY <2>2, <3>2, CallIsFrame
    <3>4. stack' \in Seq(Frame) /\ Len(stack') <= MaxDepth
      <4>1. PICK c \in Frame : stack' = <<c>>
        BY <3>1, <3>3
      <4>2. <<c>> \in Seq(Frame) /\ Len(<<c>>) = 1
        OBVIOUS
      <4>. QED  BY <4>1, <4>2, ProgramsOK
    <3>. QED  BY <2>2, <3>1, <3>4 DEF PInv, Frame
  <2>. QED  BY <1>1, <2>1, <2>3, <2>4 DEF NextSymbol
<1>2. CASE SymbolCompared
  <2>1. row \in 1..Len(prog2.symbols) /\ row + 1 \in 1..(Len(prog2.symbols) + 1)
    BY <1>0, <1>2 DEF SymbolCompared, PInv
  <2>2. row' \in {row, row + 1} /\ answer' \in {answer, "different"} /\ stack = <<>>
        /\ result' = <<>> /\ UNCHANGED <<prog1, prog2, stack>>
    BY <1>2 DEF SymbolCompared
  <2>. QED  BY <1>0, <2>1, <2>2 DEF PInv, Frame
<1>3. CASE EndProgram
  BY <1>3 DEF EndProgram, PInv, Frame
<1>4. CASE EnterSymbol \/ EnterFunction \/ EnterData
  <2>1. stack # <<>>
    BY <1>4 DEF EnterSymbol, EnterFunction, EnterData, Entering
  <2>2. \/ \E v \in BOOLEAN : Return(v)
        \/ GoTo(0, "word") \/ Abort
    BY <1>4 DEF EnterSymbol, EnterFunction, EnterData, SameBytes
  <2>. QED  BY <1>0, <2>1, <2>2, ReturnTypes, GoToTypes, AbortTypes
<1>5. CASE CompareWord \/ EndSymbol \/ LocalCompared \/ CompareRelocated
  <2>1. stack # <<>>
    BY <1>5 DEF CompareWord, EndSymbol, LocalCompared, CompareRelocated, AtWord
  <2>2. \/ \E v \in BOOLEAN : Return(v)
        \/ GoTo(Top.off + 4, "word") \/ GoTo(Top.off, "relocated") \/ Abort
    BY <1>5 DEF CompareWord, EndSymbol, LocalCompared, CompareRelocated
  <2>3. Top.off \in Nat /\ Top.off + 4 \in Nat
    BY <2>1, TopFacts
  <2>. QED  BY <1>0, <2>1, <2>2, <2>3, ReturnTypes, GoToTypes, AbortTypes
<1>6. CASE CompareRelocations
  <2>1. stack # <<>>
    BY <1>6 DEF CompareRelocations, AtWord
  <2>2. Top.off \in Nat
    BY <2>1, TopFacts
  <2>3. PICK r \in Relocs1, q \in Relocs2 :
          \/ Abort
          \/ \E s \in SymbolFor(prog1, r), t \in SymbolFor(prog2, q) :
                Recurse(s, t) \/ GoTo(Top.off, "relocated") \/ Return(FALSE)
    BY <1>6 DEF CompareRelocations, ByContents
  <2>4. CASE \E s \in SymbolFor(prog1, r), t \in SymbolFor(prog2, q) : Recurse(s, t)
    <3>1. PICK s \in SymbolFor(prog1, r), t \in SymbolFor(prog2, q) : Recurse(s, t)
      BY <2>4
    <3>2. s \in Elements(prog1.symbols) /\ t \in Elements(prog2.symbols)
      BY SymbolIsRow DEF PInv
    <3>. QED  BY <2>1, <3>1, <3>2, RecurseTypes
  <2>. QED  BY <1>0, <2>1, <2>2, <2>3, <2>4, ReturnTypes, GoToTypes, AbortTypes
<1>7. CASE UNCHANGED vars
  BY <1>7 DEF vars, PInv, Frame
<1>. QED
  BY <1>1, <1>2, <1>3, <1>4, <1>5, <1>6, <1>7 DEF Next, Finished

-----------------------------------------------------------------------------
(* A program is equal to itself: a symbol is compared with itself only.    *)

SInv ==
    PInv /\ (prog1 = prog2 /\ WellFormed(prog1) =>
        /\ \A k \in 1..Len(stack) : stack[k].source = stack[k].target
        /\ result # <<FALSE>> /\ answer # "different")

LEMMA OwnNamesake ==
    ASSUME NEW p \in Programs, NamesUnique(p), NEW j \in DOMAIN p.symbols,
           p.symbols[j].binding # "local"
    PROVE  lookupByName(p.symbols, NameIndex(p.symbols), p.symbols[j].name) = {p.symbols[j]}
<1> DEFINE named == {i \in DOMAIN p.symbols : /\ p.symbols[i].binding # "local"
                                              /\ p.symbols[i].name = p.symbols[j].name}
<1>1. j \in named /\ \A i \in named : i = j
  BY DEF NamesUnique
<1>2. IF named = {} THEN lookupByName(p.symbols, NameIndex(p.symbols), p.symbols[j].name) = {}
      ELSE \E i \in named :
             lookupByName(p.symbols, NameIndex(p.symbols), p.symbols[j].name) = {p.symbols[i]}
  BY ByName
<1>. QED  BY <1>1, <1>2

LEMMA OneReloc ==
    ASSUME NEW p \in Programs, NEW loc, NEW r \in RelocFor(p, loc), NEW q \in RelocFor(p, loc)
    PROVE  r = q /\ r \in Elements(p.relocs)
BY BySource DEF RelocFor, Elements

LEMMA OneSymbol ==
    ASSUME NEW p \in Programs, NEW r, NEW s \in SymbolFor(p, r), NEW t \in SymbolFor(p, r)
    PROVE  s = t
BY BySymbol

LEMMA RowFacts ==
    ASSUME NEW p \in Programs, NEW i \in DOMAIN p.symbols
    PROVE  LET s == p.symbols[i]
           IN  /\ s.location \in Location /\ s.size \in Nat /\ s.location.offset \in Nat
               /\ s.binding \in {"local", "global", "weak"}
               /\ s.location.section \in Sections /\ p.length[s.location.section] \in Nat
<1>1. PICK s : s = p.symbols[i]
  OBVIOUS
<1>2. [f \in {"location", "name", "binding"} |-> s[f]] \in Symbol /\ s.size \in Nat
      /\ p.length \in [Sections -> Nat]
  BY <1>1, ProgramFacts, Zenon DEF IsProgram
<1>3. s["location"] \in Location /\ s["binding"] \in {"local", "global", "weak"}
  <2>1. PICK y \in Symbol : y = [f \in {"location", "name", "binding"} |-> s[f]]
    BY <1>2
  <2>2. y["location"] = s["location"] /\ y["binding"] = s["binding"]
    BY <2>1
  <2>. QED  BY <2>1, <2>2 DEF Symbol
<1>4. s.location \in Location /\ s.binding \in {"local", "global", "weak"}
  BY <1>3
<1>5. s.location.section \in Sections /\ s.location.offset \in Nat
  BY <1>4, ProgramsOK DEF Location
<1>. QED  BY <1>1, <1>2, <1>4, <1>5

LEMMA SelfBytes ==
    ASSUME PInv, prog1 = prog2, WellFormed(prog1), stack # <<>>, Top.source = Top.target
    PROVE  InBuffers /\ SameBytes
<1>1. prog1 \in Programs /\ Top.source \in Elements(prog1.symbols)
  BY TopFacts DEF PInv
<1>2. PICK i \in DOMAIN prog1.symbols : Top.source = prog1.symbols[i]
  BY <1>1 DEF Elements
<1>3. PICK o, n, len : /\ o = Top.source.location.offset /\ n = Top.source.size
                       /\ len = prog1.length[Top.source.location.section]
  OBVIOUS
<1>4. o \in Nat /\ n \in Nat /\ len \in Nat /\ o + n <= len
  BY <1>1, <1>2, <1>3, RowFacts DEF WellFormed, InSection
<1>5. compareSize = n
  BY <1>3, <1>4 DEF compareSize, MaxNat
<1>6. \A off \in Words : off \in Nat /\ o + off < len
  BY <1>4, <1>5 DEF Words
<1>7. \A off : Place1(off) = Place2(off)
  BY DEF Place1, Place2
<1>8. \A off \in Words : /\ Place1(off).offset = o + off
                          /\ Place1(off).section = Top.source.location.section
  <2>1. Top.source.location \in Location
    BY <1>1, <1>2, RowFacts
  <2>. QED  BY <1>3, <2>1 DEF Place1, Plus, Location
<1>9. InBuffers
  BY <1>3, <1>6, <1>7, <1>8 DEF InBuffers, HasBuffers, HasBuffer
<1>. QED  BY <1>7, <1>9 DEF SameBytes

LEMMA NoFrames == Len(<<>>) = 0 /\ \A k \in 1..Len(<<>>) : FALSE
OBVIOUS

LEMMA ResultIsTrue ==
    ASSUME NEW x \in {<<>>, <<TRUE>>, <<FALSE>>}, x # <<>>, x # <<FALSE>>
    PROVE  x = <<TRUE>> /\ x[1] = TRUE /\ x[1]
<1>1. x = <<TRUE>>
  BY Zenon
<1>2. <<TRUE>>[1] = TRUE
  OBVIOUS
<1>. QED  BY <1>1, <1>2

LEMMA CallFields ==
    ASSUME NEW s, NEW t
    PROVE  /\ Call(s, t).source = s /\ Call(s, t).target = t
           /\ Call(s, t).off = 0 /\ Call(s, t).phase = "enter"
BY DEF Call

LEMMA SelfReturn ==
    ASSUME PInv, stack # <<>>, Return(TRUE),
           \A k \in 1..Len(stack) : stack[k].source = stack[k].target, answer # "different"
    PROVE  /\ \A k \in 1..Len(stack') : stack'[k].source = stack'[k].target
           /\ result' # <<FALSE>> /\ answer' # "different"
<1>1. /\ Len(Tail(stack)) = Len(stack) - 1 /\ Len(stack) \in Nat \ {0}
      /\ \A k \in 1..(Len(stack) - 1) : Tail(stack)[k] = stack[k + 1]
  BY ReturnStack DEF PInv
<1>2. \A k \in 1..(Len(stack) - 1) : k + 1 \in 1..Len(stack)
  BY <1>1
<1>3. stack' = Tail(stack) /\ result' = <<TRUE>> /\ answer' = answer
  BY DEF Return
<1>4. <<TRUE>> # <<FALSE>>
  <2>1. <<TRUE>>[1] # <<FALSE>>[1]
    OBVIOUS
  <2>. QED  BY <2>1
<1>. QED  BY <1>1, <1>2, <1>3, <1>4

LEMMA SelfGoTo ==
    ASSUME PInv, stack # <<>>, NEW off \in Nat, NEW phase \in Phases, GoTo(off, phase),
           \A k \in 1..Len(stack) : stack[k].source = stack[k].target, answer # "different"
    PROVE  /\ \A k \in 1..Len(stack') : stack'[k].source = stack'[k].target
           /\ result' # <<FALSE>> /\ answer' # "different"
<1>1. GoneFrom(stack', stack, off, phase)
  BY GoToTypes
<1>2. \A k \in 1..Len(stack') : stack'[k].source = stack'[k].target
  <2>1. \A k \in 1..Len(stack) : k = 1 \/ k \in 2..Len(stack)
    BY <1>1 DEF GoneFrom
  <2>. QED  BY <1>1, <2>1 DEF GoneFrom
<1>. QED  BY <1>2 DEF GoTo

LEMMA SelfAbort ==
    ASSUME Abort, result # <<FALSE>>
    PROVE  /\ \A k \in 1..Len(stack') : stack'[k].source = stack'[k].target
           /\ result' # <<FALSE>> /\ answer' # "different"
<1>1. stack' = <<>> /\ result' = result /\ answer' = "aborted"
  BY DEF Abort
<1>. QED  BY <1>1, NoFrames

LEMMA SelfStep == SInv /\ [Next]_vars => SInv'
<1>. SUFFICES ASSUME SInv, [Next]_vars PROVE SInv'
  OBVIOUS
<1>0. PInv /\ PInv'
  BY StepTypes DEF SInv
<1>p. prog1' = prog1 /\ prog2' = prog2
  BY DEF Next, NextSymbol, SymbolCompared, EndProgram, EnterSymbol, EnterFunction, EnterData,
         CompareWord, EndSymbol, CompareRelocations, LocalCompared, CompareRelocated, Finished,
         Return, GoTo, Abort, Recurse, vars
<1>. SUFFICES ASSUME prog1 = prog2, WellFormed(prog1)
              PROVE  /\ \A k \in 1..Len(stack') : stack'[k].source = stack'[k].target
                     /\ result' # <<FALSE>> /\ answer' # "different"
  BY <1>0, <1>p DEF SInv, WellFormed, NamesUnique, InSection
<1>s. /\ \A k \in 1..Len(stack) : stack[k].source = stack[k].target
      /\ result # <<FALSE>> /\ answer # "different"
      /\ prog1 \in Programs /\ NamesUnique(prog1)
      /\ "word" \in Phases /\ "relocated" \in Phases
  BY <1>0 DEF SInv, PInv, WellFormed, Phases
<1>t. ASSUME stack # <<>>
      PROVE  /\ Top.source = Top.target /\ Top.off \in Nat /\ Top.off + 4 \in Nat
             /\ Type1 = Type2 /\ \A off : Place1(off) = Place2(off)
  <2>1. Top.source = Top.target /\ Top.off \in Nat
    BY <1>0, <1>s, <1>t, TopFacts DEF Top
  <2>. QED  BY <2>1 DEF Type1, Type2, Place1, Place2
<1>1. CASE NextSymbol
  <2>1. PICK target : target = prog2.symbols[row]
    OBVIOUS
  <2>2. row \in DOMAIN prog1.symbols /\ stack = <<>> /\ result' = result
        /\ target \in Elements(prog2.symbols)
    BY <1>1, <2>1 DEF NextSymbol, AtSymbols, Elements
  <2>3. target.binding # "local" => Namesakes(target.name) = {target}
    BY <1>s, <2>1, <2>2, OwnNamesake DEF Namesakes
  <2>4. CASE stack' = stack /\ answer' = answer
    BY <1>s, <2>2, <2>4
  <2>5. CASE stack' = <<Call(target, target)>> /\ answer' = answer
    <3>1. PICK c : c = Call(target, target)
      OBVIOUS
    <3>2. c.source = c.target
      BY <3>1, CallFields
    <3>3. stack' = <<c>> /\ Len(stack') = 1 /\ stack'[1] = c
      BY <2>5, <3>1
    <3>4. \A k \in 1..Len(stack') : k = 1
      BY <3>3
    <3>5. \A k \in 1..Len(stack') : stack'[k].source = stack'[k].target
      BY <3>2, <3>3, <3>4, Zenon
    <3>. QED  BY <1>s, <2>2, <2>5, <3>5, Zenon
  <2>6. \/ stack' = stack /\ answer' = answer
        \/ stack' = <<Call(target, target)>> /\ answer' = answer
    BY <1>1, <2>1, <2>3, Zenon DEF NextSymbol
  <2>. QED  BY <2>4, <2>5, <2>6
<1>2. CASE SymbolCompared
  <2>1. result[1] = TRUE
    BY <1>0, <1>2, <1>s, ResultIsTrue DEF SymbolCompared, PInv
  <2>2. stack' = stack /\ result' = <<>> /\ answer' = answer
    BY <1>2, <2>1 DEF SymbolCompared
  <2>. QED  BY <1>s, <2>2
<1>3. CASE EndProgram
  BY <1>3, <1>s DEF EndProgram
<1>4. CASE EnterSymbol \/ EnterFunction \/ EnterData
  <2>1. stack # <<>>
    BY <1>4 DEF EnterSymbol, EnterFunction, EnterData, Entering
  <2>2. InBuffers /\ SameBytes
    BY <1>0, <1>t, <2>1, SelfBytes
  <2>3. Return(TRUE) \/ GoTo(0, "word") \/ Abort
    BY <1>4, <1>t, <2>1, <2>2 DEF EnterSymbol, EnterFunction, EnterData
  <2>. QED  BY <1>0, <1>s, <2>1, <2>3, SelfReturn, SelfGoTo, SelfAbort
<1>5. CASE CompareWord \/ EndSymbol \/ LocalCompared \/ CompareRelocated
  <2>1. stack # <<>>
    BY <1>5 DEF CompareWord, EndSymbol, LocalCompared, CompareRelocated, AtWord
  <2>2. Relocs1 = Relocs2
    BY <1>t, <2>1 DEF Relocs1, Relocs2, RelocFor
  <2>3. \A r : SameMasked(r)
    BY <1>t, <2>1 DEF SameMasked
  <2>4. result # <<>> => result[1] = TRUE
    BY <1>0, <1>s, ResultIsTrue DEF PInv
  <2>5. prog1.word[Place1(Top.off)] = prog2.word[Place2(Top.off)]
    BY <1>t, <2>1
  <2>6. Return(TRUE) \/ GoTo(Top.off + 4, "word") \/ GoTo(Top.off, "relocated") \/ Abort
    BY <1>5, <2>2, <2>3, <2>4, <2>5 DEF CompareWord, EndSymbol, LocalCompared, CompareRelocated
  <2>. QED  BY <1>0, <1>s, <1>t, <2>1, <2>6, SelfReturn, SelfGoTo, SelfAbort
<1>6. CASE CompareRelocations
  <2>1. stack # <<>>
    BY <1>6 DEF CompareRelocations, AtWord
  <2>2. PICK r \in Relocs1, q \in Relocs2 :
          \/ Abort
          \/ \E s \in SymbolFor(prog1, r), t \in SymbolFor(prog2, q) :
                IF "local" \in {s.binding, t.binding}
                THEN Recurse(s, t)
                ELSE IF SameReference(r, s, q, t)
                THEN GoTo(Top.off, "relocated")
                ELSE Return(FALSE)
    BY <1>6 DEF CompareRelocations, ByContents
  <2>3. r = q
    <3>1. Relocs1 = Relocs2 /\ Relocs1 = RelocFor(prog1, Place1(Top.off))
      BY <1>t, <2>1 DEF Relocs1, Relocs2, RelocFor
    <3>. QED  BY <1>s, <2>2, <3>1, OneReloc
  <2>4. CASE \E s \in SymbolFor(prog1, r), t \in SymbolFor(prog2, q) : Recurse(s, t)
    <3>1. PICK s \in SymbolFor(prog1, r), t \in SymbolFor(prog2, q) : Recurse(s, t)
      BY <2>4
    <3>2. s = t
      BY <1>s, <2>3, <3>1, OneSymbol
    <3>3. CASE stack' = <<Call(s, t)>> \o stack /\ answer' = answer
      <4>1. s \in Elements(prog1.symbols) /\ t \in Elements(prog2.symbols)
        BY <1>s, <3>1, SymbolIsRow
      <4>2. Call(s, t) \in Frame /\ Call(s, t).source = Call(s, t).target
        BY <3>2, <4>1, CallIsFrame DEF Call
      <4>3. /\ Len(stack') = Len(stack) + 1 /\ Len(stack) \in Nat /\ stack'[1] = Call(s, t)
            /\ \A k \in 2..(Len(stack) + 1) : stack'[k] = stack[k - 1]
        BY <1>0, <3>3, <4>2, CallStack DEF PInv
      <4>4. \A k \in 1..(Len(stack) + 1) :
               k = 1 \/ (k \in 2..(Len(stack) + 1) /\ k - 1 \in 1..Len(stack))
        BY <4>3
      <4>5. \A k \in 1..Len(stack') : stack'[k].source = stack'[k].target
        BY <1>s, <4>2, <4>3, <4>4
      <4>. QED  BY <1>s, <3>1, <3>3, <4>5 DEF Recurse
    <3>4. CASE stack' = <<>> /\ answer' = "overflow"
      BY <1>s, <3>1, <3>4, NoFrames DEF Recurse
    <3>. QED  BY <3>1, <3>3, <3>4 DEF Recurse
  <2>5. CASE \E s \in SymbolFor(prog1, r), t \in SymbolFor(prog2, q) :
                SameReference(r, s, q, t) /\ GoTo(Top.off, "relocated")
    BY <1>0, <1>s, <1>t, <2>1, <2>5, SelfGoTo
  <2>6. \A s \in SymbolFor(prog1, r), t \in SymbolFor(prog2, q) : SameReference(r, s, q, t)
    <3>1. \A s \in SymbolFor(prog1, r), t \in SymbolFor(prog2, q) : s = t
      BY <1>s, <2>3, OneSymbol
    <3>. QED  BY <2>3, <3>1 DEF SameReference
  <2>. QED  BY <1>s, <2>2, <2>4, <2>5, <2>6, SelfAbort
<1>7. CASE UNCHANGED vars
  BY <1>7, <1>s DEF vars
<1>. QED
  BY <1>1, <1>2, <1>3, <1>4, <1>5, <1>6, <1>7 DEF Next, Finished

\* The calls on the stack are about symbols of the two programs, within its bound.
THEOREM ProgramTypes == Spec => []ProgramTypeOK
<1>1. PInv => ProgramTypeOK
  <2>. SUFFICES ASSUME PInv PROVE ProgramTypeOK
    OBVIOUS
  <2>1. DOMAIN stack = 1..Len(stack) /\ \A k \in 1..Len(stack) : stack[k] \in Frame
    BY LenProperties, ElementOfSeq DEF PInv
  <2>. QED  BY <2>1 DEF PInv, ProgramTypeOK, Frame, Frames, Elements, Phases
<1>. QED  BY <1>1, InitTypes, StepTypes, PTL DEF Spec

\* A program whose symbols have a name each and are within their sections is never
\* found different from itself: comparePrograms, run twice on one file.
THEOREM EqualToItself == Spec => []SelfEqual
<1>1. Init => SInv
  <2>. SUFFICES ASSUME Init PROVE SInv
    OBVIOUS
  <2>1. stack = <<>> /\ result = <<>> /\ answer = "none"
    BY DEF Init
  <2>. QED  BY <2>1, InitTypes DEF SInv
<1>2. SInv => SelfEqual
  BY DEF SInv, SelfEqual
<1>. QED  BY <1>1, <1>2, SelfStep, PTL DEF Spec

-----------------------------------------------------------------------------
(* The largest relation that is a proof of the sameness of what it relates *)
(* relates all that is the same.                                           *)

Proves(p, q, R) == \A ij \in R : SameContents(p, q, ij[1], ij[2], R)

TheSame(p, q) ==
    {ij \in Pairs(p, q) : \E R \in SUBSET Pairs(p, q) : ij \in R /\ Proves(p, q, R)}

LEMMA TargetGrows ==
    ASSUME NEW p, NEW q, NEW r1, NEW r2, NEW R, NEW Q, R \subseteq Q,
           SameTarget(p, q, r1, r2, R)
    PROVE  SameTarget(p, q, r1, r2, Q)
<1>1. PICK i \in RowsAt(p, r1.destination), j \in RowsAt(q, r2.destination) :
         IF "local" \in {p.symbols[i].binding, q.symbols[j].binding}
         THEN <<i, j>> \in R
         ELSE SameReference(r1, p.symbols[i], r2, q.symbols[j])
  BY DEF SameTarget
<1>2. IF "local" \in {p.symbols[i].binding, q.symbols[j].binding}
      THEN <<i, j>> \in Q
      ELSE SameReference(r1, p.symbols[i], r2, q.symbols[j])
  BY <1>1
<1>. QED  BY <1>2, Zenon DEF SameTarget

LEMMA WordGrows ==
    ASSUME NEW p, NEW q, NEW i, NEW j, NEW off, NEW text, NEW R, NEW Q, R \subseteq Q,
           SameWord(p, q, i, j, off, text, R)
    PROVE  SameWord(p, q, i, j, off, text, Q)
<1>1. \A r1, r2 : SameTarget(p, q, r1, r2, R) => SameTarget(p, q, r1, r2, Q)
  BY TargetGrows
<1>. QED  BY <1>1, Zenon DEF SameWord

LEMMA ContentsGrow ==
    ASSUME NEW p, NEW q, NEW i, NEW j, NEW R, NEW Q, R \subseteq Q,
           SameContents(p, q, i, j, R)
    PROVE  SameContents(p, q, i, j, Q)
<1>1. \A off, text : SameWord(p, q, i, j, off, text, R) => SameWord(p, q, i, j, off, text, Q)
  BY WordGrows
<1>. QED  BY <1>1, Zenon DEF SameContents

LEMMA TheSameIsProved ==
    ASSUME NEW p, NEW q
    PROVE  Proves(p, q, TheSame(p, q)) /\ TheSame(p, q) \subseteq Pairs(p, q)
<1>1. ASSUME NEW ij \in TheSame(p, q) PROVE SameContents(p, q, ij[1], ij[2], TheSame(p, q))
  <2>1. PICK R \in SUBSET Pairs(p, q) : ij \in R /\ Proves(p, q, R)
    BY <1>1 DEF TheSame
  <2>2. R \subseteq TheSame(p, q)
    BY <2>1 DEF TheSame
  <2>. QED  BY <2>1, <2>2, ContentsGrow DEF Proves
<1>. QED  BY <1>1 DEF Proves, TheSame

LEMMA TheSameIsAll ==
    ASSUME NEW p, NEW q, NEW i \in DOMAIN p.symbols, NEW j \in DOMAIN q.symbols,
           SameContents(p, q, i, j, TheSame(p, q))
    PROVE  <<i, j>> \in TheSame(p, q)
<1> DEFINE R == TheSame(p, q) \cup {<<i, j>>}
<1>1. R \in SUBSET Pairs(p, q) /\ <<i, j>> \in R /\ TheSame(p, q) \subseteq R
      /\ <<i, j>> \in Pairs(p, q)
  BY TheSameIsProved DEF Pairs
<1>2. ASSUME NEW ij \in R PROVE SameContents(p, q, ij[1], ij[2], R)
  <2>1. SameContents(p, q, ij[1], ij[2], TheSame(p, q))
    <3>1. CASE ij \in TheSame(p, q)
      BY <3>1, TheSameIsProved DEF Proves
    <3>2. CASE ij = <<i, j>>
      <4>1. ij[1] = i /\ ij[2] = j
        BY <3>2
      <4>. QED  BY <4>1
    <3>. QED  BY <1>2, <3>1, <3>2
  <2> HIDE DEF R
  <2>. QED  BY <1>1, <2>1, ContentsGrow
<1>3. Proves(p, q, R)
  BY <1>2 DEF Proves
<1> HIDE DEF R
<1>. QED  BY <1>1, <1>3 DEF TheSame

LEMMA EquivalentByNamesakes ==
    ASSUME NEW p \in Programs, NEW q \in Programs, p.symbols = q.symbols, NamesUnique(p)
    PROVE  Equivalent(p, q) <=>
              \A j \in DOMAIN q.symbols :
                  q.symbols[j].binding # "local" => <<j, j>> \in TheSame(p, q)
<1>1. \A j \in DOMAIN q.symbols : q.symbols[j].binding # "local" => Namesake(p, q, j) = {j}
  BY DEF Namesake, NamesUnique
<1>2. TheSame(p, q) \in SUBSET Candidates(p, q)
  <2>1. ASSUME NEW ij \in TheSame(p, q)
        PROVE  ij \in Pairs(p, q) /\ SameContents(p, q, ij[1], ij[2], Pairs(p, q))
    BY <2>1, TheSameIsProved, ContentsGrow DEF Proves
  <2>. QED  BY <2>1 DEF Candidates
<1>3. ASSUME NEW R \in SUBSET Candidates(p, q),
             \A ij \in R : SameContents(p, q, ij[1], ij[2], R)
      PROVE  R \subseteq TheSame(p, q)
  BY <1>3 DEF TheSame, Candidates, Proves
<1>4. ASSUME Equivalent(p, q), NEW j \in DOMAIN q.symbols, q.symbols[j].binding # "local"
      PROVE  <<j, j>> \in TheSame(p, q)
  <2>1. PICK R \in SUBSET Candidates(p, q) :
          /\ \A k \in DOMAIN q.symbols : q.symbols[k].binding # "local" =>
                \E i \in Namesake(p, q, k) : <<i, k>> \in R
          /\ \A ij \in R : SameContents(p, q, ij[1], ij[2], R)
    BY <1>4 DEF Equivalent
  <2>2. R \subseteq TheSame(p, q)
    BY <1>3, <2>1
  <2>. QED  BY <1>1, <1>4, <2>1, <2>2
<1>5. ASSUME \A j \in DOMAIN q.symbols :
                q.symbols[j].binding # "local" => <<j, j>> \in TheSame(p, q)
      PROVE  Equivalent(p, q)
  <2>1. \A ij \in TheSame(p, q) : SameContents(p, q, ij[1], ij[2], TheSame(p, q))
    BY TheSameIsProved DEF Proves
  <2>2. \A j \in DOMAIN q.symbols : q.symbols[j].binding # "local" =>
           \E i \in Namesake(p, q, j) : <<i, j>> \in TheSame(p, q)
    BY <1>1, <1>5
  <2>. QED  BY <1>2, <2>1, <2>2 DEF Equivalent
<1>. QED  BY <1>4, <1>5

-----------------------------------------------------------------------------
(* Programs that are laid out alike.                                       *)

AllSame(p, q) ==
    \A j \in DOMAIN q.symbols : q.symbols[j].binding # "local" => <<j, j>> \in TheSame(p, q)

IsTextRow(p, i) == TypeOf(p, i) = "TEXT"

LEMMA LocationsEqual ==
    ASSUME NEW x \in Location, NEW y \in Location, x.binary = y.binary, Key(x) = Key(y)
    PROVE  x = y
<1>1. x.section = y.section /\ x.offset = y.offset
  BY DEF Key
<1>. QED  BY <1>1 DEF Location

LEMMA RelocFacts ==
    ASSUME NEW p \in Programs, NEW r \in Elements(p.relocs)
    PROVE  r.destination \in Location
<1>1. PICK k \in DOMAIN p.relocs : r = p.relocs[k]
  BY DEF Elements
<1>2. [f \in {"source", "destination"} |-> r[f]] \in Relocation
  BY <1>1, ProgramFacts, Zenon DEF IsProgram
<1>3. r["destination"] \in Location
  <2>1. PICK y \in Relocation : y = [f \in {"source", "destination"} |-> r[f]]
    BY <1>2
  <2>2. y["destination"] = r["destination"]
    BY <2>1
  <2>. QED  BY <2>1, <2>2 DEF Relocation
<1>. QED  BY <1>3

LEMMA PlaceIsRow ==
    ASSUME NEW p \in Programs, PlacesUnique(p), NEW r \in Elements(p.relocs),
           NEW s \in SymbolFor(p, r)
    PROVE  \E a \in DOMAIN p.symbols : s = p.symbols[a] /\ RowsAt(p, r.destination) = {a}
<1>1. PICK a \in DOMAIN p.symbols : s = p.symbols[a] /\ Key(s.location) = Key(r.destination)
  BY SymbolIsRow
<1>2. s.location.binary = r.destination.binary
  BY <1>1 DEF PlacesUnique, Elements
<1>3. s.location = r.destination
  BY <1>1, <1>2, LocationsEqual, RelocFacts, RowFacts
<1>4. RowsAt(p, r.destination) = {a}
  BY <1>1, <1>3 DEF RowsAt, PlacesUnique
<1>. QED  BY <1>1, <1>4

LEMMA TargetByRow ==
    ASSUME NEW p, NEW q, NEW r1, NEW r2, NEW a, NEW b, NEW R,
           RowsAt(p, r1.destination) = {a}, RowsAt(q, r2.destination) = {b}
    PROVE  SameTarget(p, q, r1, r2, R) <=>
              IF "local" \in {p.symbols[a].binding, q.symbols[b].binding}
              THEN <<a, b>> \in R
              ELSE SameReference(r1, p.symbols[a], r2, q.symbols[b])
BY Zenon DEF SameTarget

LEMMA RelocIsOne ==
    ASSUME NEW p \in Programs, NEW i, NEW off, NEW text
    PROVE  /\ Reloc(p, i, off, text) \subseteq Elements(p.relocs)
           /\ \A r1, r2 \in Reloc(p, i, off, text) : r1 = r2
<1>1. \A loc : RelocAt(p, loc) = {} \/ \E k \in DOMAIN p.relocs : RelocAt(p, loc) = {p.relocs[k]}
  BY BySource
<1>2. \E loc : Reloc(p, i, off, text) = RelocAt(p, loc)
  BY DEF Reloc
<1>. QED  BY <1>1, <1>2 DEF Elements

LEMMA WordsBelow ==
    ASSUME NEW n \in Nat, NEW k \in Nat
    PROVE  k \in 0..((n - 1) \div 4) <=> 4 * k < n
OBVIOUS

(* The contents are not the same if one word is not, and are if all are.   *)
LEMMA WordDiffers ==
    ASSUME NEW p \in Programs, NEW q \in Programs, p.symbols = q.symbols,
           NEW i \in DOMAIN p.symbols, TypeOf(p, i) \in {"TEXT", "DATA"},
           NEW k \in Nat, 4 * k < p.symbols[i].size,
           ~ SameWord(p, q, i, i, 4 * k, IsTextRow(p, i), TheSame(p, q))
    PROVE  <<i, i>> \notin TheSame(p, q)
<1>1. k \in 0..((p.symbols[i].size - 1) \div 4)
  BY WordsBelow, RowFacts
<1>2. ~ SameContents(p, q, i, i, TheSame(p, q))
  BY <1>1, Zenon DEF SameContents, IsTextRow
<1>3. <<i, i>>[1] = i /\ <<i, i>>[2] = i
  OBVIOUS
<1>. QED  BY <1>2, <1>3, TheSameIsProved, Zenon DEF Proves

LEMMA TypeDiffers ==
    ASSUME NEW p, NEW q, NEW i, TypeOf(p, i) # TypeOf(q, i)
    PROVE  <<i, i>> \notin TheSame(p, q)
<1>1. ~ SameContents(p, q, i, i, TheSame(p, q))
  BY DEF SameContents
<1>2. <<i, i>>[1] = i /\ <<i, i>>[2] = i
  OBVIOUS
<1>. QED  BY <1>1, <1>2, TheSameIsProved, Zenon DEF Proves

LEMMA WordsAgree ==
    ASSUME NEW p \in Programs, NEW q \in Programs, p.symbols = q.symbols,
           NEW i \in DOMAIN p.symbols, TypeOf(p, i) = TypeOf(q, i),
           TypeOf(p, i) \in {"TEXT", "DATA"} =>
              \A k \in Nat : 4 * k < p.symbols[i].size =>
                  SameWord(p, q, i, i, 4 * k, IsTextRow(p, i), TheSame(p, q))
    PROVE  <<i, i>> \in TheSame(p, q)
<1>1. \A k \in 0..((p.symbols[i].size - 1) \div 4) : k \in Nat /\ 4 * k < p.symbols[i].size
  BY WordsBelow, RowFacts
<1>2. SameContents(p, q, i, i, TheSame(p, q))
  BY <1>1, Zenon DEF SameContents, IsTextRow
<1>. QED  BY <1>2, TheSameIsAll

(* What SameWord asks for, by the relocations of the word.                 *)
Targets(p, q, i, off) ==
    LET R1 == Reloc(p, i, off, IsTextRow(p, i))
        R2 == Reloc(q, i, off, IsTextRow(p, i))
    IN  /\ R1 # {} /\ R2 # {}
        /\ \A r1 \in R1, r2 \in R2 : SameTarget(p, q, r1, r2, TheSame(p, q))

Masked(p, q, i, off, r) ==
    LET w1 == p.word[Plus(p.symbols[i].location, off)]
        w2 == q.word[Plus(q.symbols[i].location, off)]
    IN  w1.opcode = w2.opcode /\ (r.type.masked \/ w1.field = w2.field)

LEMMA WordByTargets ==
    ASSUME NEW p, NEW q, NEW i, NEW off, Targets(p, q, i, off)
    PROVE  SameWord(p, q, i, i, off, IsTextRow(p, i), TheSame(p, q)) <=>
              (IsTextRow(p, i) =>
                  \A r1 \in Reloc(p, i, off, IsTextRow(p, i)) : Masked(p, q, i, off, r1))
<1>1. PICK R1, R2 : /\ R1 = Reloc(p, i, off, IsTextRow(p, i))
                    /\ R2 = Reloc(q, i, off, IsTextRow(p, i))
  OBVIOUS
<1>2. R1 # {} /\ R2 # {} /\ \A r1 \in R1, r2 \in R2 : SameTarget(p, q, r1, r2, TheSame(p, q))
  BY <1>1 DEF Targets
<1>3. SameWord(p, q, i, i, off, IsTextRow(p, i), TheSame(p, q)) <=>
         \A r1 \in R1, r2 \in R2 : /\ SameTarget(p, q, r1, r2, TheSame(p, q))
                                   /\ IsTextRow(p, i) => Masked(p, q, i, off, r1)
  BY <1>1, <1>2, Zenon DEF SameWord, Masked
<1>. QED  BY <1>1, <1>2, <1>3

LEMMA WordByBytes ==
    ASSUME NEW p, NEW q, NEW i, NEW off, NEW text,
           Reloc(p, i, off, text) = {} \/ Reloc(q, i, off, text) = {}
    PROVE  SameWord(p, q, i, i, off, text, TheSame(p, q)) <=>
              /\ Reloc(p, i, off, text) = {} /\ Reloc(q, i, off, text) = {}
              /\ p.word[Plus(p.symbols[i].location, off)] = q.word[Plus(q.symbols[i].location, off)]
BY Zenon DEF SameWord

-----------------------------------------------------------------------------
(* What the stack of calls knows.                                          *)

Of(p, f, i) ==
    i \in DOMAIN p.symbols /\ f.source = p.symbols[i] /\ f.target = p.symbols[i]

\* A call for symbol i at an offset: the words below it are the same.
Compared(p, q, i, off, phase) ==
    /\ phase # "enter" =>
          /\ TypeOf(p, i) = TypeOf(q, i) /\ TypeOf(p, i) \in {"TEXT", "DATA"}
          /\ \E k \in Nat : off = 4 * k
          /\ \A k \in Nat : 4 * k < off =>
                SameWord(p, q, i, i, 4 * k, IsTextRow(p, i), TheSame(p, q))
    /\ phase = "relocated" => off < p.symbols[i].size /\ Targets(p, q, i, off)

\* A call for symbol i waits for one for the local symbol a.
Leads(p, q, f, i, a) ==
    /\ Of(p, f, i) /\ f.phase = "word" /\ f.off < p.symbols[i].size
    /\ a \in DOMAIN p.symbols /\ p.symbols[a].binding = "local"
    /\ \E r1 \in Reloc(p, i, f.off, IsTextRow(p, i)), r2 \in Reloc(q, i, f.off, IsTextRow(p, i)) :
          RowsAt(p, r1.destination) = {a} /\ RowsAt(q, r2.destination) = {a}

Verdict(p, q, res, a) == res[1] <=> <<a, a>> \in TheSame(p, q)

StackOK(p, q, st, rw) ==
    /\ \A k \in 1..Len(st) : \E i \in DOMAIN p.symbols :
          Of(p, st[k], i) /\ Compared(p, q, i, st[k].off, st[k].phase)
    /\ \A k \in 1..(Len(st) - 1) : \E i, a \in DOMAIN p.symbols :
          Leads(p, q, st[k + 1], i, a) /\ Of(p, st[k], a)
    /\ st # <<>> => Of(p, st[Len(st)], rw)

ResultOK(p, q, st, res, rw) ==
    /\ res # <<>> /\ st # <<>> => \E i, a \in DOMAIN p.symbols :
          Leads(p, q, st[1], i, a) /\ Verdict(p, q, res, a)
    /\ res # <<>> /\ st = <<>> => Verdict(p, q, res, rw)
    /\ st # <<>> \/ res # <<>> => q.symbols[rw].binding # "local"

RowsOK(p, q, rw) ==
    \A j \in DOMAIN q.symbols :
        j < rw /\ q.symbols[j].binding # "local" => <<j, j>> \in TheSame(p, q)

AnswerOK(p, q, ans) ==
    (ans = "equal" => AllSame(p, q)) /\ (ans = "different" => ~ AllSame(p, q))

LaidOutAlike(p, q) == Alike(p, q) /\ Readable(p) /\ Readable(q)

EBody(p, q, st, res, rw, ans) ==
    /\ StackOK(p, q, st, rw) /\ ResultOK(p, q, st, res, rw)
    /\ RowsOK(p, q, rw) /\ AnswerOK(p, q, ans)

EInv ==
    PInv /\ (LaidOutAlike(prog1, prog2) => EBody(prog1, prog2, stack, result, row, answer))

EHere ==
    /\ PInv /\ LaidOutAlike(prog1, prog2)
    /\ EBody(prog1, prog2, stack, result, row, answer)

ENext == EBody(prog1, prog2, stack', result', row', answer')

LEMMA AlikeFacts ==
    ASSUME EHere
    PROVE  /\ prog1 \in Programs /\ prog2 \in Programs /\ prog1.symbols = prog2.symbols
           /\ NamesUnique(prog1) /\ PlacesUnique(prog1) /\ PlacesUnique(prog2)
           /\ BytesSuffice(prog1) /\ BytesSuffice(prog2) /\ PInv
           /\ StackOK(prog1, prog2, stack, row) /\ ResultOK(prog1, prog2, stack, result, row)
           /\ RowsOK(prog1, prog2, row) /\ AnswerOK(prog1, prog2, answer)
BY DEF EHere, LaidOutAlike, EBody, Readable, Alike, PInv

LEMMA OfUnique ==
    ASSUME NEW p, PlacesUnique(p), NEW f, NEW i, NEW a, Of(p, f, i), Of(p, f, a)
    PROVE  i = a
BY DEF Of, PlacesUnique

LEMMA TopIsOf ==
    ASSUME EHere, stack # <<>>
    PROVE  \E i \in DOMAIN prog1.symbols :
              Of(prog1, Top, i) /\ Compared(prog1, prog2, i, Top.off, Top.phase)
<1>1. 1 \in 1..Len(stack)
  BY AlikeFacts, TopFacts
<1>. QED  BY <1>1, AlikeFacts DEF StackOK, Top

(* What the call at the top reads is what SameContents is about.           *)
LEMMA TopReads ==
    ASSUME EHere, stack # <<>>, NEW i, Of(prog1, Top, i)
    PROVE  /\ Type1 = TypeOf(prog1, i) /\ Type2 = TypeOf(prog2, i) /\ IsText = IsTextRow(prog1, i)
           /\ compareSize = prog1.symbols[i].size
           /\ \A off : Place1(off) = Plus(prog1.symbols[i].location, off)
           /\ \A off : Place2(off) = Plus(prog2.symbols[i].location, off)
           /\ Relocs1 = Reloc(prog1, i, Top.off, IsTextRow(prog1, i))
           /\ Relocs2 = Reloc(prog2, i, Top.off, IsTextRow(prog1, i))
           /\ \A r : SameMasked(r) = Masked(prog1, prog2, i, Top.off, r)
           /\ i \in DOMAIN prog1.symbols /\ i \in DOMAIN prog2.symbols
<1>1. /\ Top.source = prog1.symbols[i] /\ Top.target = prog1.symbols[i]
      /\ prog2.symbols = prog1.symbols /\ i \in DOMAIN prog1.symbols
  BY AlikeFacts DEF Of
<1>2. Type1 = TypeOf(prog1, i) /\ Type2 = TypeOf(prog2, i) /\ IsText = IsTextRow(prog1, i)
  BY <1>1 DEF Type1, Type2, IsText, IsTextRow, TypeOf
<1>3. compareSize = prog1.symbols[i].size
  <2>1. prog1.symbols[i].size \in Nat
    BY <1>1, AlikeFacts, RowFacts
  <2>. QED  BY <1>1, <2>1 DEF compareSize, MaxNat
<1>4. /\ \A off : Place1(off) = Plus(prog1.symbols[i].location, off)
      /\ \A off : Place2(off) = Plus(prog2.symbols[i].location, off)
  BY <1>1 DEF Place1, Place2
<1>5. /\ Relocs1 = Reloc(prog1, i, Top.off, IsTextRow(prog1, i))
      /\ Relocs2 = Reloc(prog2, i, Top.off, IsTextRow(prog1, i))
  BY <1>2, <1>4, Zenon DEF Relocs1, Relocs2, RelocFor, Reloc
<1>6. \A r : SameMasked(r) = Masked(prog1, prog2, i, Top.off, r)
  BY <1>4 DEF SameMasked, Masked
<1>. QED  BY <1>1, <1>2, <1>3, <1>4, <1>5, <1>6

(* A call returns whether its symbol is the same in both programs.         *)
LEMMA ReturnKeeps ==
    ASSUME EHere, stack # <<>>, NEW i, Of(prog1, Top, i), NEW v \in BOOLEAN,
           v <=> <<i, i>> \in TheSame(prog1, prog2), Return(v)
    PROVE  ENext
<1>0. PlacesUnique(prog1) /\ 1 \in DOMAIN stack /\ DOMAIN stack = 1..Len(stack)
  BY AlikeFacts, TopFacts
<1>1. /\ Len(Tail(stack)) = Len(stack) - 1 /\ Len(stack) \in Nat \ {0}
      /\ \A k \in 1..(Len(stack) - 1) : Tail(stack)[k] = stack[k + 1]
      /\ Tail(stack) \in Seq(Frame)
  BY ReturnStack, AlikeFacts DEF PInv
<1>2. stack' = Tail(stack) /\ result' = <<v>> /\ row' = row /\ answer' = answer
      /\ result' # <<>> /\ result'[1] = v
  BY DEF Return
<1>3. /\ \A k \in 1..(Len(stack) - 1) : k + 1 \in 1..Len(stack)
      /\ \A k \in 1..(Len(stack) - 2) : k + 1 \in 1..(Len(stack) - 1) /\ k \in 1..(Len(stack) - 1)
  BY <1>1
<1>4. stack' # <<>> => 1 \in 1..(Len(stack) - 1) /\ Len(stack) - 1 \in 1..(Len(stack) - 1)
  BY <1>1, <1>2, EmptySeq
<1>5. stack' = <<>> => Len(stack) = 1
  <2>1. Len(<<>>) = 0
    BY NoFrames
  <2>2. Tail(stack) = <<>> => Len(Tail(stack)) = 0
    BY <2>1, Zenon
  <2>. QED  BY <1>1, <1>2, <2>2
<1>6. StackOK(prog1, prog2, stack', row)
  <2>1. \A k \in 1..Len(stack') : \E j \in DOMAIN prog1.symbols :
           Of(prog1, stack'[k], j) /\ Compared(prog1, prog2, j, stack'[k].off, stack'[k].phase)
    BY <1>1, <1>2, <1>3, AlikeFacts DEF StackOK
  <2>2. \A k \in 1..(Len(stack') - 1) : \E j, a \in DOMAIN prog1.symbols :
           Leads(prog1, prog2, stack'[k + 1], j, a) /\ Of(prog1, stack'[k], a)
    <3>1. \A k \in 1..(Len(stack) - 1) : \E j, a \in DOMAIN prog1.symbols :
             Leads(prog1, prog2, stack[k + 1], j, a) /\ Of(prog1, stack[k], a)
      BY AlikeFacts DEF StackOK
    <3>2. ASSUME NEW k \in 1..(Len(stack') - 1)
          PROVE  /\ k + 1 \in 1..(Len(stack) - 1)
                 /\ stack'[k] = stack[k + 1] /\ stack'[k + 1] = stack[(k + 1) + 1]
      BY <1>1, <1>2, <1>3, <3>2
    <3>. QED  BY <3>1, <3>2
  <2>3. stack' # <<>> => Of(prog1, stack'[Len(stack')], row)
    BY <1>1, <1>2, <1>4, AlikeFacts DEF StackOK
  <2>. QED  BY <2>1, <2>2, <2>3 DEF StackOK
<1>7. ResultOK(prog1, prog2, stack', result', row)
  <2>1. ASSUME stack' # <<>>
        PROVE  \E j, a \in DOMAIN prog1.symbols :
                  Leads(prog1, prog2, stack'[1], j, a) /\ Verdict(prog1, prog2, result', a)
    <3>1. PICK j \in DOMAIN prog1.symbols, a \in DOMAIN prog1.symbols :
             Leads(prog1, prog2, stack[2], j, a) /\ Of(prog1, stack[1], a)
      BY <1>4, <2>1, AlikeFacts DEF StackOK
    <3>2. a = i
      BY <1>0, <3>1, OfUnique DEF Top
    <3>3. stack'[1] = stack[2]
      BY <1>1, <1>2, <1>4, <2>1
    <3>. QED  BY <1>2, <3>1, <3>2, <3>3 DEF Verdict
  <2>2. ASSUME stack' = <<>> PROVE Verdict(prog1, prog2, result', row)
    <3>1. Of(prog1, Top, row)
      BY <1>5, <2>2, AlikeFacts DEF StackOK, Top
    <3>2. row = i
      BY <1>0, <3>1, OfUnique
    <3>. QED  BY <1>2, <3>2 DEF Verdict
  <2>3. prog2.symbols[row].binding # "local"
    BY AlikeFacts DEF ResultOK
  <2>. QED  BY <2>1, <2>2, <2>3 DEF ResultOK
<1>. QED  BY <1>2, <1>6, <1>7, AlikeFacts DEF ENext, EBody

LEMMA GoToKeeps ==
    ASSUME EHere, stack # <<>>, NEW i, Of(prog1, Top, i), NEW off \in Nat, NEW phase \in Phases,
           Compared(prog1, prog2, i, off, phase), GoTo(off, phase)
    PROVE  ENext
<1>1. GoneFrom(stack', stack, off, phase)
  BY GoToTypes, AlikeFacts
<1>2. /\ Len(stack') = Len(stack) /\ Len(stack) \in Nat \ {0}
      /\ stack'[1].source = Top.source /\ stack'[1].target = Top.target
      /\ stack'[1].off = off /\ stack'[1].phase = phase
      /\ \A k \in 2..Len(stack) : stack'[k] = stack[k]
  BY <1>1 DEF GoneFrom, Top
<1>3. result' = <<>> /\ row' = row /\ answer' = answer
  BY DEF GoTo
<1>4. \A a : Of(prog1, stack[1], a) <=> Of(prog1, stack'[1], a)
  BY <1>2 DEF Of, Top
<1>5. \A k \in 1..Len(stack) : k = 1 \/ k \in 2..Len(stack)
  BY <1>2
<1>6. \A k \in 1..(Len(stack) - 1) : k \in 1..Len(stack) /\ k + 1 \in 2..Len(stack)
  BY <1>2
<1>7. \A k \in 1..Len(stack) : \A a : Of(prog1, stack[k], a) <=> Of(prog1, stack'[k], a)
  BY <1>2, <1>4, <1>5
<1>8. StackOK(prog1, prog2, stack', row)
  <2>1. ASSUME NEW k \in 1..Len(stack')
        PROVE  \E j \in DOMAIN prog1.symbols :
           Of(prog1, stack'[k], j) /\ Compared(prog1, prog2, j, stack'[k].off, stack'[k].phase)
    <3>1. CASE k = 1
      <4>1. Of(prog1, stack'[1], i) /\ i \in DOMAIN prog1.symbols
        BY <1>4 DEF Of, Top
      <4>. QED  BY <1>2, <3>1, <4>1
    <3>2. CASE k \in 2..Len(stack)
      BY <1>2, <2>1, <3>2, AlikeFacts DEF StackOK
    <3>. QED  BY <1>2, <1>5, <2>1, <3>1, <3>2
  <2>2. \A k \in 1..(Len(stack') - 1) : \E j, a \in DOMAIN prog1.symbols :
           Leads(prog1, prog2, stack'[k + 1], j, a) /\ Of(prog1, stack'[k], a)
    BY <1>2, <1>6, <1>7, AlikeFacts DEF StackOK
  <2>3. stack' # <<>> => Of(prog1, stack'[Len(stack')], row)
    <3>1. Len(stack) \in 1..Len(stack)
      BY <1>2
    <3>. QED  BY <1>2, <1>7, <3>1, AlikeFacts DEF StackOK
  <2>. QED  BY <2>1, <2>2, <2>3 DEF StackOK
<1>9. ResultOK(prog1, prog2, stack', result', row)
  BY <1>3, AlikeFacts DEF ResultOK
<1>. QED  BY <1>3, <1>8, <1>9, AlikeFacts DEF ENext, EBody

LEMMA AbortKeeps ==
    ASSUME EHere, result = <<>>, stack' = <<>>, row' = row, result' = result,
           answer' \in {"aborted", "overflow"}
    PROVE  ENext
<1>1. StackOK(prog1, prog2, stack', row)
  <2>1. Len(stack') = 0 /\ \A k \in 1..(Len(stack') - 1) : FALSE
    BY NoFrames
  <2>. QED  BY <2>1, NoFrames DEF StackOK
<1>2. ResultOK(prog1, prog2, stack', result', row) /\ AnswerOK(prog1, prog2, answer')
  BY AlikeFacts DEF ResultOK, AnswerOK
<1>. QED  BY <1>1, <1>2, AlikeFacts DEF ENext, EBody

LEMMA EmptyKeeps ==
    ASSUME EHere, stack' = <<>>, result' = <<>>,
           RowsOK(prog1, prog2, row'), AnswerOK(prog1, prog2, answer')
    PROVE  ENext
<1>1. StackOK(prog1, prog2, stack', row')
  <2>1. Len(stack') = 0 /\ \A k \in 1..(Len(stack') - 1) : FALSE
    BY NoFrames
  <2>. QED  BY <2>1, NoFrames DEF StackOK
<1>2. ResultOK(prog1, prog2, stack', result', row')
  BY DEF ResultOK
<1>. QED  BY <1>1, <1>2 DEF ENext, EBody

LEMMA RecurseKeeps ==
    ASSUME EHere, stack # <<>>, result = <<>>, NEW i, NEW a,
           Leads(prog1, prog2, Top, i, a), Recurse(prog1.symbols[a], prog1.symbols[a])
    PROVE  ENext
<1>1. CASE stack' = <<>> /\ answer' = "overflow"
  BY <1>1, AbortKeeps DEF Recurse
<1>2. CASE stack' = <<Call(prog1.symbols[a], prog1.symbols[a])>> \o stack /\ answer' = answer
  <2>1. PICK c : c = Call(prog1.symbols[a], prog1.symbols[a])
    OBVIOUS
  <2>2. /\ c.source = prog1.symbols[a] /\ c.target = prog1.symbols[a] /\ c.phase = "enter"
        /\ a \in DOMAIN prog1.symbols /\ i \in DOMAIN prog1.symbols
    BY <2>1, CallFields DEF Leads, Of
  <2>3. Of(prog1, c, a) /\ Compared(prog1, prog2, a, c.off, c.phase)
    BY <2>2 DEF Of, Compared
  <2>4. c \in Frame
    BY <2>1, <2>2, AlikeFacts, CallIsFrame DEF Elements
  <2>5. /\ Len(stack') = Len(stack) + 1 /\ Len(stack) \in Nat \ {0} /\ stack'[1] = c
        /\ \A k \in 2..(Len(stack) + 1) : stack'[k] = stack[k - 1]
    <3>1. stack \in Seq(Frame) /\ Len(stack) \in Nat \ {0}
      BY AlikeFacts, TopFacts DEF PInv
    <3>2. stack' = <<c>> \o stack
      BY <1>2, <2>1
    <3>. QED  BY <2>4, <3>1, <3>2, CallStack
  <2>6. /\ \A k \in 1..(Len(stack) + 1) :
             k = 1 \/ (k \in 2..(Len(stack) + 1) /\ k - 1 \in 1..Len(stack))
        /\ \A k \in 1..Len(stack) :
             k = 1 \/ (k \in 2..(Len(stack) + 1) /\ k - 1 \in 1..(Len(stack) - 1)
                       /\ (k - 1) + 1 = k /\ (k + 1) - 1 = k /\ k + 1 \in 2..(Len(stack) + 1))
        /\ Len(stack) + 1 \in 2..(Len(stack) + 1) /\ (Len(stack) + 1) - 1 = Len(stack)
        /\ (Len(stack) + 1) - 1 = Len(stack) /\ 2 \in 2..(Len(stack) + 1) /\ 2 - 1 = 1 /\ 1 + 1 = 2
    BY <2>5
  <2>7. StackOK(prog1, prog2, stack', row)
    <3>1. ASSUME NEW k \in 1..Len(stack')
          PROVE  \E j \in DOMAIN prog1.symbols :
             Of(prog1, stack'[k], j) /\ Compared(prog1, prog2, j, stack'[k].off, stack'[k].phase)
      <4>1. CASE k = 1
        BY <2>2, <2>3, <2>5, <4>1
      <4>2. CASE k \in 2..(Len(stack) + 1) /\ k - 1 \in 1..Len(stack)
        <5>1. stack'[k] = stack[k - 1]
          BY <2>5, <4>2
        <5>. QED  BY <4>2, <5>1, AlikeFacts DEF StackOK
      <4>. QED  BY <2>5, <2>6, <3>1, <4>1, <4>2
    <3>2. ASSUME NEW k \in 1..(Len(stack') - 1)
          PROVE  \E j, b \in DOMAIN prog1.symbols :
                    Leads(prog1, prog2, stack'[k + 1], j, b) /\ Of(prog1, stack'[k], b)
      <4>1. k \in 1..Len(stack)
        BY <2>5, <3>2
      <4>2. CASE k = 1
        <5>1. stack'[k + 1] = Top
          BY <2>5, <2>6, <4>2 DEF Top
        <5>. QED  BY <2>2, <2>3, <2>5, <4>2, <5>1
      <4>3. CASE k # 1
        <5>1. k - 1 \in 1..(Len(stack) - 1) /\ stack'[k + 1] = stack[k] /\ stack'[k] = stack[k - 1]
              /\ (k - 1) + 1 = k
          BY <2>5, <2>6, <4>1, <4>3
        <5>2. \E j, b \in DOMAIN prog1.symbols :
                 Leads(prog1, prog2, stack[(k - 1) + 1], j, b) /\ Of(prog1, stack[k - 1], b)
          BY <5>1, AlikeFacts DEF StackOK
        <5>. QED  BY <5>1, <5>2
      <4>. QED  BY <4>2, <4>3
    <3>3. Of(prog1, stack'[Len(stack')], row)
      <4>1. stack'[Len(stack')] = stack[Len(stack)]
        BY <2>5, <2>6
      <4>. QED  BY <4>1, AlikeFacts DEF StackOK
    <3>. QED  BY <3>1, <3>2, <3>3 DEF StackOK
  <2>8. result' = <<>> /\ row' = row
    BY DEF Recurse
  <2>9. ResultOK(prog1, prog2, stack', result', row)
    BY <2>8, AlikeFacts DEF ResultOK
  <2>. QED  BY <1>2, <2>7, <2>8, <2>9, AlikeFacts DEF ENext, EBody
<1>. QED  BY <1>1, <1>2 DEF Recurse

-----------------------------------------------------------------------------
(* The steps of comparePrograms.                                           *)

LEMMA StepNextSymbol == ASSUME EHere, NextSymbol PROVE ENext
<1>1. PICK target : target = prog2.symbols[row]
  OBVIOUS
<1>2. row \in DOMAIN prog1.symbols /\ target = prog1.symbols[row] /\ stack = <<>>
      /\ result = <<>> /\ result' = <<>> /\ row \in Nat /\ DOMAIN prog2.symbols \subseteq Nat
  BY <1>1, AlikeFacts, ProgramFacts DEF NextSymbol, AtSymbols
<1>3. target.binding # "local" => Namesakes(target.name) = {target}
  BY <1>2, AlikeFacts, OwnNamesake DEF Namesakes
<1>4. CASE target.binding = "local" /\ row' = row + 1 /\ stack' = stack /\ answer' = answer
  <2>1. \A j \in DOMAIN prog2.symbols : j < row + 1 => j < row \/ j = row
    BY <1>2
  <2>2. RowsOK(prog1, prog2, row')
    BY <1>1, <1>4, <2>1, AlikeFacts DEF RowsOK
  <2>. QED  BY <1>2, <1>4, <2>2, AlikeFacts, EmptyKeeps
<1>5. CASE target.binding # "local" /\ row' = row /\ stack' = <<Call(target, target)>>
           /\ answer' = answer
  <2>1. PICK c : c = Call(target, target)
    OBVIOUS
  <2>2. c.source = target /\ c.target = target /\ c.phase = "enter"
    BY <2>1, CallFields
  <2>3. stack' = <<c>> /\ Len(stack') = 1 /\ stack'[1] = c
    BY <1>5, <2>1
  <2>4. Of(prog1, c, row) /\ Compared(prog1, prog2, row, c.off, c.phase)
    BY <1>2, <2>2 DEF Of, Compared
  <2>5. \A k \in 1..1 : k = 1
    OBVIOUS
  <2>6. \A k \in 1..(1 - 1) : FALSE
    OBVIOUS
  <2>7. StackOK(prog1, prog2, stack', row)
    BY <1>2, <2>3, <2>4, <2>5, <2>6, Zenon DEF StackOK
  <2>8. ResultOK(prog1, prog2, stack', result', row)
    BY <1>1, <1>2, <1>5 DEF ResultOK
  <2>. QED  BY <1>5, <2>7, <2>8, AlikeFacts DEF ENext, EBody
<1>6. \/ target.binding = "local" /\ row' = row + 1 /\ stack' = stack /\ answer' = answer
      \/ target.binding # "local" /\ row' = row /\ stack' = <<Call(target, target)>>
         /\ answer' = answer
  BY <1>1, <1>3, Zenon DEF NextSymbol
<1>. QED  BY <1>4, <1>5, <1>6

LEMMA StepSymbolCompared == ASSUME EHere, SymbolCompared PROVE ENext
<1>1. stack' = <<>> /\ result' = <<>> /\ stack = <<>> /\ result # <<>>
  BY DEF SymbolCompared
<1>2. /\ result[1] <=> <<row, row>> \in TheSame(prog1, prog2)
      /\ prog2.symbols[row].binding # "local"
  BY <1>1, AlikeFacts DEF ResultOK, Verdict
<1>3. row \in DOMAIN prog2.symbols /\ row \in Nat /\ DOMAIN prog2.symbols \subseteq Nat
  BY <1>1, AlikeFacts, ProgramFacts DEF PInv
<1>4. CASE result[1]
  <2>1. row' = row + 1 /\ answer' = answer
    BY <1>4 DEF SymbolCompared
  <2>2. \A j \in DOMAIN prog2.symbols : j < row + 1 => j < row \/ j = row
    BY <1>3
  <2>3. RowsOK(prog1, prog2, row')
    BY <1>2, <1>4, <2>1, <2>2, AlikeFacts DEF RowsOK
  <2>. QED  BY <1>1, <2>1, <2>3, AlikeFacts, EmptyKeeps
<1>5. CASE ~ result[1]
  <2>1. row' = row /\ answer' = "different"
    BY <1>5 DEF SymbolCompared
  <2>2. AnswerOK(prog1, prog2, answer')
    BY <1>2, <1>3, <1>5, <2>1 DEF AnswerOK, AllSame
  <2>. QED  BY <1>1, <2>1, <2>2, AlikeFacts, EmptyKeeps
<1>. QED  BY <1>4, <1>5

LEMMA StepEndProgram == ASSUME EHere, EndProgram PROVE ENext
<1>1. stack' = <<>> /\ result' = <<>> /\ row' = row /\ answer' = "equal"
      /\ row \notin DOMAIN prog2.symbols
  BY DEF EndProgram, AtSymbols
<1>2. \A j \in DOMAIN prog2.symbols : j < row
  BY <1>1, AlikeFacts, ProgramFacts DEF PInv
<1>3. AnswerOK(prog1, prog2, answer')
  BY <1>1, <1>2, AlikeFacts DEF AnswerOK, AllSame, RowsOK
<1>. QED  BY <1>1, <1>3, AlikeFacts, EmptyKeeps

-----------------------------------------------------------------------------
(* The steps of compareSymbols, compareFunctions and compareData.          *)

LEMMA TypesOfRows ==
    ASSUME NEW p \in Programs, NEW i \in DOMAIN p.symbols
    PROVE  TypeOf(p, i) \in SectionTypes
<1>1. p.symbols[i].location.section \in Sections
  BY RowFacts
<1>2. p.type \in [Sections -> SectionTypes]
  BY ProgramFacts, Zenon DEF IsProgram
<1>. QED  BY <1>1, <1>2 DEF TypeOf

LEMMA InSectionReads ==
    ASSUME NEW p \in Programs, NEW i \in DOMAIN p.symbols, InSection(p, i),
           NEW k \in Nat, 4 * k < p.symbols[i].size
    PROVE  HasBuffer(p, Plus(p.symbols[i].location, 4 * k))
<1>1. PICK loc, len, n : /\ loc = p.symbols[i].location /\ len = p.length[loc.section]
                         /\ n = p.symbols[i].size
  OBVIOUS
<1>2. loc \in Location /\ loc.offset \in Nat /\ len \in Nat /\ n \in Nat /\ loc.offset + n <= len
  BY <1>1, RowFacts DEF InSection
<1>3. /\ Plus(loc, 4 * k).section = loc.section
      /\ Plus(loc, 4 * k).offset = loc.offset + 4 * k
  BY <1>2 DEF Plus, Location
<1>4. 4 * k < n
  BY <1>1
<1>5. loc.offset + 4 * k < len
  BY <1>2, <1>4
<1>. QED  BY <1>1, <1>3, <1>5 DEF HasBuffer

LEMMA AlignedData ==
    ASSUME EHere, stack # <<>>, NEW i, Of(prog1, Top, i), Type1 = Type2, Type1 = "DATA", ~ Unaligned
    PROVE  InBuffers /\ (SameBytes <=> <<i, i>> \in TheSame(prog1, prog2))
<1>1. PICK s, n : s = prog1.symbols[i] /\ n = s.size
  OBVIOUS
<1>2. /\ i \in DOMAIN prog1.symbols /\ prog2.symbols[i] = s /\ n \in Nat
      /\ i \in DOMAIN prog2.symbols /\ Top.source = s /\ Top.target = s
      /\ prog1 \in Programs /\ prog2 \in Programs
  BY <1>1, TopReads, AlikeFacts, RowFacts DEF Of
<1>3. /\ TypeOf(prog1, i) = "DATA" /\ TypeOf(prog2, i) = "DATA" /\ ~ IsTextRow(prog1, i)
      /\ s.location.offset % 4 = 0 /\ s.size % 4 = 0
  BY <1>2, TopReads DEF Unaligned, IsTextRow
<1>4. /\ InSection(prog1, i) /\ InSection(prog2, i)
      /\ \A off \in WordsOf(prog1, i) : Reloc(prog1, i, off, FALSE) = {}
      /\ \A off \in WordsOf(prog2, i) : Reloc(prog2, i, off, FALSE) = {}
  BY <1>1, <1>2, <1>3, AlikeFacts DEF BytesSuffice, TypeOf
<1>5. \A off \in Words : \E k \in Nat : off = 4 * k /\ 4 * k < n
  <2>1. compareSize = n
    BY <1>1, TopReads
  <2>2. ASSUME NEW k \in 0..((n - 1) \div 4) PROVE k \in Nat /\ 4 * k < n
    BY <1>2, WordsBelow
  <2>. QED  BY <2>1, <2>2 DEF Words
<1>6. \A k \in Nat : 4 * k < n => /\ 4 * k \in Words
                                  /\ 4 * k \in WordsOf(prog1, i) /\ 4 * k \in WordsOf(prog2, i)
  <2>1. compareSize = n
    BY <1>1, TopReads
  <2>2. \A k \in Nat : 4 * k < n => k \in 0..((n - 1) \div 4)
    BY <1>2, WordsBelow
  <2>. QED  BY <1>1, <1>2, <2>1, <2>2 DEF Words, WordsOf
<1>7. InBuffers
  BY <1>1, <1>2, <1>4, <1>5, TopReads, InSectionReads DEF InBuffers, HasBuffers
<1>8. \A k \in Nat : 4 * k < n =>
         (SameWord(prog1, prog2, i, i, 4 * k, IsTextRow(prog1, i), TheSame(prog1, prog2))
            <=> prog1.word[Place1(4 * k)] = prog2.word[Place2(4 * k)])
  <2>. SUFFICES ASSUME NEW k \in Nat, 4 * k < n
                PROVE SameWord(prog1, prog2, i, i, 4 * k, IsTextRow(prog1, i), TheSame(prog1, prog2))
                        <=> prog1.word[Place1(4 * k)] = prog2.word[Place2(4 * k)]
    OBVIOUS
  <2>1. IsTextRow(prog1, i) = FALSE
    BY <1>3 DEF IsTextRow
  <2>2. /\ Reloc(prog1, i, 4 * k, IsTextRow(prog1, i)) = {}
        /\ Reloc(prog2, i, 4 * k, IsTextRow(prog1, i)) = {}
    BY <1>4, <1>6, <2>1
  <2>3. /\ Place1(4 * k) = Plus(prog1.symbols[i].location, 4 * k)
        /\ Place2(4 * k) = Plus(prog2.symbols[i].location, 4 * k)
    BY TopReads
  <2>. QED  BY <2>2, <2>3, WordByBytes
<1>9. ASSUME SameBytes PROVE <<i, i>> \in TheSame(prog1, prog2)
  <2>1. \A k \in Nat : 4 * k < n =>
           SameWord(prog1, prog2, i, i, 4 * k, IsTextRow(prog1, i), TheSame(prog1, prog2))
    BY <1>6, <1>8, <1>9 DEF SameBytes
  <2>. QED  BY <1>1, <1>2, <1>3, <2>1, AlikeFacts, WordsAgree
<1>10. ASSUME <<i, i>> \in TheSame(prog1, prog2) PROVE SameBytes
  <2>1. ASSUME NEW k \in Nat, 4 * k < n
        PROVE  prog1.word[Place1(4 * k)] = prog2.word[Place2(4 * k)]
    BY <1>1, <1>2, <1>3, <1>8, <1>10, <2>1, AlikeFacts, WordDiffers
  <2>. QED  BY <1>5, <2>1 DEF SameBytes
<1>. QED  BY <1>7, <1>9, <1>10

LEMMA StepEnter ==
    ASSUME EHere, EnterSymbol \/ EnterFunction \/ EnterData
    PROVE  ENext
<1>0. stack # <<>> /\ result = <<>> /\ "word" \in Phases
  BY DEF EnterSymbol, EnterFunction, EnterData, Entering, Phases
<1>1. PICK i \in DOMAIN prog1.symbols : Of(prog1, Top, i)
  BY <1>0, TopIsOf
<1>2. /\ Type1 = TypeOf(prog1, i) /\ Type2 = TypeOf(prog2, i)
      /\ prog1 \in Programs /\ prog2 \in Programs /\ prog1.symbols = prog2.symbols
  BY <1>0, <1>1, TopReads, AlikeFacts
<1>3. CASE EnterSymbol
  <2>1. CASE Type1 # Type2 /\ Return(FALSE)
    BY <1>0, <1>1, <1>2, <2>1, TypeDiffers, ReturnKeeps
  <2>2. CASE Type1 = Type2 /\ Type1 \in {"BSS", "NOLOAD"} /\ Return(TRUE)
    <3>1. <<i, i>> \in TheSame(prog1, prog2)
      <4>1. ~(TypeOf(prog1, i) \in {"TEXT", "DATA"})
        BY <1>2, <2>2
      <4>. QED  BY <1>1, <1>2, <2>2, <4>1, WordsAgree
    <3>. QED  BY <1>0, <1>1, <2>2, <3>1, ReturnKeeps
  <2>. QED  BY <1>3, <2>1, <2>2 DEF EnterSymbol
<1>4. ASSUME Type1 = Type2, Type1 \in {"TEXT", "DATA"}, GoTo(0, "word") PROVE ENext
  <2>1. \A k \in Nat : ~(4 * k < 0)
    OBVIOUS
  <2>2. Compared(prog1, prog2, i, 0, "word")
    <3>1. \E k \in Nat : 0 = 4 * k
      <4>1. 0 = 4 * 0
        OBVIOUS
      <4>. QED  BY <4>1
    <3>. QED  BY <1>2, <1>4, <2>1, <3>1 DEF Compared
  <2>. QED  BY <1>0, <1>1, <1>4, <2>2, GoToKeeps
<1>5. ASSUME Abort PROVE ENext
  BY <1>0, <1>5, AbortKeeps DEF Abort
<1>6. CASE EnterFunction
  BY <1>4, <1>5, <1>6 DEF EnterFunction, IsText
<1>7. CASE EnterData
  <2>1. CASE Type1 = Type2 /\ Type1 = "DATA" /\ GoTo(0, "word")
    BY <1>4, <2>1
  <2>2. CASE Type1 = Type2 /\ Type1 = "DATA" /\ ~ Unaligned
    <3>1. InBuffers /\ (SameBytes <=> <<i, i>> \in TheSame(prog1, prog2))
      BY <1>0, <1>1, <2>2, AlignedData
    <3>2. ASSUME Return(SameBytes) PROVE ENext
      <4>1. SameBytes \in BOOLEAN
        BY DEF SameBytes
      <4>. QED  BY <1>0, <1>1, <3>1, <3>2, <4>1, ReturnKeeps
    <3>. QED  BY <1>5, <1>7, <2>2, <3>1, <3>2 DEF EnterData
  <2>. QED  BY <1>5, <1>7, <2>1, <2>2 DEF EnterData
<1>. QED  BY <1>3, <1>6, <1>7

\* The top compares the next word.
LEMMA NextWord ==
    ASSUME NEW p, NEW q, NEW i, NEW off \in Nat, NEW phase,
           Compared(p, q, i, off, phase), phase # "enter",
           SameWord(p, q, i, i, off, IsTextRow(p, i), TheSame(p, q))
    PROVE  off + 4 \in Nat /\ Compared(p, q, i, off + 4, "word")
<1>1. PICK m \in Nat : off = 4 * m
  BY DEF Compared
<1>2. m + 1 \in Nat /\ off + 4 = 4 * (m + 1)
  BY <1>1
<1>3. \A k \in Nat : 4 * k < off + 4 => 4 * k < off \/ k = m
  BY <1>1
<1>4. \A k \in Nat : 4 * k < off + 4 =>
         SameWord(p, q, i, i, 4 * k, IsTextRow(p, i), TheSame(p, q))
  BY <1>1, <1>3 DEF Compared
<1>5. \E k \in Nat : off + 4 = 4 * k
  BY <1>2
<1>6. TypeOf(p, i) = TypeOf(q, i) /\ TypeOf(p, i) \in {"TEXT", "DATA"}
  BY DEF Compared
<1>7. off + 4 \in Nat
  OBVIOUS
<1>. QED  BY <1>4, <1>5, <1>6, <1>7 DEF Compared

LEMMA StepWord ==
    ASSUME EHere, CompareWord \/ EndSymbol
    PROVE  ENext
<1>0. stack # <<>> /\ result = <<>> /\ Top.phase = "word" /\ "word" \in Phases
  BY DEF CompareWord, EndSymbol, AtWord, Phases
<1>1. PICK i \in DOMAIN prog1.symbols :
         Of(prog1, Top, i) /\ Compared(prog1, prog2, i, Top.off, "word")
  BY <1>0, TopIsOf
<1>2. PICK n : n = prog1.symbols[i].size
  OBVIOUS
<1>3. /\ prog1 \in Programs /\ prog2 \in Programs /\ prog1.symbols = prog2.symbols
      /\ Top.off \in Nat /\ n \in Nat /\ compareSize = n
  BY <1>0, <1>1, <1>2, TopReads, AlikeFacts, TopFacts, RowFacts
<1>4. TypeOf(prog1, i) = TypeOf(prog2, i) /\ TypeOf(prog1, i) \in {"TEXT", "DATA"}
  BY <1>1 DEF Compared
<1>5. CASE EndSymbol
  <2>1. Top.off >= n /\ Return(TRUE)
    BY <1>3, <1>5 DEF EndSymbol
  <2>2. \A k \in Nat : 4 * k < n => 4 * k < Top.off
    BY <1>3, <2>1
  <2>3. \A k \in Nat : 4 * k < n =>
           SameWord(prog1, prog2, i, i, 4 * k, IsTextRow(prog1, i), TheSame(prog1, prog2))
    BY <1>1, <2>2 DEF Compared
  <2>4. <<i, i>> \in TheSame(prog1, prog2)
    BY <1>2, <1>3, <1>4, <2>3, WordsAgree
  <2>. QED  BY <1>0, <1>1, <2>1, <2>4, ReturnKeeps
<1>6. CASE CompareWord
  <2>1. PICK m \in Nat : Top.off = 4 * m
    BY <1>1 DEF Compared
  <2>2. 4 * m < n
    BY <1>3, <1>6, <2>1 DEF CompareWord, AtWord
  <2>3. ~ SameWord(prog1, prog2, i, i, Top.off, IsTextRow(prog1, i), TheSame(prog1, prog2))
           => <<i, i>> \notin TheSame(prog1, prog2)
    BY <1>2, <1>3, <1>4, <2>1, <2>2, WordDiffers
  <2>4. ASSUME Relocs1 = {} \/ Relocs2 = {}
        PROVE  SameWord(prog1, prog2, i, i, Top.off, IsTextRow(prog1, i), TheSame(prog1, prog2))
                 <=> /\ Relocs1 = {} /\ Relocs2 = {}
                     /\ prog1.word[Place1(Top.off)] = prog2.word[Place2(Top.off)]
    BY <1>0, <1>1, <2>4, TopReads, WordByBytes
  <2>5. CASE (Relocs1 = {}) # (Relocs2 = {}) /\ Return(FALSE)
    BY <1>0, <1>1, <2>3, <2>4, <2>5, ReturnKeeps
  <2>6. CASE Abort
    BY <1>0, <2>6, AbortKeeps DEF Abort
  <2>7. CASE Relocs1 = {} /\ Relocs2 = {}
             /\ prog1.word[Place1(Top.off)] = prog2.word[Place2(Top.off)]
             /\ GoTo(Top.off + 4, "word")
    <3>1. Top.off + 4 \in Nat /\ Compared(prog1, prog2, i, Top.off + 4, "word")
      BY <1>1, <1>3, <2>4, <2>7, NextWord
    <3>. QED  BY <1>0, <1>1, <2>7, <3>1, GoToKeeps
  <2>8. CASE Relocs1 = {} /\ Relocs2 = {}
             /\ prog1.word[Place1(Top.off)] # prog2.word[Place2(Top.off)]
             /\ Return(FALSE)
    BY <1>0, <1>1, <2>3, <2>4, <2>8, ReturnKeeps
  <2>. QED  BY <1>6, <2>5, <2>6, <2>7, <2>8 DEF CompareWord
<1>. QED  BY <1>5, <1>6

LEMMA StepRelocations ==
    ASSUME EHere, CompareRelocations
    PROVE  ENext
<1>0. stack # <<>> /\ result = <<>> /\ Top.phase = "word" /\ "relocated" \in Phases
  BY DEF CompareRelocations, AtWord, Phases
<1>1. PICK i \in DOMAIN prog1.symbols :
         Of(prog1, Top, i) /\ Compared(prog1, prog2, i, Top.off, "word")
  BY <1>0, TopIsOf
<1>2. PICK n, text : n = prog1.symbols[i].size /\ text = IsTextRow(prog1, i)
  OBVIOUS
<1>3. /\ prog1 \in Programs /\ prog2 \in Programs /\ prog1.symbols = prog2.symbols
      /\ Top.off \in Nat /\ n \in Nat /\ compareSize = n
      /\ Relocs1 = Reloc(prog1, i, Top.off, text) /\ Relocs2 = Reloc(prog2, i, Top.off, text)
  BY <1>0, <1>1, <1>2, TopReads, AlikeFacts, TopFacts, RowFacts
<1>4. TypeOf(prog1, i) = TypeOf(prog2, i) /\ TypeOf(prog1, i) \in {"TEXT", "DATA"}
      /\ text \in BOOLEAN
  BY <1>1, <1>2 DEF Compared, IsTextRow
<1>5. PICK m \in Nat : Top.off = 4 * m
  BY <1>1 DEF Compared
<1>6. 4 * m < n
  BY <1>3, <1>5 DEF CompareRelocations, AtWord
<1>7. Top.off \in WordsOf(prog1, i)
  <2>1. m \in 0..((n - 1) \div 4)
    BY <1>3, <1>6, WordsBelow
  <2>. QED  BY <1>2, <1>5, <2>1 DEF WordsOf
<1>8. PICK r \in Relocs1, q \in Relocs2 :
          \/ Abort
          \/ \E s \in SymbolFor(prog1, r), t \in SymbolFor(prog2, q) :
                IF "local" \in {s.binding, t.binding}
                THEN Recurse(s, t)
                ELSE IF SameReference(r, s, q, t)
                THEN GoTo(Top.off, "relocated")
                ELSE Return(FALSE)
  BY DEF CompareRelocations, ByContents
<1>9. CASE Abort
  BY <1>0, <1>9, AbortKeeps DEF Abort
<1>10. ASSUME NEW s \in SymbolFor(prog1, r), NEW t \in SymbolFor(prog2, q),
              IF "local" \in {s.binding, t.binding}
              THEN Recurse(s, t)
              ELSE IF SameReference(r, s, q, t)
              THEN GoTo(Top.off, "relocated")
              ELSE Return(FALSE)
       PROVE  ENext
  <2>0. r \in Elements(prog1.relocs) /\ q \in Elements(prog2.relocs)
    BY <1>3, <1>8, RelocIsOne
  <2>1. PICK a \in DOMAIN prog1.symbols :
           s = prog1.symbols[a] /\ RowsAt(prog1, r.destination) = {a}
    BY <1>3, <1>10, <2>0, AlikeFacts, PlaceIsRow
  <2>2. PICK b \in DOMAIN prog2.symbols :
           t = prog2.symbols[b] /\ RowsAt(prog2, q.destination) = {b}
    BY <1>3, <1>10, <2>0, AlikeFacts, PlaceIsRow
  <2>3. SameTarget(prog1, prog2, r, q, TheSame(prog1, prog2)) <=>
           IF "local" \in {s.binding, t.binding}
           THEN <<a, b>> \in TheSame(prog1, prog2)
           ELSE SameReference(r, s, q, t)
    BY <2>1, <2>2, TargetByRow
  <2>4. CASE "local" \in {s.binding, t.binding}
    <3>1. LocalAt(prog1, r.destination) \/ LocalAt(prog2, q.destination)
      BY <2>1, <2>2, <2>4 DEF LocalAt
    <3>2. r.destination = q.destination
      <4>1. Alike(prog1, prog2)
        BY DEF EHere, LaidOutAlike
      <4>. QED  BY <1>3, <1>4, <1>7, <1>8, <3>1, <4>1 DEF Alike
    <3>3. a = b
      BY <1>3, <2>1, <2>2, <3>2 DEF RowsAt
    <3>4. s = t /\ prog1.symbols[a].binding = "local"
      BY <1>3, <2>1, <2>2, <2>4, <3>3
    <3>5. Leads(prog1, prog2, Top, i, a)
      BY <1>0, <1>1, <1>2, <1>3, <1>5, <1>6, <1>8, <2>1, <2>2, <3>3, <3>4 DEF Leads
    <3>6. Recurse(prog1.symbols[a], prog1.symbols[a])
      BY <1>10, <2>1, <2>4, <3>4
    <3>. QED  BY <1>0, <3>5, <3>6, RecurseKeeps
  <2>5. CASE "local" \notin {s.binding, t.binding} /\ SameReference(r, s, q, t)
    <3>1. SameTarget(prog1, prog2, r, q, TheSame(prog1, prog2))
      BY <2>3, <2>5
    <3>2. /\ \A r1 \in Reloc(prog1, i, Top.off, text) : r1 = r
          /\ \A r2 \in Reloc(prog2, i, Top.off, text) : r2 = q
      BY <1>3, <1>8, RelocIsOne
    <3>3. Targets(prog1, prog2, i, Top.off)
      BY <1>2, <1>3, <1>8, <3>1, <3>2 DEF Targets
    <3>4. Compared(prog1, prog2, i, Top.off, "relocated")
      BY <1>1, <1>2, <1>5, <1>6, <3>3 DEF Compared
    <3>5. GoTo(Top.off, "relocated")
      BY <1>10, <2>5
    <3>. QED  BY <1>0, <1>1, <1>3, <3>4, <3>5, GoToKeeps
  <2>6. CASE "local" \notin {s.binding, t.binding} /\ ~ SameReference(r, s, q, t)
    <3>1. ~ SameTarget(prog1, prog2, r, q, TheSame(prog1, prog2))
      BY <2>3, <2>6
    <3>2. ~ SameWord(prog1, prog2, i, i, 4 * m, text, TheSame(prog1, prog2))
      BY <1>3, <1>5, <1>8, <3>1 DEF SameWord
    <3>3. <<i, i>> \notin TheSame(prog1, prog2)
      BY <1>2, <1>3, <1>4, <1>6, <3>2, WordDiffers
    <3>4. Return(FALSE)
      BY <1>10, <2>6
    <3>. QED  BY <1>0, <1>1, <3>3, <3>4, ReturnKeeps
  <2>. QED  BY <2>4, <2>5, <2>6
<1>. QED  BY <1>8, <1>9, <1>10

LEMMA StepLocalCompared ==
    ASSUME EHere, LocalCompared
    PROVE  ENext
<1>0. stack # <<>> /\ result # <<>> /\ "relocated" \in Phases
  BY DEF LocalCompared, Phases
<1>1. PICK i \in DOMAIN prog1.symbols, a \in DOMAIN prog1.symbols :
         Leads(prog1, prog2, Top, i, a) /\ Verdict(prog1, prog2, result, a)
  BY <1>0, AlikeFacts DEF ResultOK, Top
<1>2. Of(prog1, Top, i) /\ Top.phase = "word" /\ Top.off < prog1.symbols[i].size
      /\ prog1.symbols[a].binding = "local"
  BY <1>1 DEF Leads
<1>3. Compared(prog1, prog2, i, Top.off, "word")
  <2>1. PICK j : Of(prog1, Top, j) /\ Compared(prog1, prog2, j, Top.off, Top.phase)
    BY <1>0, TopIsOf
  <2>. QED  BY <1>2, <2>1, AlikeFacts, OfUnique
<1>4. /\ prog1 \in Programs /\ prog2 \in Programs /\ prog1.symbols = prog2.symbols
      /\ Top.off \in Nat
  BY <1>0, AlikeFacts, TopFacts
<1>5. PICK r \in Reloc(prog1, i, Top.off, IsTextRow(prog1, i)),
           q \in Reloc(prog2, i, Top.off, IsTextRow(prog1, i)) :
         RowsAt(prog1, r.destination) = {a} /\ RowsAt(prog2, q.destination) = {a}
  BY <1>1 DEF Leads
<1>6. SameTarget(prog1, prog2, r, q, TheSame(prog1, prog2)) <=> <<a, a>> \in TheSame(prog1, prog2)
  <2>1. SameTarget(prog1, prog2, r, q, TheSame(prog1, prog2)) <=>
           IF "local" \in {prog1.symbols[a].binding, prog2.symbols[a].binding}
           THEN <<a, a>> \in TheSame(prog1, prog2)
           ELSE SameReference(r, prog1.symbols[a], q, prog2.symbols[a])
    BY <1>5, TargetByRow, Zenon
  <2>. QED  BY <1>2, <2>1
<1>7. CASE result[1]
  <2>1. SameTarget(prog1, prog2, r, q, TheSame(prog1, prog2))
    BY <1>1, <1>6, <1>7 DEF Verdict
  <2>2. /\ \A r1 \in Reloc(prog1, i, Top.off, IsTextRow(prog1, i)) : r1 = r
        /\ \A r2 \in Reloc(prog2, i, Top.off, IsTextRow(prog1, i)) : r2 = q
    BY <1>4, <1>5, RelocIsOne
  <2>3. Targets(prog1, prog2, i, Top.off)
    BY <1>5, <2>1, <2>2 DEF Targets
  <2>4. Compared(prog1, prog2, i, Top.off, "relocated")
    BY <1>2, <1>3, <2>3 DEF Compared
  <2>5. GoTo(Top.off, "relocated")
    BY <1>7 DEF LocalCompared
  <2>. QED  BY <1>0, <1>2, <1>4, <2>4, <2>5, GoToKeeps
<1>8. CASE ~ result[1]
  <2>1. ~ SameTarget(prog1, prog2, r, q, TheSame(prog1, prog2))
    BY <1>1, <1>6, <1>8 DEF Verdict
  <2>2. PICK m \in Nat : Top.off = 4 * m
    BY <1>3 DEF Compared
  <2>3. ~ SameWord(prog1, prog2, i, i, 4 * m, IsTextRow(prog1, i), TheSame(prog1, prog2))
    BY <1>5, <2>1, <2>2 DEF SameWord
  <2>4. TypeOf(prog1, i) \in {"TEXT", "DATA"} /\ 4 * m < prog1.symbols[i].size
    BY <1>2, <1>3, <2>2 DEF Compared
  <2>5. <<i, i>> \notin TheSame(prog1, prog2)
    BY <1>4, <2>3, <2>4, WordDiffers
  <2>6. Return(FALSE)
    BY <1>8 DEF LocalCompared
  <2>. QED  BY <1>0, <1>2, <2>5, <2>6, ReturnKeeps
<1>. QED  BY <1>7, <1>8

LEMMA StepRelocated ==
    ASSUME EHere, CompareRelocated
    PROVE  ENext
<1>0. stack # <<>> /\ result = <<>> /\ Top.phase = "relocated" /\ "word" \in Phases
  BY DEF CompareRelocated, Phases
<1>1. PICK i \in DOMAIN prog1.symbols :
         Of(prog1, Top, i) /\ Compared(prog1, prog2, i, Top.off, "relocated")
  BY <1>0, TopIsOf
<1>2. /\ Top.off < prog1.symbols[i].size /\ Targets(prog1, prog2, i, Top.off)
      /\ TypeOf(prog1, i) \in {"TEXT", "DATA"}
  BY <1>1 DEF Compared
<1>3. /\ prog1 \in Programs /\ prog2 \in Programs /\ prog1.symbols = prog2.symbols
      /\ Top.off \in Nat
  BY <1>0, AlikeFacts, TopFacts
<1>4. SameWord(prog1, prog2, i, i, Top.off, IsTextRow(prog1, i), TheSame(prog1, prog2))
         <=> (IsText => \A r \in Relocs1 : SameMasked(r))
  <2>1. SameWord(prog1, prog2, i, i, Top.off, IsTextRow(prog1, i), TheSame(prog1, prog2)) <=>
           (IsTextRow(prog1, i) =>
               \A r1 \in Reloc(prog1, i, Top.off, IsTextRow(prog1, i)) :
                  Masked(prog1, prog2, i, Top.off, r1))
    BY <1>2, WordByTargets
  <2>2. /\ IsText = IsTextRow(prog1, i) /\ Relocs1 = Reloc(prog1, i, Top.off, IsTextRow(prog1, i))
        /\ \A r : SameMasked(r) = Masked(prog1, prog2, i, Top.off, r)
    BY <1>0, <1>1, TopReads
  <2>. QED  BY <2>1, <2>2
<1>5. CASE (IsText => \A r \in Relocs1 : SameMasked(r)) /\ GoTo(Top.off + 4, "word")
  <2>1. Top.off + 4 \in Nat /\ Compared(prog1, prog2, i, Top.off + 4, "word")
    BY <1>1, <1>3, <1>4, <1>5, NextWord
  <2>. QED  BY <1>0, <1>1, <1>5, <2>1, GoToKeeps
<1>6. CASE ~(IsText => \A r \in Relocs1 : SameMasked(r)) /\ Return(FALSE)
  <2>1. PICK m \in Nat : Top.off = 4 * m
    BY <1>1 DEF Compared
  <2>2. <<i, i>> \notin TheSame(prog1, prog2)
    BY <1>2, <1>3, <1>4, <1>6, <2>1, WordDiffers
  <2>. QED  BY <1>0, <1>1, <1>6, <2>2, ReturnKeeps
<1>. QED  BY <1>5, <1>6 DEF CompareRelocated

LEMMA StepExact == EInv /\ [Next]_vars => EInv'
<1>. SUFFICES ASSUME EInv, [Next]_vars PROVE EInv'
  OBVIOUS
<1>0. PInv /\ PInv'
  BY StepTypes DEF EInv
<1>p. prog1' = prog1 /\ prog2' = prog2
  BY DEF Next, NextSymbol, SymbolCompared, EndProgram, EnterSymbol, EnterFunction, EnterData,
         CompareWord, EndSymbol, CompareRelocations, LocalCompared, CompareRelocated, Finished,
         Return, GoTo, Abort, Recurse, vars
<1>. SUFFICES ASSUME LaidOutAlike(prog1, prog2) PROVE ENext
  BY <1>0, <1>p DEF EInv, ENext
<1>1. EHere
  BY <1>0 DEF EInv, EHere
<1>2. CASE UNCHANGED vars
  <2>1. stack' = stack /\ result' = result /\ row' = row /\ answer' = answer
    BY <1>2 DEF vars
  <2>. QED  BY <1>1, <2>1 DEF EHere, ENext
<1>. QED
  BY <1>1, <1>2, StepNextSymbol, StepSymbolCompared, StepEndProgram, StepEnter, StepWord,
     StepRelocations, StepLocalCompared, StepRelocated DEF Next, Finished

\* Of programs that are laid out alike, comparePrograms finds equal exactly those that
\* are the same, however the local symbols refer to each other.
THEOREM AnswerIsExact == Spec => []ExactWhenAlike
<1>1. Init => EInv
  <2>. SUFFICES ASSUME Init, LaidOutAlike(prog1, prog2)
                PROVE  EBody(prog1, prog2, stack, result, row, answer)
    BY InitTypes DEF EInv
  <2>1. stack = <<>> /\ result = <<>> /\ row = 1 /\ answer = "none" /\ prog2 \in Programs
    BY DEF Init
  <2>2. StackOK(prog1, prog2, stack, row)
    <3>1. Len(stack) = 0 /\ \A k \in 1..(Len(stack) - 1) : FALSE
      BY <2>1, NoFrames
    <3>. QED  BY <2>1, <3>1, NoFrames DEF StackOK
  <2>3. \A j \in DOMAIN prog2.symbols : ~(j < 1)
    BY <2>1, ProgramFacts
  <2>. QED  BY <2>1, <2>2, <2>3 DEF EBody, ResultOK, RowsOK, AnswerOK
<1>2. EInv => ExactWhenAlike
  <2>. SUFFICES ASSUME EInv, answer \in {"equal", "different"}, LaidOutAlike(prog1, prog2)
                PROVE  answer = "equal" <=> Equivalent(prog1, prog2)
    BY DEF ExactWhenAlike, LaidOutAlike
  <2>1. EHere
    BY DEF EInv, EHere
  <2>2. Equivalent(prog1, prog2) <=> AllSame(prog1, prog2)
    BY <2>1, AlikeFacts, EquivalentByNamesakes DEF AllSame
  <2>. QED  BY <2>1, <2>2, AlikeFacts DEF AnswerOK
<1>. QED  BY <1>1, <1>2, StepExact, PTL DEF Spec

=============================================================================
