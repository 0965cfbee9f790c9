--------------------------- MODULE ProjectProofs ---------------------------
(***************************************************************************)
(* Theorems about ProjectLifecycle, for all binaries, tables, triples and  *)
(* commands of every length.  They rest on two facts: tables grow at the   *)
(* end only, and an index answers with the first row of a key.             *)
(***************************************************************************)
EXTENDS ProjectLifecycle, SequenceTheorems, WellFoundedInduction, TLAPS

SymbolKeys(syms) == [i \in DOMAIN syms |-> Key(syms[i].location)]
RelocKeys(rels)  == [i \in DOMAIN rels |-> Key(rels[i].source)]

\* s has the rows of t at its front.
Extends(s, t) == Len(t) <= Len(s) /\ \A i \in 1..Len(t) : s[i] = t[i]

(***************************************************************************)
(* The inductive invariant.                                                *)
(***************************************************************************)
Importing == phase \in {"arguments", "labels", "relocs"}

\* What is still to come is of the triple the command is at.
TodoTyped ==
    /\ phase = "labels" =>
          at \in DOMAIN arguments /\ todo \subseteq arguments[at].labels
    /\ phase = "relocs" =>
          at \in DOMAIN arguments /\ todo \subseteq arguments[at].relocs

\* No command looks anything up, or stands at a triple, before it imports.
Unopened ==
    phase \in {"idle", "creating"} => index = Indices(<<>>, <<>>) /\ at = 1

\* An import has the tables of the file, and what it has pushed after them.
Opened ==
    Importing =>
        /\ file.readable
        /\ index = Indices(file.symbols, file.relocs)
        /\ Extends(symbols, file.symbols) /\ Extends(relocs, file.relocs)

\* What was created is in front, in the file or in what will be written.
CreatedKept ==
    /\ file.readable =>
          Extends(file.symbols, LoadedSymbols) /\ Extends(file.relocs, LoadedRelocs)
    /\ phase = "creating" =>
          ~file.readable /\ symbols = LoadedSymbols /\ relocs = LoadedRelocs
    /\ phase = "saving" =>
          /\ ~file.readable /\ at > Len(arguments)
          /\ Extends(symbols, LoadedSymbols) /\ Extends(relocs, LoadedRelocs)

\* The tables have a row for a label or a relocation.
HasLabel(t, l, syms) ==
    l.location.binary = t.binary /\ l.type # "LABEL" =>
        \E i \in DOMAIN syms : Key(syms[i].location) = Key(l.location)
HasReloc(r, rels) == \E i \in DOMAIN rels : Key(rels[i].source) = Key(r.source)

\* The triples before the one at hand are imported, and of that one what is
\* no longer to be done.
Progress ==
    /\ Importing \/ phase = "saving" =>
          \A n \in DOMAIN arguments : n < at =>
              /\ \A l \in arguments[n].labels : HasLabel(arguments[n], l, symbols)
              /\ \A r \in arguments[n].relocs : HasReloc(r, relocs)
    /\ phase \in {"labels", "relocs"} =>
          \A l \in arguments[at].labels :
              HasLabel(arguments[at], l, symbols) \/ (phase = "labels" /\ l \in todo)
    /\ phase = "relocs" =>
          \A r \in arguments[at].relocs : HasReloc(r, relocs) \/ r \in todo

PInv ==
    /\ ProjectTypeOK /\ TodoTyped /\ Unopened /\ Opened /\ CreatedKept
    /\ AnswersStand /\ Progress /\ Idempotent

-----------------------------------------------------------------------------
(* Tables and their indices.                                               *)

(* A non-empty set of rows has a first one.                                *)
LEMMA FirstRowIsLeast ==
    ASSUME NEW S, S \subseteq Nat, S # {}
    PROVE  FirstRow(S) \in S /\ \A j \in S : FirstRow(S) <= j
<1> DEFINE R == {p \in Nat \X Nat : p[1] < p[2]}
<1>1. IsWellFoundedOn(R, Nat)
  <2>1. OpToRel(<, Nat) = R
    BY DEF OpToRel
  <2>. QED  BY <2>1, NatLessThanWellFounded
<1>2. PICK x \in S : \A y \in S : <<y, x>> \notin R
  <2>. HIDE DEF R
  <2>. QED  BY <1>1, WFMin
<1>3. ASSUME NEW y \in S
      PROVE  x <= y
  <2>1. x \in Nat /\ y \in Nat
    OBVIOUS
  <2>2. y < x => <<y, x>> \in R
    BY <2>1
  <2> HIDE DEF R
  <2>3. <<y, x>> \notin R
    BY <1>2
  <2>. QED  BY <2>1, <2>2, <2>3
<1>. QED  BY <1>3 DEF FirstRow

(* An index made for a table has the keys of its rows, and answers with    *)
(* the first row of each.                                                  *)
LEMMA LocationIndexFirst ==
    ASSUME NEW syms \in Seq(Symbol)
    PROVE  /\ DOMAIN LocationIndex(syms) = {Key(syms[i].location) : i \in DOMAIN syms}
           /\ \A k \in DOMAIN LocationIndex(syms) :
                 IsFirst(SymbolKeys(syms), k, LocationIndex(syms)[k])
<1>1. DOMAIN syms = 1..Len(syms) /\ Len(syms) \in Nat
  BY LenProperties
<1>2. DOMAIN LocationIndex(syms) = {Key(syms[i].location) : i \in DOMAIN syms}
  BY DEF LocationIndex
<1>3. ASSUME NEW k \in DOMAIN LocationIndex(syms)
      PROVE  IsFirst(SymbolKeys(syms), k, LocationIndex(syms)[k])
  <2> DEFINE S == {i \in DOMAIN syms : Key(syms[i].location) = k}
  <2>1. S \subseteq Nat /\ S # {}
    BY <1>1, <1>2
  <2>2. LocationIndex(syms)[k] = FirstRow(S)
    BY <1>2 DEF LocationIndex
  <2>3. PICK x : x = LocationIndex(syms)[k]
    OBVIOUS
  <2>4. x \in S /\ \A j \in S : x <= j
    BY <2>1, <2>2, <2>3, FirstRowIsLeast
  <2>5. \A j \in DOMAIN SymbolKeys(syms) : j < x => SymbolKeys(syms)[j] # k
    BY <1>1, <2>4 DEF SymbolKeys
  <2>. QED  BY <2>3, <2>4, <2>5 DEF IsFirst, SymbolKeys
<1>. QED  BY <1>2, <1>3

LEMMA SourceIndexFirst ==
    ASSUME NEW rels \in Seq(Relocation)
    PROVE  /\ DOMAIN SourceIndex(rels) = {Key(rels[i].source) : i \in DOMAIN rels}
           /\ \A k \in DOMAIN SourceIndex(rels) :
                 IsFirst(RelocKeys(rels), k, SourceIndex(rels)[k])
<1>1. DOMAIN rels = 1..Len(rels) /\ Len(rels) \in Nat
  BY LenProperties
<1>2. DOMAIN SourceIndex(rels) = {Key(rels[i].source) : i \in DOMAIN rels}
  BY DEF SourceIndex
<1>3. ASSUME NEW k \in DOMAIN SourceIndex(rels)
      PROVE  IsFirst(RelocKeys(rels), k, SourceIndex(rels)[k])
  <2> DEFINE S == {i \in DOMAIN rels : Key(rels[i].source) = k}
  <2>1. S \subseteq Nat /\ S # {}
    BY <1>1, <1>2
  <2>2. SourceIndex(rels)[k] = FirstRow(S)
    BY <1>2 DEF SourceIndex
  <2>3. PICK x : x = SourceIndex(rels)[k]
    OBVIOUS
  <2>4. x \in S /\ \A j \in S : x <= j
    BY <2>1, <2>2, <2>3, FirstRowIsLeast
  <2>5. \A j \in DOMAIN RelocKeys(rels) : j < x => RelocKeys(rels)[j] # k
    BY <1>1, <2>4 DEF RelocKeys
  <2>. QED  BY <2>3, <2>4, <2>5 DEF IsFirst, RelocKeys
<1>. QED  BY <1>2, <1>3

(* A lookup by an index made for the table finds a row exactly when there  *)
(* is one.                                                                 *)
LEMMA FoundByLocation ==
    ASSUME NEW syms \in Seq(Symbol), NEW k
    PROVE  Lookup(syms, LocationIndex(syms), k) # {}
             <=> \E i \in DOMAIN syms : Key(syms[i].location) = k
BY LocationIndexFirst DEF Lookup

LEMMA FoundBySource ==
    ASSUME NEW rels \in Seq(Relocation), NEW k
    PROVE  Lookup(rels, SourceIndex(rels), k) # {}
             <=> \E i \in DOMAIN rels : Key(rels[i].source) = k
BY SourceIndexFirst DEF Lookup

(* Appending leaves the rows that are there where they are.                *)
LEMMA AppendExtends ==
    ASSUME NEW S, NEW s \in Seq(S), NEW e \in S
    PROVE  /\ Append(s, e) \in Seq(S) /\ Extends(Append(s, e), s)
           /\ Len(Append(s, e)) = Len(s) + 1 /\ Append(s, e)[Len(s) + 1] = e
BY AppendProperties, LenProperties DEF Extends

LEMMA ExtendsTrans ==
    ASSUME NEW S, NEW s \in Seq(S), NEW t \in Seq(S), NEW u \in Seq(S),
           Extends(s, t), Extends(t, u)
    PROVE  Extends(s, u)
BY LenProperties DEF Extends

LEMMA ExtendsRefl ==
    ASSUME NEW S, NEW s \in Seq(S)
    PROVE  Extends(s, s)
BY LenProperties DEF Extends

(* The first row of a key stays the first when rows come after it.         *)
LEMMA FirstStays ==
    ASSUME NEW m \in Nat, NEW n \in Nat, m <= n,
           NEW ks, DOMAIN ks = 1..m, NEW ls, DOMAIN ls = 1..n,
           \A j \in 1..m : ls[j] = ks[j],
           NEW k, NEW i, IsFirst(ks, k, i)
    PROVE  IsFirst(ls, k, i)
BY DEF IsFirst

(* There is one first row of a key.                                        *)
LEMMA FirstIsUnique ==
    ASSUME NEW n \in Nat, NEW ks, DOMAIN ks = 1..n,
           NEW k, NEW i, NEW j, IsFirst(ks, k, i), IsFirst(ks, k, j)
    PROVE  i = j
BY DEF IsFirst

LEMMA SymbolFirstStays ==
    ASSUME NEW s \in Seq(Symbol), NEW t \in Seq(Symbol), Extends(s, t),
           NEW k, NEW i, IsFirst(SymbolKeys(t), k, i)
    PROVE  IsFirst(SymbolKeys(s), k, i)
<1>1. Len(s) \in Nat /\ Len(t) \in Nat /\ DOMAIN s = 1..Len(s) /\ DOMAIN t = 1..Len(t)
  BY LenProperties
<1>2. \A j \in 1..Len(t) : SymbolKeys(s)[j] = SymbolKeys(t)[j]
  BY <1>1 DEF Extends, SymbolKeys
<1>3. DOMAIN SymbolKeys(s) = 1..Len(s) /\ DOMAIN SymbolKeys(t) = 1..Len(t)
  BY <1>1 DEF SymbolKeys
<1>. QED  BY <1>1, <1>2, <1>3, FirstStays DEF Extends

LEMMA RelocFirstStays ==
    ASSUME NEW s \in Seq(Relocation), NEW t \in Seq(Relocation), Extends(s, t),
           NEW k, NEW i, IsFirst(RelocKeys(t), k, i)
    PROVE  IsFirst(RelocKeys(s), k, i)
<1>1. Len(s) \in Nat /\ Len(t) \in Nat /\ DOMAIN s = 1..Len(s) /\ DOMAIN t = 1..Len(t)
  BY LenProperties
<1>2. \A j \in 1..Len(t) : RelocKeys(s)[j] = RelocKeys(t)[j]
  BY <1>1 DEF Extends, RelocKeys
<1>3. DOMAIN RelocKeys(s) = 1..Len(s) /\ DOMAIN RelocKeys(t) = 1..Len(t)
  BY <1>1 DEF RelocKeys
<1>. QED  BY <1>1, <1>2, <1>3, FirstStays DEF Extends

(* An answer stays when rows are appended, and the index made anew.        *)
LEMMA AnswersKept ==
    ASSUME NEW s \in Seq(Symbol), NEW t \in Seq(Symbol), Extends(s, t),
           NEW k, Lookup(t, LocationIndex(t), k) # {}
    PROVE  Lookup(s, LocationIndex(s), k) = Lookup(t, LocationIndex(t), k)
<1>1. Len(s) \in Nat /\ Len(t) \in Nat /\ DOMAIN s = 1..Len(s) /\ DOMAIN t = 1..Len(t)
  BY LenProperties
<1>2. PICK i : i = LocationIndex(t)[k]
  OBVIOUS
<1>3. k \in DOMAIN LocationIndex(t)
  BY DEF Lookup
<1>4. IsFirst(SymbolKeys(t), k, i)
  BY <1>2, <1>3, LocationIndexFirst
<1>5. IsFirst(SymbolKeys(s), k, i)
  BY <1>4, SymbolFirstStays
<1>6. k \in DOMAIN LocationIndex(s)
  <2>1. i \in DOMAIN s /\ Key(s[i].location) = k
    BY <1>5 DEF IsFirst, SymbolKeys
  <2>. QED  BY <2>1, LocationIndexFirst
<1>7. DOMAIN SymbolKeys(s) = 1..Len(s)
  BY <1>1 DEF SymbolKeys
<1>8. LocationIndex(s)[k] = i
  BY <1>1, <1>5, <1>6, <1>7, LocationIndexFirst, FirstIsUnique
<1>9. s[i] = t[i]
  BY <1>1, <1>4 DEF IsFirst, SymbolKeys, Extends
<1>. QED  BY <1>2, <1>3, <1>6, <1>8, <1>9 DEF Lookup

(* What is imported, without an index.                                     *)
LEMMA ImportedMeans ==
    ASSUME NEW t \in Triple, NEW syms \in Seq(Symbol), NEW rels \in Seq(Relocation)
    PROVE  Imported(t, syms, rels) <=>
              /\ \A l \in t.labels : HasLabel(t, l, syms)
              /\ \A r \in t.relocs : HasReloc(r, rels)
BY FoundByLocation, FoundBySource
   DEF Imported, HasLabel, HasReloc, lookupByLocation, lookupBySource

(* What a table has, a table that extends it has.                          *)
LEMMA HasLabelStays ==
    ASSUME NEW t, NEW l, NEW s \in Seq(Symbol), NEW u \in Seq(Symbol),
           Extends(u, s), HasLabel(t, l, s)
    PROVE  HasLabel(t, l, u)
BY LenProperties DEF HasLabel, Extends

LEMMA HasRelocStays ==
    ASSUME NEW r, NEW s \in Seq(Relocation), NEW u \in Seq(Relocation),
           Extends(u, s), HasReloc(r, s)
    PROVE  HasReloc(r, u)
BY LenProperties DEF HasReloc, Extends

-----------------------------------------------------------------------------
(* The steps.                                                              *)

(* The empty tables have empty indices, which answer nothing.              *)
LEMMA EmptyIndices ==
    /\ <<>> \in Seq(Symbol) /\ <<>> \in Seq(Relocation)
    /\ DOMAIN LocationIndex(<<>>) = {} /\ DOMAIN SourceIndex(<<>>) = {}
<1>1. <<>> \in Seq(Symbol) /\ <<>> \in Seq(Relocation) /\ DOMAIN <<>> = {}
  BY EmptySeq
<1>. QED  BY <1>1 DEF LocationIndex, SourceIndex

(* A process that ends leaves its invariants behind, with any file that    *)
(* has the rows of its creation.                                           *)
LEMMA ExitPreserves ==
    ASSUME PInv, Exit,
           file' \in [readable : BOOLEAN, symbols : Seq(Symbol), relocs : Seq(Relocation)],
           file'.readable => Extends(file'.symbols, LoadedSymbols)
                               /\ Extends(file'.relocs, LoadedRelocs)
    PROVE  PInv'
<1> USE DEF Exit
<1>1. ProjectTypeOK'
  BY EmptyIndices, EmptySeq DEF PInv, ProjectTypeOK, Phases
<1>2. AnswersStand'
  BY EmptyIndices DEF AnswersStand, Indices
<1>. QED
  BY <1>1, <1>2 DEF PInv, TodoTyped, Unopened, Opened, Importing, CreatedKept, Progress, Idempotent

(* A label is new when the index, old as it is, does not know its place;   *)
(* the table then has no row for it, or one pushed since.                  *)
LEMMA KnownLabel ==
    ASSUME PInv, phase = "labels", NEW l \in todo, ~IsNewLabel(l)
    PROVE  HasLabel(arguments[at], l, symbols)
<1>1. CASE l.location.binary = arguments[at].binary /\ l.type # "LABEL"
  <2>1. l.type \in {"DATA", "FUNCTION"}
    <3>1. l \in Label
      BY ConstantsOK, ElementOfSeq DEF PInv, TodoTyped, ProjectTypeOK, Triple
    <3>. QED  BY <1>1, <3>1 DEF Label
  <2>2. Key(l.location) \in DOMAIN index.location
    BY <1>1, <2>1 DEF IsNewLabel, lookupByLocation, Lookup
  <2>3. IsFirst(SymbolKeys(symbols), Key(l.location), index.location[Key(l.location)])
    BY <2>2 DEF PInv, AnswersStand, SymbolKeys
  <2>. QED  BY <2>3 DEF HasLabel, IsFirst, SymbolKeys
<1>2. CASE ~(l.location.binary = arguments[at].binary /\ l.type # "LABEL")
  BY <1>2 DEF HasLabel
<1>. QED  BY <1>1, <1>2

LEMMA KnownReloc ==
    ASSUME PInv, NEW r, ~IsNewReloc(r)
    PROVE  HasReloc(r, relocs)
<1>1. Key(r.source) \in DOMAIN index.source
  BY DEF IsNewReloc, lookupBySource, Lookup
<1>2. IsFirst(RelocKeys(relocs), Key(r.source), index.source[Key(r.source)])
  BY <1>1 DEF PInv, AnswersStand, RelocKeys
<1>. QED  BY <1>2 DEF HasReloc, IsFirst, RelocKeys

(* The index stays right when the tables grow under it.                    *)
LEMMA GrownTables ==
    ASSUME PInv, UNCHANGED index,
           symbols' \in Seq(Symbol), relocs' \in Seq(Relocation),
           Extends(symbols', symbols), Extends(relocs', relocs)
    PROVE  AnswersStand'
<1>1. symbols \in Seq(Symbol) /\ relocs \in Seq(Relocation)
  BY DEF PInv, ProjectTypeOK
<1>2. ASSUME NEW k \in DOMAIN index.location
      PROVE  IsFirst(SymbolKeys(symbols'), k, index.location[k])
  BY <1>1, <1>2, SymbolFirstStays DEF PInv, AnswersStand, SymbolKeys
<1>3. ASSUME NEW k \in DOMAIN index.source
      PROVE  IsFirst(RelocKeys(relocs'), k, index.source[k])
  BY <1>1, <1>3, RelocFirstStays DEF PInv, AnswersStand, RelocKeys
<1>. QED  BY <1>2, <1>3 DEF AnswersStand, SymbolKeys, RelocKeys

(* createProject and openProject.                                          *)
LEMMA CreatePreserves ==
    ASSUME PInv, Create
    PROVE  PInv'
<1> USE DEF Create, run
<1>1. ProjectTypeOK'
  BY ConstantsOK, EmptySeq DEF PInv, ProjectTypeOK, Phases, Unreadable
<1>2. AnswersStand'
  BY EmptyIndices DEF PInv, Unopened, AnswersStand, Indices
<1>. QED
  BY <1>1, <1>2 DEF PInv, TodoTyped, Unopened, Opened, Importing, CreatedKept, Progress,
                    Idempotent, Unreadable

LEMMA ImportPreserves ==
    ASSUME PInv, Import
    PROVE  PInv'
<1> USE DEF Import
<1>1. arguments' \in Seq(Triples) /\ at = 1 /\ Len(arguments') \in Nat
      /\ DOMAIN arguments' = 1..Len(arguments')
  <2>1. PICK n \in 0..MaxTriples : arguments' \in [1..n -> Triples]
    OBVIOUS
  <2>2. n \in Nat
    BY ConstantsOK
  <2>3. arguments' \in Seq(Triples)
    BY <2>1, <2>2, IsASeq
  <2>. QED  BY <2>3, LenProperties DEF PInv, Unopened
<1>2. symbols' \in Seq(Symbol) /\ relocs' \in Seq(Relocation)
  BY DEF PInv, ProjectTypeOK
<1>3. ProjectTypeOK'
  BY <1>1, <1>2 DEF PInv, ProjectTypeOK, Phases
<1>4. AnswersStand'
  BY <1>2, LocationIndexFirst, SourceIndexFirst
     DEF AnswersStand, Indices, SymbolKeys, RelocKeys
<1>5. Opened'
  BY <1>2, ExtendsRefl DEF Opened, Importing
<1>6. Progress'
  BY <1>1 DEF Progress
<1>. QED
  BY <1>3, <1>4, <1>5, <1>6 DEF PInv, TodoTyped, Unopened, CreatedKept, Idempotent

(* saveProject: the file is truncated, then written.                       *)
LEMMA SavePreserves ==
    ASSUME PInv, Save
    PROVE  PInv'
<1> USE DEF Save, tables, run
<1>1. ProjectTypeOK'
  BY EmptySeq DEF PInv, ProjectTypeOK, Phases, Unreadable
<1>2. AnswersStand'
  BY DEF PInv, AnswersStand
<1>3. Extends(symbols, LoadedSymbols) /\ Extends(relocs, LoadedRelocs)
  BY ConstantsOK, ExtendsTrans
     DEF PInv, Opened, CreatedKept, Importing, ProjectTypeOK
<1>4. CreatedKept'
  BY <1>3 DEF CreatedKept, Unreadable
<1>5. Progress'
  BY DEF PInv, Progress, Importing
<1>. QED
  BY <1>1, <1>2, <1>4, <1>5 DEF PInv, TodoTyped, Unopened, Opened, Importing, Idempotent

LEMMA WritePreserves ==
    ASSUME PInv, Write
    PROVE  PInv'
<1>1. file' \in [readable : BOOLEAN, symbols : Seq(Symbol), relocs : Seq(Relocation)]
  BY DEF Write, Written, PInv, ProjectTypeOK
<1>2. Extends(file'.symbols, LoadedSymbols) /\ Extends(file'.relocs, LoadedRelocs)
  BY ConstantsOK, ExtendsRefl DEF Write, Written, PInv, CreatedKept
<1>. QED  BY <1>1, <1>2, ExitPreserves DEF Write

LEMMA DeathPreserves ==
    ASSUME PInv, Exit, UNCHANGED file
    PROVE  PInv'
BY ExitPreserves DEF PInv, ProjectTypeOK, CreatedKept

(* The triples, one after the other.                                       *)
LEMMA ArgumentsTyped ==
    ASSUME PInv
    PROVE  /\ DOMAIN arguments = 1..Len(arguments) /\ Len(arguments) \in Nat /\ at \in Nat
           /\ \A n \in DOMAIN arguments : arguments[n] \in Triple
BY ConstantsOK, LenProperties, ElementOfSeq DEF PInv, ProjectTypeOK

LEMMA BeginTriplePreserves ==
    ASSUME PInv, BeginTriple
    PROVE  PInv'
<1> USE DEF BeginTriple, tables
<1>1. at \in DOMAIN arguments
  BY ArgumentsTyped DEF PInv, ProjectTypeOK
<1>2. ProjectTypeOK'
  BY DEF PInv, ProjectTypeOK, Phases
<1>3. AnswersStand'
  BY DEF PInv, AnswersStand
<1>4. Opened' /\ CreatedKept'
  BY DEF PInv, Opened, CreatedKept, Importing
<1>5. Progress'
  BY <1>1 DEF PInv, Progress, Importing
<1>. QED  BY <1>1, <1>2, <1>3, <1>4, <1>5 DEF PInv, TodoTyped, Unopened, Idempotent

LEMMA EndLabelsPreserves ==
    ASSUME PInv, EndLabels
    PROVE  PInv'
<1> USE DEF EndLabels, tables
<1>1. ProjectTypeOK'
  BY DEF PInv, ProjectTypeOK, Phases
<1>2. AnswersStand'
  BY DEF PInv, AnswersStand
<1>3. Opened' /\ CreatedKept'
  BY DEF PInv, Opened, CreatedKept, Importing
<1>4. Progress'
  BY DEF PInv, Progress, Importing
<1>. QED  BY <1>1, <1>2, <1>3, <1>4 DEF PInv, TodoTyped, Unopened, Idempotent

LEMMA EndTriplePreserves ==
    ASSUME PInv, EndTriple
    PROVE  PInv'
<1> USE DEF EndTriple, tables
<1>1. at \in DOMAIN arguments
  BY DEF PInv, TodoTyped
<1>2. ProjectTypeOK'
  BY <1>1, ArgumentsTyped DEF PInv, ProjectTypeOK, Phases
<1>3. AnswersStand'
  BY DEF PInv, AnswersStand
<1>4. Opened' /\ CreatedKept'
  BY DEF PInv, Opened, CreatedKept, Importing
<1>5. Progress'
  <2>1. ASSUME NEW n \in DOMAIN arguments, n < at'
        PROVE  /\ \A l \in arguments[n].labels : HasLabel(arguments[n], l, symbols)
               /\ \A r \in arguments[n].relocs : HasReloc(r, relocs)
    <3>1. n < at \/ n = at
      BY <1>1, <2>1, ArgumentsTyped
    <3>2. CASE n < at
      BY <3>2 DEF PInv, Progress, Importing
    <3>3. CASE n = at
      BY <3>3 DEF PInv, Progress
    <3>. QED  BY <3>1, <3>2, <3>3
  <2>. QED  BY <2>1 DEF Progress
<1>. QED  BY <1>2, <1>3, <1>4, <1>5 DEF PInv, TodoTyped, Unopened, Idempotent

(* A label or a relocation: the tables grow by one row or not at all.      *)
LEMMA ImportLabelPreserves ==
    ASSUME PInv, ImportLabel
    PROVE  PInv'
<1> USE DEF ImportLabel
<1>1. PICK l \in todo :
          /\ symbols' = IF IsNewLabel(l) THEN Append(symbols, NewSymbol(l)) ELSE symbols
          /\ todo' = todo \ {l}
  OBVIOUS
<1>2. /\ at \in DOMAIN arguments /\ todo \subseteq arguments[at].labels
      /\ symbols \in Seq(Symbol) /\ relocs \in Seq(Relocation)
      /\ file.symbols \in Seq(Symbol) /\ file.relocs \in Seq(Relocation)
  BY DEF PInv, TodoTyped, ProjectTypeOK
<1>3. arguments[at] \in Triple /\ l \in Label
  BY <1>2, ArgumentsTyped DEF Triple
<1>4. NewSymbol(l) \in Symbol
  BY <1>3 DEF NewSymbol, Symbol, Label, PInv, ProjectTypeOK
<1>5. symbols' \in Seq(Symbol) /\ Extends(symbols', symbols)
  BY <1>1, <1>2, <1>4, AppendExtends, ExtendsRefl
<1>6. HasLabel(arguments[at], l, symbols')
  <2>1. CASE IsNewLabel(l)
    <3>1. /\ Len(symbols) + 1 \in DOMAIN symbols'
          /\ symbols'[Len(symbols) + 1] = NewSymbol(l)
      BY <1>1, <1>2, <1>4, <2>1, AppendExtends, LenProperties
    <3>. QED  BY <3>1 DEF HasLabel, NewSymbol
  <2>2. CASE ~IsNewLabel(l)
    BY <1>1, <2>2, KnownLabel
  <2>. QED  BY <2>1, <2>2
<1>7. ProjectTypeOK'
  BY <1>5 DEF PInv, ProjectTypeOK
<1>8. TodoTyped'
  BY <1>1, <1>2 DEF TodoTyped
<1>9. AnswersStand'
  BY <1>2, <1>5, ExtendsRefl, GrownTables
<1>10. Opened'
  BY <1>2, <1>5, ExtendsTrans DEF PInv, Opened, Importing
<1>11. Progress'
  <2>1. ASSUME NEW n \in DOMAIN arguments, n < at
        PROVE  /\ \A m \in arguments[n].labels : HasLabel(arguments[n], m, symbols')
               /\ \A r \in arguments[n].relocs : HasReloc(r, relocs)
    BY <1>2, <1>5, <2>1, HasLabelStays DEF PInv, Progress, Importing
  <2>2. ASSUME NEW m \in arguments[at].labels
        PROVE  HasLabel(arguments[at], m, symbols') \/ m \in todo'
    BY <1>1, <1>2, <1>5, <1>6, HasLabelStays DEF PInv, Progress
  <2>. QED  BY <2>1, <2>2 DEF Progress
<1>12. Idempotent'
  <2>1. SUFFICES ASSUME \A n \in DOMAIN arguments :
                            Imported(arguments[n], file.symbols, file.relocs)
                 PROVE  symbols' = file.symbols /\ relocs = file.relocs
    BY DEF Idempotent
  <2>2. symbols = file.symbols /\ relocs = file.relocs
    BY <2>1 DEF PInv, Idempotent
  <2>3. ~IsNewLabel(l)
    <3>1. index.location = LocationIndex(file.symbols)
      BY DEF PInv, Opened, Importing, Indices
    <3>2. l \in arguments[at].labels
      BY <1>2
    <3>. QED
      BY <1>2, <2>1, <2>2, <3>1, <3>2 DEF Imported, IsNewLabel
  <2>. QED  BY <1>1, <2>2, <2>3
<1>. QED
  BY <1>7, <1>8, <1>9, <1>10, <1>11, <1>12 DEF PInv, Unopened, CreatedKept

LEMMA ImportRelocPreserves ==
    ASSUME PInv, ImportReloc
    PROVE  PInv'
<1> USE DEF ImportReloc
<1>1. PICK r \in todo :
          /\ relocs' = IF IsNewReloc(r) THEN Append(relocs, r) ELSE relocs
          /\ todo' = todo \ {r}
  OBVIOUS
<1>2. /\ at \in DOMAIN arguments /\ todo \subseteq arguments[at].relocs
      /\ symbols \in Seq(Symbol) /\ relocs \in Seq(Relocation)
      /\ file.symbols \in Seq(Symbol) /\ file.relocs \in Seq(Relocation)
  BY DEF PInv, TodoTyped, ProjectTypeOK
<1>3. arguments[at] \in Triple /\ r \in Relocation
  BY <1>2, ArgumentsTyped DEF Triple
<1>4. relocs' \in Seq(Relocation) /\ Extends(relocs', relocs)
  BY <1>1, <1>2, <1>3, AppendExtends, ExtendsRefl
<1>5. HasReloc(r, relocs')
  <2>1. CASE IsNewReloc(r)
    <3>1. Len(relocs) + 1 \in DOMAIN relocs' /\ relocs'[Len(relocs) + 1] = r
      BY <1>1, <1>2, <1>3, <2>1, AppendExtends, LenProperties
    <3>. QED  BY <3>1 DEF HasReloc
  <2>2. CASE ~IsNewReloc(r)
    BY <1>1, <2>2, KnownReloc
  <2>. QED  BY <2>1, <2>2
<1>6. ProjectTypeOK'
  BY <1>4 DEF PInv, ProjectTypeOK
<1>7. TodoTyped'
  BY <1>1, <1>2 DEF TodoTyped
<1>8. AnswersStand'
  BY <1>2, <1>4, ExtendsRefl, GrownTables
<1>9. Opened'
  BY <1>2, <1>4, ExtendsTrans DEF PInv, Opened, Importing
<1>10. Progress'
  <2>1. ASSUME NEW n \in DOMAIN arguments, n < at
        PROVE  /\ \A m \in arguments[n].labels : HasLabel(arguments[n], m, symbols)
               /\ \A q \in arguments[n].relocs : HasReloc(q, relocs')
    BY <1>2, <1>4, <2>1, HasRelocStays DEF PInv, Progress, Importing
  <2>2. \A m \in arguments[at].labels : HasLabel(arguments[at], m, symbols)
    BY DEF PInv, Progress
  <2>3. ASSUME NEW q \in arguments[at].relocs
        PROVE  HasReloc(q, relocs') \/ q \in todo'
    BY <1>1, <1>2, <1>4, <1>5, HasRelocStays DEF PInv, Progress
  <2>. QED  BY <2>1, <2>2, <2>3 DEF Progress
<1>11. Idempotent'
  <2>1. SUFFICES ASSUME \A n \in DOMAIN arguments :
                            Imported(arguments[n], file.symbols, file.relocs)
                 PROVE  symbols = file.symbols /\ relocs' = file.relocs
    BY DEF Idempotent
  <2>2. symbols = file.symbols /\ relocs = file.relocs
    BY <2>1 DEF PInv, Idempotent
  <2>3. ~IsNewReloc(r)
    <3>1. index.source = SourceIndex(file.relocs)
      BY DEF PInv, Opened, Importing, Indices
    <3>2. r \in arguments[at].relocs
      BY <1>2
    <3>. QED
      BY <1>2, <2>1, <2>2, <3>1, <3>2 DEF Imported, IsNewReloc
  <2>. QED  BY <1>1, <2>2, <2>3
<1>. QED
  BY <1>6, <1>7, <1>8, <1>9, <1>10, <1>11 DEF PInv, Unopened, CreatedKept

-----------------------------------------------------------------------------
(* The theorems.                                                           *)

LEMMA InitPInv ==
    ASSUME Init
    PROVE  PInv
<1> USE DEF Init, Unreadable
<1>1. ProjectTypeOK
  BY EmptySeq DEF ProjectTypeOK, Phases
<1>2. AnswersStand
  BY EmptyIndices DEF AnswersStand, Indices
<1>. QED
  BY <1>1, <1>2 DEF PInv, TodoTyped, Unopened, Opened, Importing, CreatedKept, Progress, Idempotent

LEMMA NextPInv ==
    ASSUME PInv, [Next]_vars
    PROVE  PInv'
<1>1. CASE Create
  BY <1>1, CreatePreserves
<1>2. CASE Import
  BY <1>2, ImportPreserves
<1>3. CASE Save
  BY <1>3, SavePreserves
<1>4. CASE Write
  BY <1>4, WritePreserves
<1>5. CASE Crash \/ Abort
  BY <1>5, DeathPreserves DEF Crash, Abort
<1>6. CASE BeginTriple
  BY <1>6, BeginTriplePreserves
<1>7. CASE ImportLabel
  BY <1>7, ImportLabelPreserves
<1>8. CASE EndLabels
  BY <1>8, EndLabelsPreserves
<1>9. CASE ImportReloc
  BY <1>9, ImportRelocPreserves
<1>10. CASE EndTriple
  BY <1>10, EndTriplePreserves
<1>11. CASE UNCHANGED vars
  BY <1>11 DEF vars, tables, run, PInv, ProjectTypeOK, TodoTyped, Unopened, Opened, Importing,
              CreatedKept, AnswersStand, Progress, Idempotent
<1>. QED
  BY <1>1, <1>2, <1>3, <1>4, <1>5, <1>6, <1>7, <1>8, <1>9, <1>10, <1>11 DEF Next

(* The inductive invariant holds throughout.                               *)
THEOREM ProjectInductive == Spec => []PInv
<1>1. Init => PInv
  BY InitPInv
<1>2. PInv /\ [Next]_vars => PInv'
  BY NextPInv
<1>. QED  BY <1>1, <1>2, PTL DEF Spec

(* The tables, the file and the command have their types.                  *)
THEOREM ProjectTyped == Spec => []ProjectTypeOK
<1>1. PInv => ProjectTypeOK
  BY DEF PInv
<1>. QED  BY <1>1, ProjectInductive, PTL

(* The index that is made when a project is opened answers with the first  *)
(* row of a key for as long as the command runs, whatever it pushes.       *)
THEOREM IndexAnswersStand == Spec => []AnswersStand
<1>1. PInv => AnswersStand
  BY DEF PInv
<1>. QED  BY <1>1, ProjectInductive, PTL

(* Importing again what a project has adds no row.                         *)
THEOREM ImportIdempotent == Spec => []Idempotent
<1>1. PInv => Idempotent
  BY DEF PInv
<1>. QED  BY <1>1, ProjectInductive, PTL

(* A project that is saved has every label and relocation of the command.  *)
THEOREM EverythingSaved == Spec => []SavesAll
<1>1. PInv => SavesAll
  <2>1. SUFFICES ASSUME PInv, phase = "saving", NEW n \in DOMAIN arguments
                 PROVE  Imported(arguments[n], symbols, relocs)
    BY DEF SavesAll
  <2>2. n < at
    BY <2>1, ArgumentsTyped DEF PInv, CreatedKept
  <2>3. /\ \A l \in arguments[n].labels : HasLabel(arguments[n], l, symbols)
        /\ \A r \in arguments[n].relocs : HasReloc(r, relocs)
    BY <2>1, <2>2 DEF PInv, Progress
  <2>4. arguments[n] \in Triple /\ symbols \in Seq(Symbol) /\ relocs \in Seq(Relocation)
    BY <2>1, ArgumentsTyped DEF PInv, ProjectTypeOK
  <2>. QED  BY <2>3, <2>4, ImportedMeans
<1>. QED  BY <1>1, ProjectInductive, PTL

(* What a project was created with stays in front of its tables, whatever  *)
(* is imported and whichever command dies.                                 *)
THEOREM CreatedStays == Spec => []CreatedRowsStay
<1>1. PInv => CreatedRowsStay
  <2>1. SUFFICES ASSUME PInv, file.readable
                 PROVE  CreatedRowsStay
    BY DEF CreatedRowsStay
  <2>2. Extends(file.symbols, LoadedSymbols) /\ Extends(file.relocs, LoadedRelocs)
    BY <2>1 DEF PInv, CreatedKept
  <2>3. file.symbols \in Seq(Symbol) /\ file.relocs \in Seq(Relocation)
    BY <2>1 DEF PInv, ProjectTypeOK
  <2>4. SubSeq(file.symbols, 1, Len(LoadedSymbols)) = LoadedSymbols
    BY <2>2, <2>3, ConstantsOK, LenProperties, SubSeqProperties, SeqEqual DEF Extends
  <2>5. SubSeq(file.relocs, 1, Len(LoadedRelocs)) = LoadedRelocs
    BY <2>2, <2>3, ConstantsOK, LenProperties, SubSeqProperties, SeqEqual DEF Extends
  <2>. QED  BY <2>2, <2>4, <2>5 DEF CreatedRowsStay, Extends
<1>. QED  BY <1>1, ProjectInductive, PTL

-----------------------------------------------------------------------------
(* The refinement: the project file is a store in which a place keeps its  *)
(* entry.                                                                  *)

LEMMA AnswersOfNothing == Answers(<<>>) = Store!Nothing
BY EmptyIndices DEF Answers, Lookup, Store!Nothing

LEMMA AnswersTyped ==
    ASSUME NEW syms \in Seq(Symbol)
    PROVE  Answers(syms) \in [Keys -> {{}} \cup {{e} : e \in Symbol}]
<1>1. ASSUME NEW k \in Keys
      PROVE  Lookup(syms, LocationIndex(syms), k) \in {{}} \cup {{e} : e \in Symbol}
  <2>1. CASE k \in DOMAIN LocationIndex(syms)
    <3>1. LocationIndex(syms)[k] \in DOMAIN syms
      BY <2>1, LocationIndexFirst DEF IsFirst, SymbolKeys
    <3>2. syms[LocationIndex(syms)[k]] \in Symbol
      BY <3>1, ElementOfSeq, LenProperties
    <3>3. Lookup(syms, LocationIndex(syms), k) = {syms[LocationIndex(syms)[k]]}
      BY <2>1 DEF Lookup
    <3>. QED  BY <3>2, <3>3
  <2>2. CASE k \notin DOMAIN LocationIndex(syms)
    BY <2>2 DEF Lookup
  <2>. QED  BY <2>1, <2>2
<1>. QED  BY <1>1 DEF Answers

(* Saving extends the store: the answers that the file gave stay.          *)
LEMMA SavingExtends ==
    ASSUME PInv, Save
    PROVE  Store!Extend
<1>1. /\ file.readable /\ file'.readable = FALSE /\ phase' = "saving"
      /\ symbols' = symbols /\ Extends(symbols, file.symbols)
  BY DEF Save, PInv, Opened, Importing, Unreadable, tables
<1>2. symbols \in Seq(Symbol) /\ file.symbols \in Seq(Symbol)
  BY DEF PInv, ProjectTypeOK
<1>3. ASSUME NEW k \in Keys, Answers(file.symbols)[k] # {}
      PROVE  Answers(symbols)[k] = Answers(file.symbols)[k]
  BY <1>1, <1>2, <1>3, AnswersKept DEF Answers
<1>. QED  BY <1>1, <1>2, <1>3, AnswersTyped DEF Store!Extend

(* A step that neither saves nor writes nor dies leaves the store alone,   *)
(* and a new project loses it until it is written.                         *)
LEMMA StoreStep ==
    ASSUME PInv, [Next]_vars
    PROVE  \/ Store!Create \/ Store!Extend \/ Store!Lose
           \/ UNCHANGED <<file.readable \/ phase = "saving",
                          IF file.readable THEN Answers(file.symbols)
                          ELSE IF phase = "saving" THEN Answers(symbols)
                          ELSE Answers(<<>>)>>
<1>1. CASE Create
  <2>1. /\ file'.readable = FALSE /\ phase' = "creating" /\ phase = "idle"
    BY <1>1 DEF Create, Unreadable
  <2>2. file.readable \in BOOLEAN
    BY DEF PInv, ProjectTypeOK
  <2>3. CASE file.readable
    BY <2>1, <2>3, AnswersOfNothing DEF Store!Lose
  <2>4. CASE ~file.readable
    BY <2>1, <2>4
  <2>. QED  BY <2>2, <2>3, <2>4
<1>2. CASE Save
  BY <1>2, SavingExtends
<1>3. CASE Write
  <2>1. file' = Written(symbols, relocs) /\ phase' = "idle"
    BY <1>3 DEF Write, Exit
  <2>2. CASE phase = "creating"
    BY <2>1, <2>2 DEF Store!Create, Written, PInv, CreatedKept
  <2>3. CASE phase = "saving"
    BY <2>1, <2>3 DEF Written, PInv, CreatedKept
  <2>. QED  BY <1>3, <2>2, <2>3 DEF Write
<1>4. CASE Crash \/ Abort
  <2>1. file' = file /\ phase' = "idle"
    BY <1>4 DEF Crash, Abort, Exit
  <2>2. CASE phase = "saving"
    BY <2>1, <2>2, AnswersOfNothing DEF Store!Lose, PInv, CreatedKept
  <2>3. CASE phase # "saving"
    BY <2>1, <2>3
  <2>. QED  BY <2>2, <2>3
<1>5. CASE Import \/ BeginTriple \/ ImportLabel \/ EndLabels \/ ImportReloc \/ EndTriple
  <2>1. file' = file /\ phase # "saving" /\ phase' # "saving"
    BY <1>5 DEF Import, BeginTriple, ImportLabel, EndLabels, ImportReloc, EndTriple
  <2>. QED  BY <2>1
<1>6. CASE UNCHANGED vars
  BY <1>6 DEF vars, tables, run
<1>. QED  BY <1>1, <1>2, <1>3, <1>4, <1>5, <1>6 DEF Next

(* The life cycle of a project implements the write-once store.            *)
THEOREM FileIsStore == Spec => ImplementsStore
<1>1. Init => Store!Init
  BY AnswersOfNothing DEF Init, Unreadable, Store!Init
<1>2. PInv /\ [Next]_vars =>
         [Store!Create \/ Store!Extend \/ Store!Lose]_<<file.readable \/ phase = "saving",
                          IF file.readable THEN Answers(file.symbols)
                          ELSE IF phase = "saving" THEN Answers(symbols)
                          ELSE Answers(<<>>)>>
  BY StoreStep
<1>. QED  BY <1>1, <1>2, ProjectInductive, PTL DEF Spec, ImplementsStore, Store!Spec

=============================================================================
