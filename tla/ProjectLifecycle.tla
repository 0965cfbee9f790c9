------------------------- MODULE ProjectLifecycle -------------------------
(***************************************************************************)
(* A project file through the commands that write it: create, and          *)
(* importppcdis, which reads the project, adds the labels and relocations  *)
(* of some binaries to its tables and writes the file again.  A command    *)
(* may be killed, or fail to write, between any two steps.                 *)
(*                                                                         *)
(* An address is the location it lies at.  It can be resolved when the     *)
(* binary has a load address: a DOL has one, a REL gets one when a triple  *)
(* of files for it is imported, for the rest of the command.               *)
(***************************************************************************)
EXTENDS ProgramTables

CONSTANTS
    Rels,           \* the binaries without a load address
    LoadedSymbols,  \* what the program loader finds in the binaries
    LoadedRelocs,
    Triples,        \* the --ppcdis arguments
    MaxTriples      \* bound: how many of them a command has

Label == [location : Location, type : {"DATA", "FUNCTION", "LABEL"}]

Triple == [binary : Binaries, labels : SUBSET Label,
           relocs : SUBSET Relocation]

ASSUME ConstantsOK ==
    /\ Rels \subseteq Binaries
    /\ LoadedSymbols \in Seq(Symbol)
    /\ LoadedRelocs \in Seq(Relocation)
    /\ Triples \subseteq Triple
    /\ MaxTriples \in Nat

Phases == {"idle", "creating", "arguments", "labels", "relocs", "saving"}

VARIABLES
    file,      \* the project file: can it be read, and the tables in it
    symbols,   \* the tables of the command that runs
    relocs,
    index,     \* their indices, by location and by source
    loaded,    \* the binaries whose load address it knows
    arguments, \* its triples
    at,        \* the triple it is at
    todo,      \* the labels or relocations of the triple yet to come
    map,       \* the name that its symbol map gives to all places
    phase      \* where the command is; "idle" when none runs

tables == <<symbols, relocs, index>>
run == <<loaded, arguments, at, todo, map>>
vars == <<file, tables, run, phase>>

Unreadable == [readable |-> FALSE, symbols |-> <<>>, relocs |-> <<>>]
Written(syms, rels) == [readable |-> TRUE, symbols |-> syms, relocs |-> rels]

Indices(syms, rels) ==
    [location |-> LocationIndex(syms), source |-> SourceIndex(rels)]

\* Does ProgramLoader::resolveVMA find the place?
Resolves(loc) == loc.binary \notin Rels \/ loc.binary \in loaded

\* The process ends; its memory is gone.
Exit ==
    /\ symbols' = <<>> /\ relocs' = <<>> /\ index' = Indices(<<>>, <<>>)
    /\ loaded' = {} /\ arguments' = <<>> /\ at' = 1 /\ todo' = {}
    /\ phase' = "idle"
    /\ UNCHANGED map

Init ==
    /\ file = Unreadable
    /\ symbols = <<>> /\ relocs = <<>> /\ index = Indices(<<>>, <<>>)
    /\ loaded = {} /\ arguments = <<>> /\ at = 1 /\ todo = {}
    /\ map \in Names
    /\ phase = "idle"

-----------------------------------------------------------------------------
(* Commands.                                                               *)

CreateSlip ==    \* (..Slip: with a mistake) the loader's relocations are lost
    /\ phase = "idle"
    /\ phase' = "creating"
    /\ symbols' = LoadedSymbols /\ relocs' = <<>>
    /\ file' = Unreadable
    /\ UNCHANGED <<index, run>>

\* createProject loads the binaries, then opens the file with trunc.  It
\* ends before anything is looked up.
Create ==
    /\ phase = "idle"
    /\ phase' = "creating"
    /\ symbols' = LoadedSymbols /\ relocs' = LoadedRelocs
    /\ file' = Unreadable
    /\ UNCHANGED <<index, run>>

\* importppcdis: fromProto fills the tables and makes their indices.
Import ==
    /\ phase = "idle" /\ file.readable
    /\ phase' = "arguments"
    /\ symbols' = file.symbols /\ relocs' = file.relocs
    /\ index' = Indices(symbols', relocs')
    /\ \E n \in 0..MaxTriples : arguments' \in [1..n -> Triples]
    /\ map' \in Names
    /\ UNCHANGED <<file, loaded, at, todo>>

\* saveProjectAs: open with trunc, then SerializeToOstream.
Save ==
    /\ phase = "arguments" /\ at > Len(arguments)
    /\ file' = Unreadable
    /\ phase' = "saving"
    /\ UNCHANGED <<tables, run>>

Write ==
    /\ phase \in {"creating", "saving"}
    /\ file' = Written(symbols, relocs)
    /\ Exit

\* The command is killed, or the stream fails.
Crash == phase # "idle" /\ Exit /\ UNCHANGED file

-----------------------------------------------------------------------------
(* loadBinaryInfoFromPpcdis.                                               *)

\* setLoadInfo, if the binary is a REL.
BeginTriple ==
    /\ phase = "arguments" /\ at <= Len(arguments)
    /\ loaded' = loaded \cup (Rels \cap {arguments[at].binary})
    /\ todo' = arguments[at].labels
    /\ phase' = "labels"
    /\ UNCHANGED <<file, tables, arguments, at, map>>

IsNewLabelSlip(l) ==    \* added, whether or not it exists
    l.location.binary = arguments[at].binary /\ l.type \in {"DATA", "FUNCTION"}

IsNewLabel(l) ==
    /\ l.location.binary = arguments[at].binary
    /\ lookupByLocation(symbols, index.location, l.location) = {}
    /\ l.type \in {"DATA", "FUNCTION"}

NewSymbolSlip(l) ==    \* by the constructor that sets no binding
    [location |-> l.location, name |-> map, binding |-> "unset"]

NewSymbol(l) == [location |-> l.location, name |-> map, binding |-> "global"]

ImportLabelSlip ==    \* an existing symbol takes the new name
    /\ phase = "labels"
    /\ \E l \in todo :
          /\ Resolves(l.location)
          /\ symbols' = IF IsNewLabel(l) THEN Append(symbols, NewSymbol(l))
                        ELSE [i \in DOMAIN symbols |->
                                IF symbols[i].location = l.location
                                THEN [symbols[i] EXCEPT !.name = map]
                                ELSE symbols[i]]
          /\ todo' = todo \ {l}
    /\ UNCHANGED <<file, relocs, index, loaded, arguments, at, map, phase>>

\* The labels come in the order of a protobuf map, which is any.
ImportLabel ==
    /\ phase = "labels"
    /\ \E l \in todo :
          /\ Resolves(l.location)
          /\ symbols' = IF IsNewLabel(l) THEN Append(symbols, NewSymbol(l))
                                         ELSE symbols
          /\ todo' = todo \ {l}
    /\ UNCHANGED <<file, relocs, index, loaded, arguments, at, map, phase>>

EndLabels ==
    /\ phase = "labels" /\ todo = {}
    /\ todo' = arguments[at].relocs
    /\ phase' = "relocs"
    /\ UNCHANGED <<file, tables, loaded, arguments, at, map>>

IsNewRelocSlip(r) ==    \* looked up by the place it refers to
    lookupBySource(relocs, index.source, r.destination) = {}

IsNewReloc(r) == lookupBySource(relocs, index.source, r.source) = {}

ImportReloc ==
    /\ phase = "relocs"
    /\ \E r \in todo :
          /\ Resolves(r.source)
          /\ IsNewReloc(r) => Resolves(r.destination)
          /\ relocs' = IF IsNewReloc(r) THEN Append(relocs, r) ELSE relocs
          /\ todo' = todo \ {r}
    /\ UNCHANGED <<file, symbols, index, loaded, arguments, at, map, phase>>

EndTriple ==
    /\ phase = "relocs" /\ todo = {}
    /\ at' = at + 1
    /\ phase' = "arguments"
    /\ UNCHANGED <<file, tables, loaded, arguments, todo, map>>

\* An address that no binary contains: the assertion, or value() without it.
Abort ==
    /\ \/ phase = "labels" /\ \E l \in todo : ~ Resolves(l.location)
       \/ phase = "relocs" /\ \E r \in todo :
             ~ Resolves(r.source) \/ (IsNewReloc(r) /\ ~ Resolves(r.destination))
    /\ Exit
    /\ UNCHANGED file

Next ==
    \/ Create \/ Import \/ Save \/ Write \/ Crash
    \/ BeginTriple \/ ImportLabel \/ EndLabels
    \/ ImportReloc \/ EndTriple \/ Abort

Spec == Init /\ [][Next]_vars

-----------------------------------------------------------------------------
(* Properties.                                                             *)

\* The variables have their types: tables of symbols and relocations, and a
\* command that is at one of its triples or past them.
ProjectTypeOK ==
    /\ file \in [readable : BOOLEAN, symbols : Seq(Symbol),
                 relocs : Seq(Relocation)]
    /\ symbols \in Seq(Symbol) /\ relocs \in Seq(Relocation)
    /\ loaded \subseteq Rels
    /\ arguments \in Seq(Triples)
    /\ at \in 1..(Len(arguments) + 1)
    /\ map \in Names
    /\ phase \in Phases

\* i is the row that a lookup for key k is to answer with: the first of that
\* key among keys, the keys of the rows of a table in their order.
IsFirst(keys, k, i) ==
    /\ i \in DOMAIN keys
    /\ keys[i] = k
    /\ \A j \in DOMAIN keys : j < i => keys[j] # k

\* The tables grow under indices that are made once, when the project is
\* opened, and nothing makes them anew.  What they answer is still right.
AnswersStand ==
    /\ \A k \in DOMAIN index.location :
          IsFirst([i \in DOMAIN symbols |-> Key(symbols[i].location)],
                  k, index.location[k])
    /\ \A k \in DOMAIN index.source :
          IsFirst([i \in DOMAIN relocs |-> Key(relocs[i].source)],
                  k, index.source[k])

\* A label or relocation is imported when a lookup finds a row for it.
Imported(t, syms, rels) ==
    /\ \A l \in t.labels :
          l.location.binary = t.binary /\ l.type # "LABEL" =>
              lookupByLocation(syms, LocationIndex(syms), l.location) # {}
    /\ \A r \in t.relocs :
          lookupBySource(rels, SourceIndex(rels), r.source) # {}

\* What is saved includes the triples of the command that saved it, however
\* the command came by them.
SavesAll ==
    phase = "saving" =>
        \A n \in DOMAIN arguments : Imported(arguments[n], symbols, relocs)

\* To import again what the project has changes nothing: what finds all its
\* rows in the project that was opened adds none.
Idempotent ==
    phase \in {"arguments", "labels", "relocs"}
        /\ (\A n \in DOMAIN arguments :
                Imported(arguments[n], file.symbols, file.relocs))
    => symbols = file.symbols /\ relocs = file.relocs

\* A file that can be read has the rows it was created with, at the front.
CreatedRowsStay ==
    file.readable =>
        /\ Len(file.symbols) >= Len(LoadedSymbols)
        /\ SubSeq(file.symbols, 1, Len(LoadedSymbols)) = LoadedSymbols
        /\ Len(file.relocs) >= Len(LoadedRelocs)
        /\ SubSeq(file.relocs, 1, Len(LoadedRelocs)) = LoadedRelocs

\* The answers of a table are a store in which a place keeps its entry.
Answers(syms) == [k \in Keys |-> Lookup(syms, LocationIndex(syms), k)]

Store == INSTANCE SymbolStore WITH
    Place <- Keys,
    Entry <- Symbol,
    Initially <- Answers(LoadedSymbols),
    readable <- file.readable \/ phase = "saving",
    store <- IF file.readable THEN Answers(file.symbols)
             ELSE IF phase = "saving" THEN Answers(symbols)
             ELSE Answers(<<>>)

\* The project file, with the command that rewrites it, is such a store: no
\* import changes what a place answers with, and only a command that dies
\* while it saves, or a new project, loses it.
ImplementsStore == Store!Spec

-----------------------------------------------------------------------------
(* What the sources say of the tables, and the code does not do.           *)

\* _loc_index is an "index by symbol location": whoever looks up the
\* location of a symbol gets a symbol at that location.
SymbolAtLocation ==
    \A i \in DOMAIN file.symbols :
        \A s \in lookupByLocation(file.symbols, LocationIndex(file.symbols),
                                  file.symbols[i].location) :
            s.location = file.symbols[i].location

=============================================================================
