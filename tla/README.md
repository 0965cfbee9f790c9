# A verification project for ppc2cpp

ppc2cpp loads PowerPC programs, finds the basic blocks of their functions,
builds a data-flow graph on them, and compares two versions of a function by
these graphs. It is a sequential command-line program: what makes it hard is not
threads but recursion, in which a graph is read while it is half built, and
results that depend on the order of a worklist.

Paths below are relative to the repository.

## Inventory

| component | code | state | operations | interacts with |
|---|---|---|---|---|
| instruction predicates | `include/ppc2cpp/common/insn_properties.h`, `model/Function.hpp` | none | `isBranch*`, `isLink`, `isBranchConditionUnconditional`, `length` | read by both analyses |
| control-flow analysis | `src/control_flow/ControlFlowAnalysis.cpp`, `control_flow/ControlFlowGraph.hpp` | `blocks`, `psTable`, the recursion | `functionCFA`, `handleBranch`, `tryCreateSuccessorInternal`, `createSuccessor*`, the lookups | calls `ProgramLoader::resolveTarget`; its graph is read by everything below |
| data-flow analysis | `src/data_flow/DataFlowAnalysis.cpp`, `FlowContext.hpp`, `DataFlow*.hpp`, `PpcCallingConvention.cpp` | `worklist`, `blockContexts`, `sinks`, the nodes | `initWorklist`, `functionDFAImpl`, `contextUnion`, `setDefinition`, `killDefinition` | reads the control-flow graph and `instructionUD` |
| instruction operands | `src/data_flow/PpcInstructionUD.cpp`, `PpcOperandCats.cpp`, `PpcCallingConvention.cpp` | tables filled once | `instructionUD`, `handleBranchUD` | called once per instruction and pass |
| flow comparator | `src/analysis/ProgramComparator.cpp:23-200` | a cache of compared pairs | `compareFunctionFlows`, `compareVarNodes` | reads the graphs of two functions; recurses through node inputs |
| program comparator | `src/analysis/ProgramComparator.cpp:207-436` | none | `comparePrograms`, `compareSymbols`, `compareData`, `compareFunctions`, `compareRelocations` | mutual recursion through relocations to local symbols |
| symbols, relocations, projects | `src/model/*.cpp` | two tables with lookup indices, the project file | `push_back`, `lookupBy*`, `createProject`, `openProject`, `saveProject` | the tables are filled by loaders and by the import |
| ppcdis import | `src/analysis/PpcdisAnalysis.cpp` | none of its own | `loadAnalysisFromPpcdis` | adds to the tables, skips what they hold |
| program loaders | `src/program_loader/*.cpp` | binaries and sections, load addresses of RELs, the tables | `registerSymbols`, `registerRelocations`, `registerRel24Relocs`, `setLoadInfo`, `resolveVMA`, `resolveTarget`, `getReferenceAtLocation` | used by all of the above |
| checkflow command | `src/cli/ppc2cpp.cpp:163-233` | the two analyses of two functions | `cli_checkflow` | runs both analyses on both functions, then the flow comparator; its exit code is the result |
| other commands | `src/cli/ppc2cpp.cpp` | none | `create`, `importppcdis`, `compare` | the order in which projects are opened, changed and saved |
| visualizer, protobuf | `DfgVisualizer.cpp`, `proto` | none | output, generated code | - |

What is hard in them, and what would make each correct:

- *Control flow.* `functionCFA` calls itself for a block as soon as it exists,
  while the caller's block has no end yet. Correct means: no two blocks start at
  one place, an activation writes only its own block, a finished block never
  changes, the two halves of `psTable` agree, the recursion ends, and the
  finished graph is exactly the control flow of the function.
- *Data flow.* A worklist algorithm that makes new nodes on every pass and
  compares contexts by size only. Correct means: contexts hold the definitions
  that reach a block, no fewer and no more; sinks come in code order; nodes never
  depend on themselves; the analysis ends.
- *Comparison.* Pairs inputs and sinks by index, with a cache. Correct means: the
  answer is the one a definition without a cache gives, and the recursion ends.
- *Tables and project files.* Correct means: a lookup answers with the first row
  added for its key, imports only add, and a command that fails loses nothing it
  has not begun to rewrite.
- *Loading.* Addresses have 32 bits and wrap; a REL has none until an import says
  where it is. Correct means: addresses and locations are inverse, names lead to
  their definitions whichever file comes first, a branch is resolved to where the
  processor would go, and a reference does not change when addresses become known.
- *checkflow.* Two analyses of two functions, each of which may throw in the
  middle, and one exit code. Correct means: 0 for functions that do the same,
  whatever their registers, never for one that was not analysed to its end.

`PROJECT.json` lists the hazards one by one, each at its line, with the
properties that cover it.

## Modules

| module | models | kind |
|---|---|---|
| `InstructionFlow` | an instruction as the branch predicates see it; where control may go from it | operators |
| `BlockDiscovery` | what the control-flow analysis promises: collect leaders until none is missing | abstract specification |
| `ControlFlowAnalysis` | `ControlFlowGraph.hpp` and `ControlFlowAnalysis.cpp`, one action per step of the loop | specification |
| `MCControlFlow` | instruction sets for the runs | model |
| `ControlFlowProofs` | the inductive invariant of `ControlFlowAnalysis`, finished blocks, the bound of the recursion, the step of the refinement to `BlockDiscovery`; the two halves of `psTable`, the finished graph as the control flow, and the blocks of straight functions | proofs |
| `DataFlowAnalysis` | `DataFlowAnalysis.cpp` on the graph `ControlFlowAnalysis` has built; extends it and runs both, one after the other, as the command line does | composition |
| `MCDataFlow` | functions for the runs, written as short assembly listings | model |
| `DataFlowProofs` | types, the worklist, the ages of the nodes, what contexts hold, the order of the sinks, what straight functions compute | proofs |
| `Sublists` | the loops that go through a sequence and skip elements | operators |
| `SequenceLemmas` | what such a loop keeps: elements, order, no repetition; lists made of sets and of other lists | lemmas |
| `FlowComparator` | `compareFunctionFlows`, `compareVarNodes` and the cache, on two data-flow graphs | specification |
| `FollowedPairs` | `FlowComparator` with a history variable: the pairs whose inputs have been looked at | specification |
| `MCFlowComparator` | small graphs | model |
| `ComparatorProofs` | the cache, the answer and the work of `FlowComparator` | proofs |
| `InstructionOperands` | `instructionUD`, `handleBranchUD`, the calling convention | operators |
| `CheckFlow` | one turn of `cli_checkflow`: extends `DataFlowAnalysis` and `InstructionOperands`, has a second instance of the former and one of `FlowComparator` | composition |
| `MCCheckFlow` | pairs of functions, of real instructions | model |
| `ProgramTables` | the symbol and relocation tables, their indices and lookups | operators |
| `SymbolStore` | what a project promises: a place gets an entry once and keeps it | abstract specification |
| `ProjectLifecycle` | create, import and save, with crashes; extends `ProgramTables` | specification |
| `MCProjectLifecycle` | a DOL, two RELs and their ppcdis files | model |
| `ProjectProofs` | the invariants of `ProjectLifecycle` and its refinement to `SymbolStore` | proofs |
| `ProgramComparator` | `comparePrograms` and what it calls; extends `ProgramTables` | specification |
| `MCProgramComparator` | small ELF programs | model |
| `ProgramComparatorProofs` | the answers of `ProgramComparator`, for programs of any size | proofs |
| `ProgramLoading` | the ELF and the DOL/REL loader, addresses, targets and references; extends `ProgramTables` | specification |
| `MCProgramLoading` | small ELF and DOL/REL programs | model |
| `LoadingProofs` | addresses, names, targets and references of `ProgramLoading` | proofs |

### ControlFlowAnalysis

`blocks` and `psTable` are the members of `ControlFlowGraph`. `stack` is the
recursion of `functionCFA`: an activation is its block, its `pc`, and a `phase`
that says where in the loop body it stands (`scan`: about to read an
instruction; `branched`: the branch is handled; `returned`: the successor at
`pc + 1` is dealt with). `status` says whether the outermost call is running, has
returned (`done`), has failed an assertion (`aborted`) or has thrown in
`resolveTarget(...).value()` (`threw`). A block index is the code's plus one.

| action | code |
|---|---|
| `ScanPlain` | an instruction that is no branch, with the fall-through of lines 73-78 |
| `RunOffEnd` | the loop condition fails |
| `HandleBranch` | `handleBranch`: internal target (link, and recursion if the block is new), external target, or the exception |
| `RuntimeBranch` | `createSuccessorRuntime` for a branch through LR or CTR |
| `AfterBranch` | the assertion on `pc + 1`, then `tryCreateSuccessorInternal` for it and the recursion |
| `EndCall` | `endsInCall`, and the end of the activation |
| `EndBlock` | the branches that do not come back: exit and tail-call flags |

The instructions are what the predicates tell apart: a kind (`plain`, `b`, `bc`,
`bclr`, `bcctr`), the link bit, whether the condition always holds, and the target as a position of the
function, `External` or `Unresolved`. Nothing else is read by the analysis.
`AssertsOn` tells a build with assertions from one with `NDEBUG`.

### DataFlowAnalysis

Adds `ops` (what `instructionUD` says of each instruction: registers used and
defined, and whether it is a store), `worklist`, `visit` (the recursion of
`initWorklistRecurse`), `contexts`, `sinks`, `inputs` (node to inputs), `current`
(where the innermost `functionDFAImpl` is) and `pass` (how many there have been).
Every pass makes new nodes, so a node's name contains the pass. The sizes that
decide whether successors are pushed are those of `FlowContextSizes`.

`InitWorklist`, `VisitSuccessor` and `VisitReturn` are `initWorklistRecurse`;
`TakeBlock`, `Instruction` and `FinishBlock` are the three parts of
`functionDFAImpl`; `Finish` is its return on an empty worklist. `Overflow` is the
one action that is not in the code: the recursion of line 200 takes a stack frame
for every pass, and `MaxPasses` is the number of frames there is room for.

Immediates and references are left out: they are inputs that no step of the
analysis reads. The inputs of a node are a set here and a vector in the code; the
order matters to the comparator only.

### FlowComparator

The functions are constants: nodes of any names with their inputs, of which none
depends on itself (`Grounded`, which `InputsOlder` shows of the data-flow analysis),
the sinks of each block and its successors. `stack` is the recursion of `compareVarNodes`: a pair
of nodes and the input it is at. `Enter` is the code up to the loop over the
inputs, `CompareInput`, `InputCompared` and `EndInputs` the loop and what follows
it, with every write of the cache; `CompareSink`, `SinkCompared`, `EndBlock` and
`EndFunction` are the loops of `compareFunctionFlows`. What two nodes compare of
themselves (opcode and block, register, value, symbol) is one value, `detail`. A
reference whose symbol is not found ends the process: `Abort`.

### ProgramTables and ProjectLifecycle

`Key` is the equality that the indices' keys have, which is not that of
locations. `FirstRow` is `unordered_map::insert`: the first row of a key stays.
A lookup takes the index as an argument, because the import uses one that is
older than its table.

A command is a sequence of phases: `creating` (between `trunc` and the write),
`arguments` (between two triples), `labels`, `relocs`, `saving`. Labels and
relocations of a triple come in any order, as they do from a protobuf map. `Crash`
is the end of the process anywhere; `Abort` is the end at an address that does not
resolve. A project file that was truncated and not written has no loader type, and
one that was cut off does not parse: both are `Unreadable`, since the loader and
its tables are the last field of the file. A REL has addresses only from its own
triple on (`loaded`), and only until the command ends.

### ProgramComparator

`pLoader1` has the source program and `pLoader2` the target. `stack` is the
recursion of `compareSymbols` through `compareRelocations`; a call is at an offset
of its two symbols, in the phase `enter`, `word` or `relocated` (the references
agree and the rest of the instruction is to be compared). `Place1` and `Place2` are
the places that are read, with the locations exchanged as they are in the code.
`EnterSymbol`, `EnterFunction` and `EnterData` are the three kinds of section,
`CompareWord` a word without a relocation, `CompareRelocations`, `LocalCompared`
and `CompareRelocated` one with. When `memcmp` reads past the section, the outcome
is any. The module is the build with assertions: without them `compareRelocations`
reads optionals that are empty, and there is nothing to say of what follows.

`MaxDepth` is the number of calls that fit on the stack, `answer = "overflow"` the
end of the process beyond it.

### InstructionOperands and CheckFlow

An instruction is taken as ppcdisasm delivers it: a name, the set of opcodes it is
in (`class`), its operands with their kinds and values, and the symbol of its
relocation. `instructionUD` is an operator from that to references, constants,
input registers in their order, and outputs; `handleBranchUD` the same for
branches, from the BO field. `Supported` is where the code throws instead, there or
when `FlowContext` is asked for a special register it has not. The SPRs 912 to 919 are
the GQRs in a context; the models keep the two apart, and no run has instructions
with both.

`CheckFlow` has two functions. The first is analysed by the variables of the
modules extended, the second by the variables named `..2`, through `INSTANCE`;
the comparator is a third instance, whose nodes are results of a register by an
instruction in a pass, sinks, and leaves.
`CodeOf` and `OpsOf` are what the analyses see of an instruction. `CfaFirst`,
`CfaSecond`, `DfaFirst`, `DfaSecond` and `Compare` are steps of the components in
the order the command runs them. `BuildFlows` is what lies between: it hands
the graphs to the comparator, with the inputs of each phi node in any order, since
they come from an `unordered_set` of pointers. `Exit` is the exit code, or `died`
for an exception, an assertion or the end of the stack.

### ProgramLoading

A program is a sequence of `files`, all ELF, or one DOL and RELs. `symbols`, `relocs`
and `index` are the tables as in `ProgramTables`, `load` the load addresses of the
RELs, `at` the file whose turn it is, `phase` the loop the loader is in.
`RegisterSymbols`, `IndexSymbols`, `RegisterRelocations` and `IndexRelocations` are
`ElfProgramLoader`, one file per step; `RegisterRel24Relocs` and `FinishRvl` are
`NinProgramLoader`; `SetLoadInfo` is what an import does to a REL, at any time once
the program is loaded. `getAddress`, `resolveVMA`, `getReferenceAtLocation` and
`resolveTarget` are operators, with every sum of addresses modulo `Word`. A
symbol or relocation whose address no section has ends the process (`Dies`).

## Runs

| run | instance | question |
|---|---|---|
| `CfaAll` | length 3, all instructions, assertions off | is the graph sound at every step and exact at the end, does the recursion end, does it implement `BlockDiscovery`? |
| `DfaAll` | 5 instructions; registers that survive a call, are killed by it, carry its result; branches anywhere | are contexts, nodes and sinks right in both analyses together, and do they end without loops? |
| `DfaLoopDiverges` | a conditional assignment in a loop | does the data-flow analysis always end? No |
| `CompareFlows` | all pairs of 144 graphs of six nodes in one or two blocks | is the answer exact, is the cache read only where it is right, does it do its work? |
| `ProjectImport` | a DOL and two RELs, commands of up to two triples | do tables, lookups and the file stay right through imports and crashes? |
| `TablesCollide` | the same, up to three triples | does a lookup by location answer with a symbol of that location? No |
| `ComparePrograms` | all pairs of 66 programs of three functions and a datum | is the answer exact for programs laid out alike, and is there always one, but for the end of the stack? |
| `CompareMoved` | three layouts | may symbols be rearranged? No |
| `CheckFlow` | 4 instructions: six straight functions against all of four lines, functions against their renamings, branches with every BO value | is the exit code right, and is there one? |
| `CheckPhi` | a conditional assignment to the result, against itself | is a function equal to itself? Not always |
| `LoadProgram` | 12 pairs of relocatable ELF files, 20 programs with a linked one, 4 with a DOL and RELs; 32 addresses, three load addresses | are addresses, names, targets and references right, whatever is loaded in which order? |
| `Rel24` | the programs with RELs | do the relocations made for a REL's branches lead where the branches go? No |

*Control-flow properties.* `LookupIsInternal`, `EdgesMirrored`,
`RecursionBounded`, `BlocksStraight`, `StartsInFunction`, `GraphExact` (the blocks
hold exactly the reachable instructions, and a block's successors are where its
last instruction leads), `ExitsLeave`, `FinishedFrozen` (no step changes a
finished block or its successors), `IInv` (the inductive invariant of the
proofs, which has `TypeOK` and `UniqueStarts` in it), `Termination`, and
`ImplementsDiscovery` under the mapping that takes the leaders to be the starts of
the internal blocks.

*Data-flow properties.* The reference is `Reaching(b, r)`: the definitions of `r`
that reach the end of block `b`: those generated in the least set of blocks that has
`b` and the predecessors of each block `r` passes through.
`NoSpuriousDefinition` holds of every context between passes;
`DefinednessExact` says that a register has no definition exactly when none
reaches; `WorklistProper`, `InputsOlder` and `SinksInOrder` are about the
worklist, the nodes and the sinks. `ForwardEnds` is termination for functions
without backward branches; with them it is refuted (`DfaLoopDiverges`).

*Flow comparison.* `AnswerExact` compares the answer with `SameFunction`, a
definition without a cache or an order of evaluation. The cache is written after
the first input that agrees, before the others are known, and a pair of sinks that
differ is entered as equal: `CacheTrusted` says that no such entry is ever read.
`FollowedOnce` says that the cache does its work: the inputs of a pair are
followed once, however many paths lead to it (a history variable records them, in
`FollowedPairs`).

*Projects.* The index grows stale while rows are pushed. `AnswersStand` says that
what it still answers is right; `SavesAll` that what is saved answers for every
label and relocation of the command; `Idempotent` that an import of what the
project has adds nothing; `CreatedRowsStay` that no command loses what the
project was created with; `ImplementsStore` that the file, with the command that
rewrites it, is a write-once store: only a crash during the save loses an answer,
and it loses all of them (`CreatedRowsStay` is of what a readable file holds and
allows that). All of these are about keys, not locations: two binaries
share them (`TablesCollide`), and a label whose key is taken counts as imported.

*Program comparison.* The reference is `Equivalent`: there is a relation between
the symbols of the two programs, which holds of namesakes, and under which
contents agree with references related. `ExactWhenAlike` is of programs laid out
alike: their symbols are the same and what refers to a local symbol refers to the
same place (`Alike`), so that the exchanged places make no difference; names and
places each name one symbol (`NamesUnique`, `PlacesUnique`); and aligned data have no
relocations and lie in their section (`BytesSuffice`), since they are compared as
bytes. TLC finds the property violated when any of these is dropped. `SelfEqual` needs
only that global names are unique and that symbols lie in their sections (`InSection`):
no such program is found different from itself, whatever refers to what.
`ComparisonEnds`: there is an answer, and where it is that the stack does not suffice,
for programs laid out alike, local symbols refer to one another in a circle
(`Circular`). Symbols that other files can see may do so, since they are compared by
name. No property is about namesakes of different sizes: functions may differ by 7 bytes
and data by any number, and what follows the smaller symbol decides.

*checkflow.* `StraightExact` has a reference that needs no graph: in a function
without branches, other than calls, a value is the term it was computed by, and the
effect is the sequence of its stores, calls and returned values, from call to call.
The exit code is 0 exactly if the effects are the same; its comment says what is not
told apart.
`RegallocIgnored`: a function and its copy with own registers renamed are never found
different, unless values join. `BranchViewsAgree`: the two decodings of the BO field
agree on which branches may fall through. `EqualMeansAnalysed`: the exit code is
never 0 for a function with an instruction or branch that could not be analysed.
`CheckEnds`: without backward branches there is always an end. `SelfEquivalent`, the
README's "exit code 0 on equivalence" for a function and itself, is refuted
(`CheckPhi`).

*Loading.* `RoundTrip`: the location found for an address has that address, and
where no sections overlap every address of a section is found; a section that reaches
the last address has none, and `Disjoint` excludes it. `NamesResolved`:
each relocation leads to a definition of the name it uses. `TargetsExact`: a
branch without a reference is resolved exactly when it stays in its section, at
the processor's target, for displacements whose signed sum does not wrap. `ReferencesStand`: load addresses that become known later
change no reference, and it is in the module the REL names. `Rel24Meant` is
refuted (`Rel24`).

*Bounds.* Three instructions are enough for a branch back into a block on the
stack, into the middle of a finished one, onto itself and past the end, in every
order. The run is of the build without assertions, where a call or branch may come
last; the theorems are of both builds, and `DfaAll` runs the other one. In the
data-flow runs every body is followed by `blr`, as compiled functions are; five instructions make every loop of two blocks
with an entry and an exit. `MaxPasses` is met in `DfaAll` by functions with loops,
whose states up to there are checked; `ForwardEnds` shows that no function without
a backward branch needs as many passes. Six nodes are a pair met on two paths, once
through a phi node, with inputs that agree first and differ then, with the sinks in one block or in two. Two triples
are one that finds what the other has pushed, in the same command and, from the
file, in the next; a REL refers to the DOL, to the other REL and to itself. Three
functions and a datum are a recursion through a local symbol, from
text and from data, and the references f to g, g to f, d to g, and to nowhere, and of a
local g to itself. `MaxDepth` is met in `ComparePrograms` by the last only. In `CheckFlow`, four instructions are enough for two
operands to be computed, exchanged, lost in a call and stored; eight passes are
more than any of its forward functions needs. In `LoadProgram`, `Word = 32` leaves room
for sections at the bottom (a REL that is not placed), in the middle, and at the top
with and without the last address; a third
file is one that is neither the first nor the one that refers.

*Fairness.* `WF_vars(Next)`, weak fairness of the whole next-state relation: one
thread runs the program and no step waits for anything. `ProgramLoading` and
`ProjectLifecycle` have none; their properties are safety.

## What the code does not do

- The data-flow analysis does not end on a conditional assignment in a loop
  (`DfaLoopDiverges`). Every turn of the loop analyses the assignment again, which
  makes a new node; the node of the turn before still circulates in the other
  blocks of the loop, so the sizes grow by one with every turn and nothing ever
  removes a node. The trace shows the pattern repeat every four passes up to
  `MaxPasses`.
- The tables' indices know nothing of binaries (`TablesCollide`): where a DOL and a
  REL both have a symbol at a section index and offset, one of them cannot be
  looked up, and an import takes a label of the one for known because of the other.
- `compare` reads each program at the other's locations (`CompareMoved`).
- `checkflow` may find a function different from itself (`CheckPhi`): the inputs of
  a phi node are paired in the order of a set of pointers.
- The relocations that `NinProgramLoader` makes for the branches of a REL lead to a
  section found with exchanged comparisons, at an offset of the file (`Rel24`). The
  import then skips the right ones, because it finds rows there.

Further statements are in the modules, refuted by TLC on the instances named and
not kept as runs: `NoMissingDefinition` on `MCDataFlow!NestedLoops` (the data-flow
analysis ends when sizes agree, not contexts, and with two nested loops a definition
does not arrive; nine instructions are needed to see it), `DataRelocsCompared`
on `MCProgramComparator!PointerPrograms` (relocations in aligned data are
ignored and the bytes compared), and `StackSuffices` on
`MCProgramComparator!AlikePrograms` (`compare` does not end on a local function
that calls itself; `ComparisonEnds` says that of programs laid out alike it fails to
end on no others).

Seen while modelling:

- An instruction may be in two blocks: a branch into the middle of a finished block
  makes a new block and does not split the old one. At the end of the data-flow
  analysis a block may refer to nodes that its predecessors no longer list, and an
  assignment may meet its own older version in a phi node.
- Two `-p` triples for one binary in one command make two symbols of each label,
  because the index that is asked is the one of the project as it was opened.
- The flow comparator does not tell apart the outputs of one instruction, nor the
  registers in which values are returned, and looks at nothing of a `CallReturn`
  node but its inputs.
- `rlwimi` keeps bits of its target, which is not one of its inputs. The comment at
  `PpcInstructionUD.cpp:407` has inputs and outputs reversed. `killedByCall`
  has CR bit 8 and not 20, which is not what the comment in the middle of
  `PpcCallingConvention.cpp`'s table says of CR2 to CR4. `branchConditionalValue` is
  not used.
- A relocation of a linked ELF file keeps its address as offset, and the index of a
  section header where binaries have segments; the addend of a relocation by a
  section symbol is not added to its destination. A name index has the first definition, weak or not.
- The RVL loader makes no index of the relocations it enters. The text and data of a
  REL that no import has placed have their offset in the file as address. A section
  that reaches the last address has none. A REL that refers to a module which is not
  loaded throws where it is looked up.

What remains true is what the passing runs show: no context is ever wrong about
whether a register is defined in the function, and none holds a definition that
cannot reach it.

## Proofs

Eight modules of proofs; each theorem holds for every value of the constants that
meets the named assumptions of the module it is about.

**`ControlFlowProofs`**, for every `Length`, every instruction set and both builds:
`Inductive` (`Spec => []IInv`), `TypeCorrect`, `StartsUnique`, `LookupInternal`.
`UniqueStarts` and `LookupIsInternal` are not inductive. `IInv` adds that the table
has a row for every block (`TableCovers`), that every activation is inside an
internal block of its own (`FramesOwn`), and that every placeholder comes after an
internal block which ends in the branch that made it and will not move its end any
more (`PlaceholdersFollow`): its activation, if there is one, is past `scan` at
that very instruction. The last is what the lookup by instruction rests on. The
argument splits a step by its effect. `StayPreserves`: no block is made and the top
activation moves or ends. `GrowPreserves`: a block is made, internal and called, or
a placeholder.

Its second part adds `CInv` to `IInv`: every block starts in the function or
right behind it, an activation has come from its block's start to its `pc` without
meeting a branch, and has made blocks of the targets it is past (`GoodFrame`), what a
finished block's end leads to is a leader, and its target is known (`GoodBlock`,
`Leads`), and the analysis is done only with an empty stack. From it:
`StraightBlocks` (`BlocksStraight`), `Frozen` (`FinishedFrozen`), and
`RecursionStaysBounded`, since activations have different starts among
`Length + 1` places. `Searches` is the safety half of `ImplementsDiscovery`: the
analysis starts as the search of `BlockDiscovery` does, and each step is one of the
search's or a stutter. The hard case is the end, where no leader may be missing:
control that reaches a branch from a leader has passed a last leader before it, whose
block is finished and ends there. The liveness half stays with TLC.

About the graph there is `EdgesAgree` (`EdgesMirrored`, with `EInv`: every row lists
blocks only). Each step enters one edge, from the block of the top activation, or
none (`AddsEdge`), so both counts of one pair grow together and all others stay.

Last, `GInv` (`FlowLinked`) adds: the successors of an activation's
block are what its phase has entered so far (`FrameLinked`); those of a finished
block are where its last instruction leads (`BlockLinked`); exits, tail calls and
calls are marked as such (`ExitLinked`); and every block starts where control gets
from the entry (`GoodStart`). From it, with no bound on the length:
`ExitsDoLeave` (`ExitsLeave`), `StartInside` (`StartsInFunction`, for functions that are
not empty), and `GraphIsExact` (`GraphExact`), by two inclusions: what the blocks hold
is closed under control flow, and each block lies in the closure of its start
(`ClosureRuns`). With these, every safety invariant of `ControlFlowAnalysis` is a
theorem.

`StraightChained` (`Chained`) says which blocks these are in a straight function, one
with calls and plain instructions and a return at its end: block `2n + 1` starts after
`n` calls, block `2n + 2` is the placeholder of the branch that ends it, and the
activations are in the former, one in each, the last one at work. `ChainDone` is the
finished graph.

**`DataFlowProofs`** is about `FunctionSpec`, both analyses one after the other, and
assumes `FunctionsAssumption`, `StoreAssumption` (no branch stores) and
`CallAssumption`. The invariants above are carried along (`GraphKept`).
`WorklistStaysProper` rests on `DInv`, which has what is on the worklist and on the
stack of the first order, and where `functionDFAImpl` is; the recursive function of
`PushSuccessors` is shown to have a solution by the least number for which there is
none. The others hold of well-ended functions, whose
blocks have an instruction for each of their places. `InputsAreOlder` rests on `AgeInv`:
whatever is in a context was made before the instruction under analysis.
`DefinitionsReach` rests on `SiteInv`: what is in the context of the block under analysis has arrived at
its current instruction (`Arrived`), and what is in any other reaches the end of that
block. The converse holds at the end, up to being defined at all: `DefinednessIsExact`
(`DefinednessExact`). It takes three steps. Every block but the first was entered from
an earlier one (`Rooted`), so the first order puts all of them on
the worklist (`OrderInv`). From then on `FreshInv` holds: a block that is neither on the
worklist nor under analysis has a definition of every register that its instructions
define or a predecessor has one of, where the block under analysis counts with the
sizes it had when it was taken up. That the sizes are compared instead of the contexts
does no harm here, since contexts are finite and a size is 0 exactly when there is no
definition. Last, with an empty worklist, the blocks that have no definition of a
register are closed under going backwards, so none reaches them. None of these
theorems is about the analysis coming to its end, so they hold with loops too.
`DfaTypes` (`DfaTypeOK`) needs in addition what the activations know of the first
order, and `SinksComeInOrder` (`SinksInOrder`) that the sinks made so far of the block
under analysis are of instructions before the current one, and that the loop over
`definedByCall` keeps the order of its registers. That loop is `Sublist`, a recursive
function, and `SequenceLemmas` proves what it keeps by the least length for which it
does not. `ReachedAnalysed` rests on `SupportInv`: a block that has been taken from the
worklist has had supported instructions only, up to the current one if it is under
analysis. What the graph holds is what control reaches, so at the end this is true of
everything reached; and a branch that is not resolved has ended the first analysis.
The last lemma, `DoneWalkable`, is what a comparison needs of the finished graph: the
inputs of every node and of every sink are nodes there are, finitely many, and older.
`DoneStraight` is what there is of a straight function at the end, and rests on an
invariant of its own: the blocks are taken in the order of the code and each of them
once (`LineFacts`), so a register holds one node or none (`HoldsOne`), made by the last
instruction that wrote it since the last call that destroyed it, and a use before any
of these makes the node of an input.

**`CheckProofs`**, for all pairs of functions: `ViewsOfBranchesAgree`
(`BranchViewsAgree`) and `EqualAreAnalysed` (`EqualMeansAnalysed`, of well-ended
functions). The invariant (`CheckInv`) has that of `DataFlowProofs` twice, of
the variables of the first function and, by an instance of the whole module, of
those of the second; that the analyses see the decoded instructions; and that flows are
built and compared when both analyses are done. `CheckStep` shows that a step of the
command is a step or a stutter of each analysis. That the two decodings agree is a
fact about an instruction (`ViewsAgree`): `isBranchConditionUnconditional` and the
templates of `PpcInstructionUD.cpp` take the BO field apart differently, and come to the
same for all 32 values.
`CommandAnswersExact` and `CommandTrustsCache` join the three components: of well-ended
functions, the answer of the command is that of the reference (`AnswerExact`), and the
cache is read only where it is right (`CacheTrusted`). `FlowIsGraph` shows that what
`BuildFlows` hands over is a graph for the comparator: operands can be listed
(`OperandsListed`, with what `SetToSeq` and `FlattenSeq` give), and among any
nodes there is a leaf, or a variable node older than the others (`OldestExists`), or
only sinks. `CheckInv` says that a comparison which has begun has the invariant of
`ComparatorProofs`, an instance of which is about the two flows. Of the pairs they assume what `IsInstruction` says of a decoded
instruction (`PairsAssumption`), and that `Insns` has what the first analysis
sees of it (`InsnsOfPairs`).
`StraightAnswersExact` is `StraightExact` for functions of every length. Its reference
knows no graph, so the argument has two halves. A node has the term that its register
has at its place (`NodesHaveTerms`), and the sinks of the blocks, read in their order,
are the effect (`GraphsReadEffects`); and a comparison of graphs whose nodes have
terms compares the terms, however nodes are shared (`AnswerReads` in
`ComparatorProofs`). `Built` in `CheckInv` is what joins them: the graphs that are
compared are still those the analyses left.

**`ProjectProofs`**, for all tables, triples, RELs and crashes: `ProjectInductive`,
`ProjectTyped`, `IndexAnswersStand`, `ImportIdempotent`, `EverythingSaved`,
`CreatedStays`, and `FileIsStore`, the whole refinement to `SymbolStore`. The
invariant `PInv` says that the tables in memory extend those of the file, which extend
those of the creation; that the index is the one of the file's tables; and that what
has been passed of the triples is in the tables (`Progress`). What carries it is that
tables grow at their end only, so that a key's first row stays its first.

**`ComparatorProofs`**, for all graphs in which no node depends on itself:
`ComparatorInductive`, `CacheAlwaysTrusted`, `AnswerAlwaysExact`, `ComparatorTyped`.
The reference `SameNode` is a recursive function, and the first part proves that it
satisfies its equation, by joining all relations that prove themselves into one
(`SolutionExists`). The invariant
says that each call on the stack is for the input its caller is at, with all inputs
before it the same (`GoodStack`), so none is on the stack twice: the nodes on it would
be a set of which each has an input in it;
and that a cache entry is right, or says "equal" and is of a pair that is on the
stack past its first input, or the comparison has failed already (`GoodEntry`). A
call that is about to read the cache is for none of those, hence
`CacheTrusted`. An answer is exact in both directions although references to no symbol
may be anything: "equal" is said of functions that are the same if such a reference is
the same as no other, "different" of functions that differ even if it is the same as
another of its kind (`Surely`, `Possibly`). `PairsFollowedOnce` (`FollowedOnce`) is about `RecordedSpec`, with the
history. Its invariant (`FollowedInv`) says that a call past its first input has an
entry in the cache, and that a pair whose inputs were looked at and which is not on
the stack has a settled entry, until the comparison has failed; after that nothing is
followed any more. A call is made for a pair without an entry only, hence for none of
those.

**`ProgramComparatorProofs`**, for programs of any size: `ProgramTypes`, `EqualToItself`
(`SelfEqual`) and `AnswerIsExact` (`ExactWhenAlike`). The recursion keeps no record of
the symbols it has visited, so one cannot say of a finished call that its symbols are
the same, only that they are if others are. The invariant therefore compares with a
relation that is fixed in advance (`TheSame`): the union of all relations that prove
themselves, which is one itself. What is on the stack is of pairs that decide the answer: a call
made through a relocation is of two symbols that are in `TheSame` if and only if the
caller's pair still can be, all words before its offset agree under `TheSame`, and a
`<<FALSE>>` that is passed on means that its pair is not in it. At the end, `TheSame` has
all namesakes, which is `Equivalent`, or one pair of namesakes is not in it, and then
in no relation that is a proof.

**`LoadingProofs`**, for every `Word`, every program and every order of load
addresses: `RoundTripAlways`, `TargetsAlwaysExact`, `ReferencesAlwaysStand`,
`NamesAlwaysResolved`. The invariant says that the files are those of a program and the load addresses are
addresses. The rest is arithmetic modulo `Word`: an address is in a section if and
only if its distance to the start, which may wrap, is less than the length
(`ThereIsFound`, `FoundIsThere`). A reference to the DOL is an address that is looked
up again each time; it finds what it found before as long as sections do not overlap,
and `RefersByFiles` says so: references are a function of the files. `DolAssumption`
is what a linker guarantees of REL files: their references to module 0 are addresses
in the DOL. `NamesAlwaysResolved` (`NamesResolved`) is about the tables: the index of names was
made of the whole symbol table, so a relocation entered from a file finds, for the
name it uses, a row that a file defines under it (`RelocResolved`); rows are never removed.
`ElfAssumption` says what the ELF format does: a relocation uses a symbol of its
own file's symbol table.

Only model-checked: all liveness, which is out of the prover's reach under fairness;
and one safety property of `CheckFlow`, `RegallocIgnored`, which is about functions
that branch and about renamings of their registers.

## Not modelled

- Reading and parsing ELF, DOL, REL and YAML files and the decoding of instructions:
  done by ELFIO, ninutils, yaml-cpp and ppcdisasm, whose results the models take as
  given. Which opcodes are in which set of `PpcInstructionUD.cpp` is part of an
  instruction as it is given, not checked against the architecture.
- `DfgVisualizer.cpp` and the generated protobuf code: output and generated code
  without state. A project file is modelled as a whole.
- Argument parsing and messages of the commands; the lookup of the functions by name
  or address, which ends `checkflow` with exit code 22. By address it looks up
  both functions' locations in the first project (`src/src/cli/ppc2cpp.cpp:185`).
- In `CheckFlow`: absolute branches, and conditional branches out of the function
  without a relocation. `resolveTarget` is modelled in `ProgramLoading` for both.
- In `ProgramLoading`: common symbols (`SHN_COMMON`).

## Plan

Modelled and checked: every component above but the visualizer and the generated
code. What would come next, in this order:

1. `RegallocIgnored` for functions of every length: a renaming of own registers
   maps the one graph to the other.
