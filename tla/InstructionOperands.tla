------------------------ MODULE InstructionOperands ------------------------
(***************************************************************************)
(* instructionUD: what an instruction uses and defines.  The opcode tables *)
(* and the decoding of fields are ppcdisasm's; an instruction is taken     *)
(* here as they deliver it.                                                *)
(***************************************************************************)
EXTENDS Integers, Sequences, FiniteSets, SequencesExt, Sublists

(* Registers, each by its space and its number.                            *)
LR  == <<"SPR", 8>>
CTR == <<"SPR", 9>>
XER == <<"SPR", 1>>
Gprs(numbers) == {<<"GPR", n>> : n \in numbers}
Fprs(numbers) == {<<"FPR", n>> : n \in numbers}
Crs(numbers)  == {<<"CR_BIT", n>> : n \in numbers}

(* The calling convention: what a call destroys and what it returns.       *)
killedByCall ==
    Gprs({0} \cup 3..12) \cup Fprs(0..13) \cup Crs(0..8 \cup 21..31) \cup {LR, XER, CTR}
definedByCall == Gprs({3, 4}) \cup Fprs({1})

NoReloc == "none"

(* The sets that partition the supported instructions; others are "none".  *)
nonStore == {"fixed", "float", "load"}
Classes  == nonStore \cup {"store", "branch"}

(***************************************************************************)
(* An instruction: its opcode (name, class, the kind of each operand and   *)
(* whether that is RAL or RAS, the condition field it sets besides, whether *)
(* relocations may stand for its constants), the values of its operands,   *)
(* the symbol its relocation refers to, and for a branch the fields of     *)
(* handleBranchUD.  target is relative to the function's start.            *)
(***************************************************************************)
OperandKinds == {"GPR", "GPR_0", "FPR", "GQR", "CR_BIT", "SPR", "CR_REG",
                 "constant", "optional32", "other"}

Fields == {"name", "class", "sets", "kinds", "bases", "values", "relocatable", "reloc",
           "callee", "kind", "link", "bo", "bi", "target"}

IsInstruction(i) ==
    /\ Fields \subseteq DOMAIN i
    /\ i.class \in Classes \cup {"none"} /\ i.sets \in {"", "CR0", "CR1"}
    /\ i.class = "branch" <=> i.kind # "plain"
    /\ i.kinds \in Seq(OperandKinds)
    /\ i.bases \subseteq DOMAIN i.kinds
    /\ DOMAIN i.values = DOMAIN i.kinds
    /\ {i.relocatable, i.link} \subseteq BOOLEAN
    /\ i.bo \in 0..31 /\ i.bi \in 0..31

appendCRRegister(field) == [k \in 1..4 |-> <<"CR_BIT", 4 * field + k - 1>>]

isOperandRegister(kind, value) ==
    \/ kind \in {"GPR", "FPR", "GQR", "CR_BIT", "SPR", "CR_REG"}
    \/ kind = "GPR_0" /\ value # 0

appendOperands(kind, value) ==
    IF kind = "CR_REG" THEN appendCRRegister(value)
    ELSE <<<<IF kind = "GPR_0" THEN "GPR" ELSE kind, value>>>>

isImmediate(kind, value) ==
    \/ kind = "constant"
    \/ kind = "GPR_0" /\ value = 0

UD(refs, imms, ins, outs) == [refs |-> refs, imms |-> imms, inputs |-> ins, outputs |-> outs]

-----------------------------------------------------------------------------
(* handleBranchUD.                                                         *)

(* BO: which values there are, and which of them read the condition or     *)
(* count CTR down.                                                         *)
Decodable(bo)    == bo < 28
TestsCR(bo)      == bo < 16
DecrementsCTR(bo) == (bo \div 4) % 2 = 0

Destination(i, pc) ==
    IF i.reloc # NoReloc THEN UD(<<i.reloc>>, <<>>, <<>>, {})
    ELSE UD(<<>>, <<4 * (i.target - pc), 0>>, <<>>, {})

handleBranchUD(i, pc) ==
    LET d      == Destination(i, pc)
        ctr    == i.kind # "b" /\ DecrementsCTR(i.bo)
        tested == (IF ctr THEN <<CTR>> ELSE <<>>)
                    \o (IF TestsCR(i.bo) THEN <<<<"CR_BIT", i.bi>>>> ELSE <<>>)
    IN  UD(IF i.kind \in {"b", "bc"} THEN d.refs ELSE <<>>,
           CASE i.kind = "b"  -> d.imms
             [] i.kind = "bc" -> <<i.bo>> \o d.imms
             [] OTHER         -> <<i.bo>>,
           CASE i.kind = "b"    -> <<>>
             [] i.kind = "bc"   -> tested
             [] i.kind = "bclr" -> Append(tested, LR)
             [] OTHER           -> Append(tested, CTR),
           (IF ctr THEN {CTR} ELSE {}) \cup (IF i.link THEN {LR} ELSE {}))

-----------------------------------------------------------------------------
(* instructionUD.                                                          *)

\* The special registers of a context: XER, LR, CTR and, as 912..919, the GQRs.
KnownSpr(number) == number \in {1, 8, 9} \cup 912..919

\* The analysis goes through the instruction, from its operands to the context.
Supported(i) ==
    /\ i.class \in Classes
    /\ i.class = "branch" => i.kind = "b" \/ Decodable(i.bo)
    /\ i.class # "branch" =>
          \A k \in DOMAIN i.kinds :
             i.kinds[k] # "other" /\ (i.kinds[k] = "SPR" => KnownSpr(i.values[k]))

Registers(i)  == {k \in DOMAIN i.kinds : isOperandRegister(i.kinds[k], i.values[k])}
Immediates(i) == {k \in DOMAIN i.kinds : isImmediate(i.kinds[k], i.values[k])}

(* The operands at the places K, as the loops over all of them meet them.  *)
InOrder(i, K) == Sublist([k \in DOMAIN i.kinds |-> k], K)

(* Unless it stores, an instruction defines its first register operand.    *)
Defined(i) ==
    IF i.class \in nonStore THEN {k \in Registers(i) : \A m \in Registers(i) : k <= m} ELSE {}

InputsOf(i) ==
    LET k == InOrder(i, Registers(i) \ Defined(i))
    IN  FlattenSeq([n \in DOMAIN k |-> appendOperands(i.kinds[k[n]], i.values[k[n]])])

OutputsOf(i) ==
    UNION {ToSet(appendOperands(i.kinds[k], i.values[k])) : k \in Defined(i)}
        \cup {<<"GPR", i.values[k]>> : k \in i.bases \cap Registers(i)}
        \cup (IF i.sets = "CR0" THEN ToSet(appendCRRegister(0)) ELSE {})
        \cup (IF i.sets = "CR1" THEN ToSet(appendCRRegister(1)) ELSE {})

instructionUD(i, pc) ==
    LET places    == InOrder(i, Immediates(i))
        constants == [n \in DOMAIN places |-> i.values[places[n]]]
        relocated == i.relocatable /\ i.reloc # NoReloc
    IN  IF i.class = "branch" THEN handleBranchUD(i, pc)
        ELSE UD(IF relocated THEN [n \in DOMAIN constants |-> i.reloc] ELSE <<>>,
                IF relocated THEN <<>> ELSE constants,
                InputsOf(i), OutputsOf(i))
=============================================================================
