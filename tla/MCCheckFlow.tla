---------------------------- MODULE MCCheckFlow ----------------------------
(* Functions of four instructions for the runs of CheckFlow.               *)
EXTENDS CheckFlow

Op(name, class, kinds, values) ==
    [name |-> name, class |-> class, sets |-> "", kinds |-> kinds, bases |-> {},
     values |-> values, relocatable |-> class # "fixed", reloc |-> NoReloc, callee |-> NoReloc,
     kind |-> "plain", link |-> FALSE, bo |-> 20, bi |-> 2, target |-> External]

G == <<"GPR", "GPR_0", "constant">>
Li(d, v)     == Op("addi", "fixed", G, <<d, 0, v>>)
Addi(d, a)   == Op("addi", "fixed", G, <<d, a, 1>>)
Lis(d, s)    == [Op("addis", "fixed", G, <<d, 0, 0>>) EXCEPT !.relocatable = TRUE, !.reloc = s]
Add(d, a, b) == Op("add", "fixed", <<"GPR", "GPR", "GPR">>, <<d, a, b>>)
Addc(d, a, b) == [Add(d, a, b) EXCEPT !.name = "add.", !.sets = "CR0"]
Cmpwi(a)     == Op("cmpwi", "fixed", <<"CR_REG", "GPR", "constant">>, <<0, a, 0>>)
Lwzu(d, a)   == [Op("lwzu", "load", <<"GPR", "constant", "GPR">>, <<d, 4, a>>) EXCEPT !.bases = {3}]
Lwz(d, a)    == Op("lwz", "load", <<"GPR", "constant", "GPR_0">>, <<d, 4, a>>)
Stw(s, a)    == Op("stw", "store", <<"GPR", "constant", "GPR_0">>, <<s, 0, a>>)
Mtspr(n, s)  == Op("mtspr", "fixed", <<"SPR", "GPR">>, <<n, s>>)
Mtctr(s)     == Mtspr(9, s)
Fmr          == [Op("fmr.", "float", <<"FPR", "FPR">>, <<1, 2>>) EXCEPT !.sets = "CR1"]
Lmw          == Op("lmw", "none", <<"GPR", "constant", "GPR">>, <<30, 0, 4>>)

Jump(name, kind, bo, target) ==
    [Op(name, "branch", <<>>, <<>>) EXCEPT !.kind = kind, !.bo = bo, !.target = target]
Bl(s)      == [Jump("bl", "b", 20, External) EXCEPT !.link = TRUE, !.callee = s]
Bc(bo, t)  == Jump("bc", "bc", bo, t)
BlrIf(bo)  == Jump("bclr", "bclr", bo, External)
BctrIf(bo) == Jump("bcctr", "bcctr", bo, External)
Blr        == BlrIf(20)

Fun(lines)   == [p \in Positions |-> lines[p + 1]]
Bodies(Line) == {Fun(Append(l, Blr)) : l \in [1..(Length - 1) -> Line]}

(* Straight functions, each against every other of the same few lines.     *)
Patterns == {
    Fun(<<Li(3, 1), Add(3, 3, 5), Stw(3, 5), Blr>>),
    Fun(<<Li(5, 1), Add(3, 5, 5), Stw(3, 5), Blr>>),
    Fun(<<Bl("f"), Stw(3, 5), Li(3, 1), Blr>>),
    Fun(<<Add(3, 3, 5), Bl("f"), Stw(3, 5), Blr>>),
    Fun(<<Li(3, 1), Bl("f"), Bl("f"), Blr>>),
    Fun(<<Stw(3, 5), Li(3, 1), Li(3, 2), Blr>>) }
StraightPairs ==
    Patterns \X Bodies({Li(3, 1), Add(3, 3, 5), Stw(3, 5), Bl("f")})
    \cup {Fun(<<Lis(5, "a"), Stw(3, 5), Fmr, Blr>>)}
            \X {Fun(<<Lis(5, s), Stw(3, 5), l, Blr>>) :
                    s \in {"a", "b", "unresolved"}, l \in {Fmr, Lmw}}
    \cup {Fun(<<Lwzu(3, 5), Stw(3, 5), Addc(5, 3, 5), Blr>>)}
            \X {Fun(<<Lwzu(3, r), Stw(3, 5), Addc(5, r, 5), Blr>>) : r \in {3, 5}}
    \cup {Fun(<<Li(5, 4), Lwz(3, a), Stw(3, 0), Blr>>) : a \in {0, 5}}
            \X {Fun(<<Li(5, 4), Lwz(3, a), Stw(3, b), Blr>>) : a, b \in {0, 5}}

(* Renamed functions, with and without a branch.                           *)
RenamedPairs ==
    UNION {{<<f, Renamed(f, pi)>> :
              f \in Bodies({Li(5, 1), Li(6, 2), Add(3, 5, 6), Stw(6, 5), Bc(12, 3)}),
              pi \in Renamings({5, 6})},
           {<<f, Renamed(f, pi)>> :
              f \in Bodies({Li(30, 1), Add(31, 30, 30), Bl("f"), Stw(31, 30)}),
              pi \in Renamings({30, 31})}}

(* A branch with every value of BO, and one to a target not found.         *)
BranchPairs ==
    LET Around(l) == Fun(<<Cmpwi(3), l, Mtctr(3), Blr>>)
    IN  {<<Around(l), Around(l)>> :
            l \in UNION {{Bc(bo, 3), BlrIf(bo), BctrIf(bo)} : bo \in 0..31}
                     \cup {Bc(12, Unresolved), Bc(12, 2), Lmw, Mtspr(26, 3)}}
        \cup {<<Around(Bc(12, 3)), Around(l)>> : l \in {BlrIf(12), Bc(28, 3), Bc(12, Unresolved)}}
        \cup {<<Fun(<<Cmpwi(3), Bc(12, 3), Lmw, Blr>>), Fun(<<Cmpwi(3), Bc(12, 3), l, Blr>>)>> :
                 l \in {Lmw, Blr}}
        \cup {<<Fun(<<Cmpwi(3), Bc(12, 3), Blr, Blr>>), Fun(<<Cmpwi(3), Bc(12, 3), Lmw, Blr>>)>>}

SomePairs == StraightPairs \cup RenamedPairs \cup BranchPairs

(* The two values of r3 join at the return.                                *)
JoinPair ==
    LET f == Fun(<<Li(3, 1), Bc(12, 3), Li(3, 2), Blr>>) IN {<<f, f>>}

MCRegs == Gprs({3, 4, 5, 6, 30, 31}) \cup Fprs({1, 2}) \cup Crs({2}) \cup {LR, CTR}
MCKilled  == killedByCall \cap MCRegs
MCDefined == definedByCall \cap MCRegs
MCInsns ==
    UNION {UNION {{CodeOf(p[v])[q] : q \in Positions} : v \in {1, 2}} :
              p \in SomePairs \cup JoinPair}
=============================================================================
