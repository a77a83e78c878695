---------------------------- MODULE RecursionGnark ----------------------------
(***************************************************************************)
(* The outer circuit: ConstraintCompiler's constraints and what the gnark  *)
(* circuit makes of each one.                                              *)
(*                                                                         *)
(* A Felt is a Variable of the scalar field, whose order is VarOrder, with *)
(* a bound on its value: additions and products are reduced modulo Order   *)
(* only when the bound has ReduceBits bits (the code's 120), and before    *)
(* comparisons.  A reduction's quotient and remainder are the prover's:    *)
(* an operation gives the set of the values its constraints allow, and     *)
(* when h holds, the one the circuit's hints compute.  An Ext is a pair of *)
(* Felts, and a Var a Variable whose bound has no meaning.                 *)
(***************************************************************************)
EXTENDS RecursionMachine

\* The values of Var an untrusted witness is taken from.
CONSTANTS ReduceBits, VarWitnesses

ASSUME GnarkAssumption ==
    /\ ReduceBits \in Nat
    /\ VarWitnesses \subseteq 0 .. VarOrder - 1

-----------------------------------------------------------------------------
(* ConstraintCompiler::emit.                                               *)

GnarkOps ==
    [ImmV |-> "ImmV", ImmF |-> "ImmF", ImmE |-> "ImmE",
     AddV |-> "AddV", AddVI |-> "AddV", AddF |-> "AddF", AddFI |-> "AddF", AddE |-> "AddE",
     AddEF |-> "AddEF", AddEFI |-> "AddEF", AddEI |-> "AddE", AddEFFI |-> "AddEF",
     SubV |-> "SubV", SubF |-> "SubF", SubFI |-> "SubF", SubFIN |-> "SubF", SubE |-> "SubE",
     SubEF |-> "SubEF", SubEI |-> "SubE", SubEIN |-> "SubE",
     MulV |-> "MulV", MulVI |-> "MulV", MulF |-> "MulF", MulFI |-> "MulF", MulE |-> "MulE",
     MulEI |-> "MulE", MulEF |-> "MulEF",
     DivF |-> "DivF", DivFIN |-> "DivF", DivE |-> "DivE", DivEIN |-> "DivE", DivEF |-> "DivEF",
     NegE |-> "NegE", CircuitNum2BitsF |-> "Num2BitsF",
     CircuitPoseidon2Permute |-> "Permute", CircuitPoseidon2PermuteKoalaBear |-> "PermuteKoalaBear",
     CircuitSelectV |-> "SelectV", CircuitSelectF |-> "SelectF", CircuitSelectE |-> "SelectE",
     CircuitExt2Felt |-> "Ext2Felt", CircuitFelts2Ext |-> "CircuitFelts2Ext",
     CircuitFelt2Var |-> "CircuitFelt2Var", ReduceE |-> "ReduceE",
     AssertEqV |-> "AssertEqV", AssertEqVI |-> "AssertEqV", AssertEqF |-> "AssertEqF",
     AssertEqFI |-> "AssertEqF", AssertEqE |-> "AssertEqE", AssertEqEI |-> "AssertEqE",
     AssertNeF |-> "AssertNeF", AssertNeFI |-> "AssertNeF",
     WitnessVar |-> "WitnessV", WitnessFelt |-> "WitnessF", WitnessExt |-> "WitnessE"]

Constraint(op, outs, args, val) == [op |-> op, outs |-> outs, args |-> args, val |-> val]

\* A constant argument is first put into a variable of the backend.
EmitOne(es, ir) ==
    LET consts == IF ir.op \in {"ImmV", "ImmF", "ImmE"} THEN {} ELSE {i \in DOMAIN ir.args : IsConst(ir.args[i])}
        tmp(i) == -(es.allocated + Cardinality({j \in consts : j <= i}))
        imms   == LET at[k \in 0 .. Len(ir.args)] ==
                          IF k = 0 THEN <<>>
                          ELSE IF k \in consts
                          THEN Append(at[k - 1], Constraint(ImmOps[ir.args[k].t], <<tmp(k)>>, <<>>, ir.args[k].v))
                          ELSE at[k - 1]
                  IN  at[Len(ir.args)]
        ids    == [i \in 1 .. Len(ir.args) |-> IF i \in consts THEN tmp(i) ELSE ir.args[i].v]
        outs   == [i \in 1 .. Len(ir.outs) |-> ir.outs[i].v]
        this   == CASE ir.op \in {"ImmV", "ImmF", "ImmE"} -> Constraint(ir.op, outs, <<>>, ir.args[1].v)
                    [] ir.op = "AddEFFI" -> Constraint("AddEF", outs, <<ids[2], ids[1]>>, Zero)
                    [] OTHER -> Constraint(GnarkOps[ir.op], outs, ids, Zero)
    IN  IF ir.op = "CircuitV2CommitPublicValues" THEN es
        ELSE IF ir.op \notin DOMAIN GnarkOps THEN [es EXCEPT !.panic = TRUE]
        ELSE [es EXCEPT !.instrs = @ \o imms \o <<this>>, !.allocated = @ + Cardinality(consts)]

emit(calls) ==
    LET OfCall(es, ops) ==
            LET upto[i \in 0 .. Len(ops)] ==
                    IF i = 0 THEN es
                    ELSE LET before == upto[i - 1] IN IF before.panic THEN before ELSE EmitOne(before, ops[i])
            IN  upto[Len(ops)]
        upto[c \in 0 .. Len(calls)] ==
            IF c = 0 THEN [instrs |-> <<>>, allocated |-> 0, panic |-> FALSE, ends |-> <<>>]
            ELSE LET before == upto[c - 1]
                     es == IF before.panic THEN before ELSE OfCall(before, calls[c].ops)
                 IN  [es EXCEPT !.ends = Append(@, Len(es.instrs))]
    IN  upto[Len(calls)]

-----------------------------------------------------------------------------
(* The chip for Felts.                                                     *)

Variable(v, b) == [v |-> v, b |-> b]
BitLen(n) == CHOOSE k \in 0 .. 31 : (k = 31 \/ n < 2 ^ k) /\ (k = 0 \/ n >= 2 ^ (k - 1))

\* Every member of S given to an operation.
Bind(S, Op(_)) == UNION {Op(x) : x \in S}

\* The remainders of x: x = quotient * Order + remainder in the scalar
\* field, the remainder canonical, the quotient of nb - (NumBits - 1) bits.
BugRemainders(h, x, nb) ==
    {r \in F : IF h THEN r = x % Order
               ELSE \E k \in 0 .. Order - 1 :
                        LET y == x + k * VarOrder - r IN y >= 0 /\ y % Order = 0}
Remainders(h, x, nb) ==
    {r \in F : \E k \in IF h THEN {0} ELSE 0 .. Order - 1 :
                   LET y == x + k * VarOrder - r
                   IN  y >= 0 /\ y % Order = 0 /\ y \div Order < 2 ^ (nb - (NumBits - 1))}

reduceWithMaxBits(h, x, nb) == IF nb <= NumBits - 1 THEN {x} ELSE Remainders(h, x, nb)

reduceFast(h, x) ==
    IF BitLen(x.b) >= ReduceBits
    THEN {Variable(r, Order - 1) : r \in reduceWithMaxBits(h, x.v, BitLen(x.b))}
    ELSE {x}
ReduceSlow(h, x) ==
    IF x.b < Order THEN {x}
    ELSE {Variable(r, Order - 1) : r \in reduceWithMaxBits(h, x.v, BitLen(x.b))}

RawAdd(a, b) == Variable((a.v + b.v) % VarOrder, a.b + b.b)
RawMul(a, b) == Variable(VarMul(a.v, b.v), a.b * b.b)
FConst(v) == Variable(v, v)

AddF(h, a, b) == reduceFast(h, RawAdd(a, b))
MulF(h, a, b) == reduceFast(h, RawMul(a, b))

BugNegF(h, a) == reduceFast(h, Variable((Order - a.v) % VarOrder, Order))
negF(h, a) ==
    LET lifted == (a.b \div Order + 1) * Order
    IN  reduceFast(h, Variable((lifted - a.v) % VarOrder, lifted))

SubF(h, a, b) == Bind(negF(h, b), LAMBDA n : AddF(h, a, n))

AssertIsEqualF(h, a, b) == \E x \in ReduceSlow(h, a), y \in ReduceSlow(h, b) : x.v = y.v
AssertNotEqualF(h, a, b) == \E x \in ReduceSlow(h, a), y \in ReduceSlow(h, b) : x.v # y.v

\* A hinted inverse is of NumBits bits.
Hinted(v) == Variable(v, 2 ^ NumBits)
invF(h, in) ==
    {x \in {Hinted(v) : v \in IF h THEN {(Inverses[y])[1] : y \in {Base(in.v)} \ {Zero}} ELSE 0 .. 2 ^ NumBits - 1} :
        \E p \in MulF(h, in, x) : AssertIsEqualF(h, p, FConst(1))}
DivF(h, a, b) == Bind(invF(h, b), LAMBDA x : MulF(h, a, x))

\* api.Select asserts that the condition is a bit.
SelectF(cond, a, b) ==
    IF cond.v \notin {0, 1} THEN {}
    ELSE {Variable(IF cond.v = 1 THEN a.v ELSE b.v, IF a.b < b.b THEN b.b ELSE a.b)}

-----------------------------------------------------------------------------
(* The chip for Exts: a pair of Felts.                                     *)

AddE(h, a, b) == InTurn(D, LAMBDA i : AddF(h, a[i], b[i]))
SubE(h, a, b) == InTurn(D, LAMBDA i : SubF(h, a[i], b[i]))
NegateE(h, a) == InTurn(D, LAMBDA i : negF(h, a[i]))
AddEF(h, a, b) == {<<x, a[2]>> : x \in AddF(h, a[1], b)}
SubEF(h, a, b) == {<<x, a[2]>> : x \in SubF(h, a[1], b)}
MulEF(h, a, b) == InTurn(D, LAMBDA i : MulF(h, a[i], b))

\* The sums of products are reduced only at the end.
MulE(h, a, b) ==
    LET twice == RawMul(a[2], b[2])
        raw   == <<RawAdd(RawMul(a[1], b[1]), Variable(VarMul(twice.v, NR), NR * twice.b)),
                   RawAdd(RawMul(a[1], b[2]), RawMul(a[2], b[1]))>>
    IN  InTurn(D, LAMBDA i : reduceFast(h, raw[i]))

AssertIsEqualE(h, a, b) == \A i \in 1 .. D : AssertIsEqualF(h, a[i], b[i])

ElementOf(a) == [i \in 1 .. D |-> a[i].v % Order]
InvE(h, in) ==
    {x \in IF h THEN {[i \in 1 .. D |-> Hinted(Inverses[y][i])] : y \in {ElementOf(in)} \ {Zero}}
           ELSE [1 .. D -> {Hinted(v) : v \in 0 .. 2 ^ NumBits - 1}] :
        \E p \in MulE(h, in, x) : AssertIsEqualE(h, p, <<FConst(1), FConst(0)>>)}
DivE(h, a, b) == Bind(InvE(h, b), LAMBDA x : MulE(h, a, x))
DivEF(h, a, b) == Bind(invF(h, b), LAMBDA x : MulEF(h, a, x))
SelectE(cond, a, b) == InTurn(D, LAMBDA i : SelectF(cond, a[i], b[i]))
ReduceEach(h, s) == InTurn(Len(s), LAMBDA i : ReduceSlow(h, s[i]))

-----------------------------------------------------------------------------
(* Poseidon2 over Felts.                                                   *)

Doubled(h, x) == reduceFast(h, Variable(VarMul(x.v, 2), 2 * x.b))

mdsLightPermutation4x4(h, s) ==
    Bind(AddF(h, s[1], s[2]), LAMBDA t01 :
    Bind(AddF(h, s[3], s[4]), LAMBDA t23 :
    Bind(AddF(h, t01, t23), LAMBDA t0123 :
    Bind(AddF(h, t0123, s[2]), LAMBDA t01123 :
    Bind(AddF(h, t0123, s[4]), LAMBDA t01233 :
        InTurn(4, LAMBDA i :
            CASE i = 1 -> AddF(h, t01123, t01)
              [] i = 2 -> Bind(Doubled(h, s[3]), LAMBDA d : AddF(h, t01123, d))
              [] i = 3 -> AddF(h, t01233, t23)
              [] i = 4 -> Bind(Doubled(h, s[1]), LAMBDA d : AddF(h, t01233, d))))))))

externalLinearLayer(h, s) ==
    Bind(mdsLightPermutation4x4(h, s), LAMBDA t : InTurn(WIDTH, LAMBDA i : AddF(h, t[i], t[i])))

sboxP(h, x) ==
    Bind(AddF(h, x, FConst(0)), LAMBDA y : Bind(ReduceSlow(h, y), LAMBDA z :
        ReduceSlow(h, Variable(VarMul(VarMul(z.v, z.v), z.v), Order * Order * Order))))

matmulInternal(h, s) ==
    Bind(AddF(h, FConst(0), s[1]), LAMBDA a : Bind(AddF(h, a, s[2]), LAMBDA b :
    Bind(AddF(h, b, s[3]), LAMBDA c : Bind(AddF(h, c, s[4]), LAMBDA sum :
        InTurn(WIDTH, LAMBDA i : Bind(MulF(h, s[i], FConst(Diagonal[i])), LAMBDA x : AddF(h, x, sum)))))))

\* Constants of the circuit and witnesses.
NewF(v) == Variable(v, 2 ^ (NumBits + 1))

GnarkFullRound(h, r, s) ==
    Bind(InTurn(WIDTH, LAMBDA i : Bind(AddF(h, s[i], FConst(RoundConstant(r, i))), LAMBDA x : sboxP(h, x))),
         LAMBDA t : externalLinearLayer(h, t))
GnarkPartialRound(h, r, s) ==
    Bind(Bind(AddF(h, s[1], FConst(RoundConstant(r, 1))), LAMBDA x : sboxP(h, x)),
         LAMBDA x : matmulInternal(h, [s EXCEPT ![1] = x]))

PermuteMut(h, s) ==
    LET rounds == NUM_EXTERNAL_ROUNDS + NUM_INTERNAL_ROUNDS
        upto[r \in 0 .. rounds] ==
            IF r = 0 THEN externalLinearLayer(h, s)
            ELSE Bind(upto[r - 1], LAMBDA t :
                     IF r - 1 < Half \/ r - 1 >= Half + NUM_INTERNAL_ROUNDS
                     THEN GnarkFullRound(h, r - 1, t) ELSE GnarkPartialRound(h, r - 1, t))
    IN  upto[rounds]

\* Poseidon2 over three Vars, with the same numbers of rounds.
VarRoundConstant(r, i) == (11 * r + 5 * i + 7 * r * i + 1) % VarOrder
VarSbox(x) == LET x2 == VarMul(x, x) IN VarMul(VarMul(x2, x2), x)
VarSum(s) == (s[1] + s[2] + s[3]) % VarOrder
matrixPermuteMut(s) == LET sum == VarSum(s) IN <<(s[1] + sum) % VarOrder, (s[2] + sum) % VarOrder, (s[3] + sum) % VarOrder>>
diffusionPermuteMut(s) ==
    LET sum == VarSum(s) IN <<(s[1] + sum) % VarOrder, (s[2] + sum) % VarOrder, (2 * s[3] + sum) % VarOrder>>
VarFullRound(r, s) ==
    LET Boxed(i) == VarSbox((s[i] + VarRoundConstant(r, i)) % VarOrder)
    IN  matrixPermuteMut(<<Boxed(1), Boxed(2), Boxed(3)>>)
VarPartialRound(r, s) ==
    diffusionPermuteMut(<<VarSbox((s[1] + VarRoundConstant(r, 1)) % VarOrder), s[2], s[3]>>)
PermuteVar(s) ==
    Rounds(matrixPermuteMut(<<s[1], s[2], s[3]>>), NUM_EXTERNAL_ROUNDS + NUM_INTERNAL_ROUNDS, LAMBDA r, t :
        IF r < Half \/ r >= Half + NUM_INTERNAL_ROUNDS THEN VarFullRound(r, t) ELSE VarPartialRound(r, t))

-----------------------------------------------------------------------------
(* Circuit::Define: what a constraint assigns to its outputs, a variable   *)
(* being a sequence of Variables (two for an Ext), given its arguments.    *)

Singles(S) == {<< <<x>> >> : x \in S}
Pairs(S) == {<<x>> : x \in S}

VarValue(v) == Variable(v, 0)
Opened(vs) == [i \in 1 .. Len(vs) |-> vs[i][1]]

\* A witness Felt is checked to be of NumBits bits.
WitnessFelts(h) == {NewF(v) : v \in IF h THEN F ELSE 0 .. 2 ^ NumBits - 1}

DefineOuts(h, cs, a) ==
    CASE cs.op = "ImmV" -> Singles({VarValue(cs.val[1])})
      [] cs.op = "ImmF" -> Singles({NewF(cs.val[1])})
      [] cs.op = "ImmE" -> Pairs({<<NewF(cs.val[1]), NewF(cs.val[2])>>})
      [] cs.op = "AddV" -> Singles({VarValue((a[1][1].v + a[2][1].v) % VarOrder)})
      [] cs.op = "SubV" -> Singles({VarValue((a[1][1].v - a[2][1].v) % VarOrder)})
      [] cs.op = "MulV" -> Singles({VarValue(VarMul(a[1][1].v, a[2][1].v))})
      [] cs.op = "AddF" -> Singles(AddF(h, a[1][1], a[2][1]))
      [] cs.op = "SubF" -> Singles(SubF(h, a[1][1], a[2][1]))
      [] cs.op = "MulF" -> Singles(MulF(h, a[1][1], a[2][1]))
      [] cs.op = "DivF" -> Singles(DivF(h, a[1][1], a[2][1]))
      [] cs.op = "AddE" -> Pairs(AddE(h, a[1], a[2]))
      [] cs.op = "SubE" -> Pairs(SubE(h, a[1], a[2]))
      [] cs.op = "MulE" -> Pairs(MulE(h, a[1], a[2]))
      [] cs.op = "DivE" -> Pairs(DivE(h, a[1], a[2]))
      [] cs.op = "AddEF" -> Pairs(AddEF(h, a[1], a[2][1]))
      [] cs.op = "SubEF" -> Pairs(SubEF(h, a[1], a[2][1]))
      [] cs.op = "MulEF" -> Pairs(MulEF(h, a[1], a[2][1]))
      [] cs.op = "DivEF" -> Pairs(DivEF(h, a[1], a[2][1]))
      [] cs.op = "NegE" -> Pairs(NegateE(h, a[1]))
      [] cs.op = "Num2BitsF" ->
           {[i \in 1 .. Len(cs.outs) |-> <<VarValue((x.v \div 2 ^ (i - 1)) % 2)>>] : x \in ReduceSlow(h, a[1][1])}
      [] cs.op = "PermuteKoalaBear" ->
           {[i \in 1 .. WIDTH |-> <<s[i]>>] : s \in PermuteMut(h, Opened(a))}
      [] cs.op = "Permute" ->
           LET s == PermuteVar(<<a[1][1].v, a[2][1].v, a[3][1].v>>) IN {[i \in 1 .. 3 |-> <<VarValue(s[i])>>]}
      [] cs.op \in {"SelectV", "SelectF"} -> Singles(SelectF(a[1][1], a[2][1], a[3][1]))
      [] cs.op = "SelectE" -> Pairs(SelectE(a[1][1], a[2], a[3]))
      [] cs.op = "Ext2Felt" -> {[i \in 1 .. D |-> <<a[1][i]>>]}
      [] cs.op = "CircuitFelts2Ext" -> Pairs({Opened(a)})
      [] cs.op = "CircuitFelt2Var" -> Singles({VarValue(x.v) : x \in ReduceSlow(h, a[1][1])})
      [] cs.op = "ReduceE" -> Pairs(ReduceEach(h, a[1]))
      [] cs.op = "AssertEqV" -> IF a[1][1].v = a[2][1].v THEN {<<>>} ELSE {}
      [] cs.op = "AssertEqF" -> IF AssertIsEqualF(h, a[1][1], a[2][1]) THEN {<<>>} ELSE {}
      [] cs.op = "AssertNeF" -> IF AssertNotEqualF(h, a[1][1], a[2][1]) THEN {<<>>} ELSE {}
      [] cs.op = "AssertEqE" -> IF AssertIsEqualE(h, a[1], a[2]) THEN {<<>>} ELSE {}
      [] cs.op = "WitnessV" -> Singles({VarValue(v) : v \in VarWitnesses})
      [] cs.op = "WitnessF" -> Singles(WitnessFelts(h))
      [] cs.op = "WitnessE" -> Pairs([1 .. D -> WitnessFelts(h)])

=============================================================================
