--------------------------- MODULE RecursionMachine ---------------------------
(***************************************************************************)
(* The recursion machine: what its runtime computes for an instruction,    *)
(* and which outputs the rows of the instruction's chip allow.  The two    *)
(* differ for hints, which nothing but the program's own checks constrain, *)
(* and for quotients of 0.                                                 *)
(*                                                                         *)
(* Poseidon2 has a reference definition, as the runtime computes it, one   *)
(* for the wide chip's row and one for the skinny chip's rows.  The round  *)
(* constants are arbitrary.                                                *)
(***************************************************************************)
EXTENDS RecursionCompiler

CONSTANTS NUM_EXTERNAL_ROUNDS, NUM_INTERNAL_ROUNDS

\* The skinny chip keeps the constants of all the internal rounds in one row.
ASSUME RoundsAssumption ==
    /\ WIDTH = 4
    /\ NUM_EXTERNAL_ROUNDS \in Nat /\ NUM_EXTERNAL_ROUNDS % 2 = 0 /\ NUM_EXTERNAL_ROUNDS >= 2
    /\ NUM_INTERNAL_ROUNDS \in 1 .. WIDTH

-----------------------------------------------------------------------------
(* Poseidon2; a state is a sequence of WIDTH elements of F.                *)

\* The code's tables hold words that need not be below the order.
RoundConstant(round, i) == (3 * round + i + round * i) % 2 ^ (NumBits + 1)
RoundConstants(round) == [i \in 1 .. WIDTH |-> RoundConstant(round, i)]
Sbox(x) == (x * x * x) % Order
Half == NUM_EXTERNAL_ROUNDS \div 2

Mds == << <<2, 3, 1, 1>>, <<1, 2, 3, 1>>, <<1, 1, 2, 3>>, <<3, 1, 1, 2>> >>
external_linear_layer(s) ==
    LET Row(m) == (2 * (m[1] * s[1] + m[2] * s[2] + m[3] * s[3] + m[4] * s[4])) % Order
    IN  <<Row(Mds[1]), Row(Mds[2]), Row(Mds[3]), Row(Mds[4])>>

Diagonal == <<Order - 2, 1, 2, (Order + 1) \div 2>>
internal_linear_layer(s) ==
    LET Row(i) == (Diagonal[i] * s[i] + s[1] + s[2] + s[3] + s[4]) % Order
    IN  <<Row(1), Row(2), Row(3), Row(4)>>

\* TLC evaluates the state once and before the round.
Rounds(s, n, Round(_, _)) ==
    LET upto[r \in 0 .. n] ==
            IF r = 0 THEN s ELSE CHOOSE next \in {Round(r - 1, state) : state \in {upto[r - 1]}} : TRUE
    IN  upto[n]

FullRound(s, c) ==
    external_linear_layer(<<Sbox(s[1] + c[1]), Sbox(s[2] + c[2]), Sbox(s[3] + c[3]), Sbox(s[4] + c[4])>>)
PartialRound(s, constant) == internal_linear_layer(<<Sbox(s[1] + constant), s[2], s[3], s[4]>>)

\* The runtime's permutation: half of the full rounds, the partial rounds and
\* the other half.
RoundAt(r, s) ==
    IF r \in Half .. Half + NUM_INTERNAL_ROUNDS - 1 THEN PartialRound(s, RoundConstant(r, 1))
    ELSE FullRound(s, RoundConstants(r))
Permute(s) == Rounds(external_linear_layer(s), NUM_EXTERNAL_ROUNDS + NUM_INTERNAL_ROUNDS, RoundAt)

\* The columns of a row of the wide chip, from external_rounds_state[0].
WideExternalRound(r, state) ==
    LET round == IF r < Half THEN r ELSE r + NUM_INTERNAL_ROUNDS
    IN  FullRound(IF r = 0 THEN external_linear_layer(state) ELSE state,
                  RoundConstants(round))
WideInternalRound(r, state) == PartialRound(state, RoundConstant(r + Half, 1))
WideRow(input) ==
    LET internal_rounds_state == Rounds(input, Half, WideExternalRound)
        middle == Rounds(internal_rounds_state, NUM_INTERNAL_ROUNDS, WideInternalRound)
    IN  Rounds(middle, Half, LAMBDA r, s : WideExternalRound(r + Half, s))

\* The rows of the skinny chip: the input, the external rounds with one row
\* for all the internal ones among them, the output.
INTERNAL_ROUND_IDX == Half + 1
OUTPUT_ROUND_IDX == NUM_EXTERNAL_ROUNDS + 2

BugSkinnyRound(i) == IF i < INTERNAL_ROUND_IDX THEN i - 1 ELSE i - 1 + NUM_INTERNAL_ROUNDS
SkinnyRound(i) == IF i < INTERNAL_ROUND_IDX THEN i - 1 ELSE i - 1 + NUM_INTERNAL_ROUNDS - 1

SkinnyNextRow(i, state) ==
    CASE i = 0 -> external_linear_layer(state)
      [] i = INTERNAL_ROUND_IDX ->
           Rounds(state, NUM_INTERNAL_ROUNDS, LAMBDA r, s : PartialRound(s, RoundConstant(Half + r, 1)))
      [] OTHER -> FullRound(state, RoundConstants(SkinnyRound(i)))
SkinnyRows(input) == Rounds(input, OUTPUT_ROUND_IDX, SkinnyNextRow)

Coords(blocks) == [i \in 1 .. Len(blocks) |-> blocks[i][1]]
Blocks(coords) == [i \in 1 .. Len(coords) |-> Base(coords[i])]

-----------------------------------------------------------------------------
(* The machines' chips.  An instruction whose chip a machine does not have *)
(* gets no rows in it.                                                     *)

CommonChips == {"Mem", "Hint", "HintBits", "HintAddCurve", "HintExt2Felts", "BaseAlu", "ExtAlu",
                "Poseidon2", "BatchFRI", "Select", "CommitPublicValues"}

BugChipsOf(cfg) == CommonChips
ChipsOf(cfg) ==
    CASE cfg = "inner" -> CommonChips \cup {"ExpReverseBitsLen"}
      [] cfg = "wrap"  -> CommonChips
      [] cfg = "all"   -> CommonChips \cup {"ExpReverseBitsLen", "FriFold"}

PoseidonRows(cfg, input) == IF cfg = "wrap" THEN SkinnyRows(input) ELSE WideRow(input)

-----------------------------------------------------------------------------
(* Runtime::run: the outputs of an instruction, given the values it reads, *)
(* as a set: empty when the runtime fails.  The witness stream of a Hint   *)
(* holds whatever its writer put there.                                    *)

\* The first bit is the exponent's highest.
ExponentOf(bits) ==
    LET val[i \in 0 .. Len(bits)] == IF i = 0 THEN 0 ELSE val[i - 1] + bits[i][1] * 2 ^ (i - 1)
        reversed[i \in 0 .. Len(bits)] ==
            IF i = 0 THEN 0 ELSE 2 * reversed[i - 1] + ((val[Len(bits)] \div 2 ^ (i - 1)) % 2)
    IN  reversed[Len(bits)]

Quotients(x, y) ==
    IF y # Zero THEN {Apply("div", x, y)} ELSE IF x = Zero THEN {One} ELSE {}

\* The point of x that is on the line of this slope through p, mirrored.
Mirrored(p, slope, x) == <<x, Sub(Mul(slope, Sub(p[1], x)), p[2])>>
SumOnLine(p, q, slope) == Mirrored(p, slope, Sub(Sub(Mul(slope, slope), p[1]), q[1]))
add_incomplete(p, q) == SumOnLine(p, q, Mul(Sub(q[2], p[2]), Inv(Sub(q[1], p[1]))))

\* The openings of an instruction of FriFold: mat_opening, ps_at_z,
\* alpha_pow_input and ro_input at m.
FoldSize(reads) == (Len(reads) - 3) \div 4
FoldInput(reads, k, m) == reads[3 + k * FoldSize(reads) + m]

FoldQuotient(reads, m) ==
    Mul(Sub(FoldInput(reads, 0, m), FoldInput(reads, 1, m)), Inv(Sub(reads[1], reads[2])))
NewRo(reads, m) ==
    Add(FoldInput(reads, 3, m), Mul(FoldInput(reads, 2, m), FoldQuotient(reads, m)))
NewAlphaPow(reads, m) == Mul(FoldInput(reads, 2, m), reads[3])

\* p_at_x, p_at_z and alpha_pow at m.
BatchSize(reads) == Len(reads) \div 3
BatchTerm(reads, m) ==
    LET k == BatchSize(reads) IN Mul(reads[2 * k + m], Sub(reads[k + m], reads[m]))
BatchAcc(reads) == SumOf([m \in 1 .. BatchSize(reads) |-> BatchTerm(reads, m)])

SelectOuts(bit, in1, in2) ==
    LET Pick(x, y) == Add(Mul(bit, y), Mul(Sub(One, bit), x)) IN <<Pick(in1, in2), Pick(in2, in1)>>

Executed(instr, reads, ghosts) ==
    CASE instr.kind = "Mem" -> {<<instr.val>>}
      [] instr.kind \in {"BaseAlu", "ExtAlu"} ->
           IF instr.f = "div" THEN {<<q>> : q \in Quotients(reads[1], reads[2])}
           ELSE {<<Apply(instr.f, reads[1], reads[2])>>}
      [] instr.kind = "Poseidon2" -> {Blocks(Permute(Coords(reads)))}
      [] instr.kind = "Select" -> {SelectOuts(reads[1], reads[2], reads[3])}
      [] instr.kind = "ExpReverseBitsLen" -> {<<Pow(reads[1], ExponentOf(Tail(reads)))>>}
      [] instr.kind = "FriFold" ->
           IF reads[1] = reads[2] /\ FoldSize(reads) > 0 THEN {}
           ELSE {[m \in 1 .. FoldSize(reads) |-> NewAlphaPow(reads, m)]
                    \o [m \in 1 .. FoldSize(reads) |-> NewRo(reads, m)]}
      [] instr.kind = "BatchFRI" -> {<<BatchAcc(reads)>>}
      [] instr.kind = "CommitPublicValues" -> {<<>>}
      [] instr.kind = "Hint" -> [1 .. Len(instr.w) -> IF instr.f = "E" THEN EF ELSE BaseElements]
      [] instr.kind = "HintBits" -> {BitsOf(ghosts[1], Len(instr.w))}
      [] instr.kind = "HintExt2Felts" -> {[i \in 1 .. D |-> Base(ghosts[1][i])]}
      [] instr.kind = "HintAddCurve" ->
           IF ghosts[1] = ghosts[3] THEN {}
           ELSE {add_incomplete(<<ghosts[1], ghosts[2]>>, <<ghosts[3], ghosts[4]>>)}

-----------------------------------------------------------------------------
(* The rows' constraints: the outputs they allow for the values read.      *)

\* All the sequences of one member of Op(i) for each i in 1 .. n.
InTurn(n, Op(_)) ==
    LET upto[i \in 0 .. n] ==
            IF i = 0 THEN {<<>>} ELSE {Append(s, x) : s \in upto[i - 1], x \in Op(i)}
    IN  upto[n]

\* Which of the values read are read as single elements.
SingleReads(instr) ==
    CASE instr.kind = "ExtAlu" -> {}
      [] instr.kind = "FriFold" -> {1}
      [] instr.kind = "BatchFRI" -> 1 .. BatchSize(instr.r)
      [] OTHER -> 1 .. Len(instr.r)

AluRow(f, in1, in2, out) ==
    CASE f = "add" -> Add(in1, in2) = out
      [] f = "sub" -> in1 = Add(in2, out)
      [] f = "mul" -> Mul(in1, in2) = out
      [] f = "div" -> Mul(in2, out) = in1

\* The values accum may have after the rows of the bits.
ExpAccums(x, bits) ==
    LET Multipliers(bit) ==
            {m \in BaseElements : Mul(bit, Sub(m, x)) = Zero /\ Mul(Sub(One, bit), Sub(m, One)) = Zero}
        accums[i \in 1 .. Len(bits)] ==
            IF i = 1 THEN Multipliers(bits[1])
            ELSE {Mul(Mul(a, a), m) : a \in accums[i - 1], m \in Multipliers(bits[i])}
    IN  IF bits = <<>> THEN BaseElements ELSE accums[Len(bits)]

FoldRow(reads, new_ro, m) ==
    Mul(Sub(new_ro, FoldInput(reads, 3, m)), Sub(reads[1], reads[2]))
        = Mul(Sub(FoldInput(reads, 0, m), FoldInput(reads, 1, m)), FoldInput(reads, 2, m))
FoldRows(reads) ==
    {[m \in 1 .. FoldSize(reads) |-> NewAlphaPow(reads, m)] \o ro :
        ro \in InTurn(FoldSize(reads), LAMBDA m : {v \in EF : FoldRow(reads, v, m)})}

\* What a hint's rows hold is not constrained; a value that some row reads
\* as a single element must be one.
HintOuts(instr, single) ==
    LET all == \A i \in DOMAIN instr.w : instr.w[i] \in single
    IN  {outs \in [1 .. Len(instr.w) -> IF all THEN BaseElements ELSE EF] :
            \A i \in DOMAIN outs : instr.w[i] \in single => IsBase(outs[i])}

RowOuts(cfg, instr, reads, single) ==
    IF \E i \in SingleReads(instr) : ~IsBase(reads[i]) THEN {}
    ELSE CASE instr.kind = "Mem" -> {<<instr.val>>}
           [] instr.kind \in {"BaseAlu", "ExtAlu"} ->
                {<<o>> : o \in {v \in IF instr.kind = "BaseAlu" THEN BaseElements ELSE EF :
                                    AluRow(instr.f, reads[1], reads[2], v)}}
           [] instr.kind = "Poseidon2" -> {Blocks(PoseidonRows(cfg, Coords(reads)))}
           [] instr.kind = "Select" -> {SelectOuts(reads[1], reads[2], reads[3])}
           [] instr.kind = "ExpReverseBitsLen" -> {<<o>> : o \in ExpAccums(reads[1], Tail(reads))}
           [] instr.kind = "FriFold" -> FoldRows(reads)
           [] instr.kind = "BatchFRI" -> {<<BatchAcc(reads)>>}
           [] instr.kind = "CommitPublicValues" -> {<<>>}
           [] OTHER -> HintOuts(instr, single)

-----------------------------------------------------------------------------
(* The memory lookups: every row's reads and writes, with their            *)
(* multiplicities, must cancel out.                                        *)

CountOf(s, a) == Cardinality({i \in DOMAIN s : s[i] = a})

\* Only the first commitment of public values has rows; an exponent without
\* bits and a batch without openings have none.
HasRows(cfg, instrs, i) ==
    /\ instrs[i].kind \in ChipsOf(cfg)
    /\ instrs[i].kind = "CommitPublicValues" =>
         \A j \in 1 .. i - 1 : instrs[j].kind # "CommitPublicValues"
    /\ instrs[i].kind = "ExpReverseBitsLen" => Len(instrs[i].r) > 1
    /\ instrs[i].kind = "BatchFRI" => Len(instrs[i].r) > 0

\* A write is sent with the multiplicity the compiler counted; the chip of
\* BatchFRI sends its result once.
BugSent(instr, mults, a) == IF instr.kind = "Hint" THEN 1 ELSE mults[a]
Sent(instr, mults, a) == IF instr.kind = "BatchFRI" THEN 1 ELSE mults[a]

Balanced(cfg, code) ==
    LET rows  == {i \in DOMAIN code.instrs : HasRows(cfg, code.instrs, i)}
        reads == UNION {{<<i, j>> : j \in DOMAIN code.instrs[i].r} : i \in rows}
        Received(a) == Cardinality({p \in reads : code.instrs[p[1]].r[p[2]] = a})
        SentBy(a) == LET writers == {i \in rows : CountOf(code.instrs[i].w, a) > 0}
                     IN  IF writers = {} THEN 0
                         ELSE Sent(code.instrs[CHOOSE i \in writers : TRUE], code.mults, a)
    IN  \A a \in DOMAIN code.mults : (SentBy(a) - Received(a)) % AddrOrder = 0

=============================================================================
