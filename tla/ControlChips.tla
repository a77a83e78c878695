---------------------------- MODULE ControlChips ----------------------------
(***************************************************************************)
(* Branches, jumps, conditional moves and the other instructions that are  *)
(* neither ALU nor memory instructions: what the executor computes, which  *)
(* ALU events it emits for the lookups of their chips, and the rows these  *)
(* chips accept.                                                           *)
(*                                                                         *)
(* An instruction i is a record of its opcode and its operands: a is what  *)
(* the register op_a holds before, rz says that op_a is the register 0.    *)
(* SEXT and WSBH are about the bytes of a four-limb word, like the memory  *)
(* instructions.                                                           *)
(***************************************************************************)
EXTENDS AluChips, MemoryChip

BranchOps == {"BEQ", "BNE", "BLTZ", "BGEZ", "BLEZ", "BGTZ"}
JumpOps == {"Jump", "Jumpi", "JumpDirect"}
MovCondOps == {"MEQ", "MNE", "WSBH"}
MaddOps == {"MADD", "MADDU"}
MaddsubOps == MaddOps \union {"MSUB", "MSUBU"}
MiscOps == MaddsubOps \union {"SEXT", "EXT", "INS", "TEQ"}

-----------------------------------------------------------------------------
(* The executor.                                                           *)

ShouldJump(op, src1, src2) ==
    CASE op = "BEQ"  -> src1 = src2
      [] op = "BNE"  -> src1 # src2
      [] op = "BGEZ" -> Signed(src1) >= 0
      [] op = "BLEZ" -> Signed(src1) <= 0
      [] op = "BGTZ" -> Signed(src1) > 0
      [] op = "BLTZ" -> Signed(src1) < 0

\* A branch offset added without wrapping.
BugBranchTarget(i, next_pc) ==
    IF ShouldJump(i.op, i.a, i.b) THEN i.c + next_pc ELSE Wrap(next_pc + 4)

BranchTarget(i, next_pc) ==
    IF ShouldJump(i.op, i.a, i.b) THEN Wrap(i.c + next_pc) ELSE Wrap(next_pc + 4)

JumpTarget(i, next_pc) == IF i.op = "JumpDirect" THEN Wrap(i.b + next_pc) ELSE i.b

\* execute_condmov and execute_wsbh
ExecuteMovCond(i) ==
    CASE i.op = "MEQ" -> IF i.c = 0 THEN i.b ELSE i.a
      [] i.op = "MNE" -> IF i.c # 0 THEN i.b ELSE i.a
      [] i.op = "WSBH" -> M!Limb(i.b, 2) * Base ^ 3 + M!Limb(i.b, 3) * Base ^ 2
                            + M!Limb(i.b, 0) * Base + M!Limb(i.b, 1)

\* The two fields of op_c in EXT (msbd, lsb) and INS (msb, lsb).
HighField(c) == c \div Bits
LowField(c) == c % Bits

MiscOutcome(i) ==
    IF \/ i.op = "EXT" /\ HighField(i.c) + LowField(i.c) >= Bits
       \/ i.op = "INS" /\ HighField(i.c) < LowField(i.c)
       \/ i.op = "TEQ" /\ i.a = i.b
    THEN "trap" ELSE "ok"

MaddsubProduct(i) ==
    IF i.op \in {"MADD", "MSUB"} THEN Signed(i.b) * Signed(i.c) ELSE i.b * i.c

\* The result and the register HI.
ExecuteMisc(i) ==
    LET wide  == (i.hi * 2 ^ Bits + i.a
                    + (IF i.op \in MaddOps THEN 1 ELSE -1) * MaddsubProduct(i)) % 4 ^ Bits
        lsb   == LowField(i.c)
        width == HighField(i.c) - lsb + 1
    IN  CASE i.op \in MaddsubOps -> <<Wrap(wide), wide \div 2 ^ Bits>>
          [] i.op = "SEXT" -> <<IF i.c > 0 THEN SignExtend(i.b % Base ^ 2, 2)
                                ELSE SignExtend(i.b % Base, 1), i.hi>>
          [] i.op = "EXT"  -> <<(i.b % 2 ^ (HighField(i.c) + lsb + 1)) \div 2 ^ lsb, i.hi>>
          [] i.op = "INS"  -> <<i.a - ((i.a \div 2 ^ lsb) % 2 ^ width) * 2 ^ lsb
                                    + (i.b % 2 ^ width) * 2 ^ lsb, i.hi>>
          [] i.op = "TEQ"  -> <<i.a, i.hi>>

-----------------------------------------------------------------------------
(* The ALU events emitted for the lookups of these instructions.           *)

\* An event with the result that the executor computes.
AluEvent(op, b, c) ==
    LET r == ExecuteAlu(op, b, c) IN Lookup(op, r[1], b, c, r[2])

EmitBranchDependencies(i, next_pc, next_next_pc) ==
    <<AluEvent("SLT", i.a, i.b), AluEvent("SLT", i.b, i.a)>>
      \o (IF ShouldJump(i.op, i.a, i.b)
          THEN <<Lookup("ADD", next_next_pc, next_pc, i.c, 0)>> ELSE <<>>)

EmitJumpDependencies(i, next_pc) ==
    IF i.op = "JumpDirect" THEN <<AluEvent("ADD", next_pc, i.b)>> ELSE <<>>

EmitMiscDependencies(i, a) ==
    LET lsb  == LowField(i.c)
        high == HighField(i.c)
        ext  == AluEvent("SLL", i.b, Bits - 1 - lsb - high)
        ror  == AluEvent("ROR", i.a, lsb)
        srl1 == AluEvent("SRL", ror.a, 1)
        srl  == AluEvent("SRL", srl1.a, high - lsb)
        sll  == AluEvent("SLL", i.b, Bits - 1 - high + lsb)
        add  == AluEvent("ADD", srl.a, sll.a)
    IN  CASE i.op \in MaddsubOps ->
               <<AluEvent(IF i.op \in {"MADD", "MSUB"} THEN "MULT" ELSE "MULTU", i.b, i.c)>>
          [] i.op = "EXT" -> <<ext, Lookup("SRL", a, ext.a, Bits - 1 - high, 0)>>
          [] i.op = "INS" -> <<ror, srl1, srl, sll, add,
                               Lookup("ROR", a, add.a, Bits - 1 - high, 0)>>
          [] OTHER -> <<>>

-----------------------------------------------------------------------------
(* The chips.  A row carries what it fixes of the CPU row it belongs to.   *)

\* The words a chip may use for a field element of the CPU row.
WordsOf(x) == {w \in Word : RangeChecked(w) /\ Reduce(w) = x}

\* The conditions on the two comparison bits of a branch row.
BranchRules(op, is_branching, a_lt_b, a_gt_b) ==
    CASE op = "BEQ"  -> a_gt_b + a_lt_b = IF is_branching THEN 0 ELSE 1
      [] op = "BNE"  -> a_gt_b + a_lt_b = IF is_branching THEN 1 ELSE 0
      [] op = "BLTZ" -> a_lt_b = IF is_branching THEN 1 ELSE 0
      [] op = "BLEZ" -> a_gt_b = IF is_branching THEN 0 ELSE 1
      [] op = "BGTZ" -> a_gt_b = IF is_branching THEN 1 ELSE 0
      [] op = "BGEZ" -> a_lt_b = IF is_branching THEN 0 ELSE 1

\* Results that the chip receiving an ALU lookup allows.
Results(op, b, c) == IF c \in Word THEN {x[1] : x \in BasicRows(op, b, c)} ELSE {}

\* BranchChip; x is op_a_value.
BranchRows(i, x, next_pc) ==
    LET Compare(lt, gt) == <<Lookup("SLT", lt, x, i.b, 0), Lookup("SLT", gt, i.b, x, 0)>>
        Bits2 == {0, 1} \X {0, 1}
        Taken(w, lt, gt) ==
            {[a |-> x, hi |-> i.hi, mem |-> i.mem, next_next_pc |-> Reduce(t),
              sends |-> Compare(lt, gt) \o <<Lookup("ADD", t, w, i.c, 0)>>]
                : t \in {y \in Results("ADD", w, i.c) : RangeChecked(y)}}
        Skipped(w, lt, gt) ==
            {[a |-> x, hi |-> i.hi, mem |-> i.mem, next_next_pc |-> Reduce(t),
              sends |-> Compare(lt, gt)] : t \in WordsOf(Reduce(Reduce(w) + 4))}
    IN  UNION {(IF BranchRules(i.op, TRUE, y[1], y[2]) THEN Taken(w, y[1], y[2]) ELSE {})
                 \union
               (IF BranchRules(i.op, FALSE, y[1], y[2]) THEN Skipped(w, y[1], y[2]) ELSE {})
                 : w \in WordsOf(next_pc), y \in Bits2}

\* JumpChip: the return address is determined as a field element and made a
\* word by its range check.
JumpRows(i, next_pc) ==
    LET Targets(w) == {t \in IF i.op = "JumpDirect" THEN Results("ADD", w, i.b) ELSE {i.b}
                         : RangeChecked(t)}
        Sends(w, t) == IF i.op = "JumpDirect" THEN <<Lookup("ADD", t, w, i.b, 0)>> ELSE <<>>
    IN  UNION {{[a |-> a, hi |-> i.hi, mem |-> i.mem, next_next_pc |-> Reduce(t),
                 sends |-> Sends(w, t)] : a \in WordsOf(Reduce(next_pc + 4)), t \in Targets(w)}
                : w \in WordsOf(next_pc)}

MovCondValues(i) ==
    CASE i.op = "MEQ"  -> {IF i.c = 0 THEN i.b ELSE i.a}
      [] i.op = "MNE"  -> {IF i.c = 0 THEN i.a ELSE i.b}
      [] i.op = "WSBH" -> {Joined(<<M!Limb(i.b, 1), M!Limb(i.b, 0),
                                    M!Limb(i.b, 3), M!Limb(i.b, 2)>>)}

\* eval_sext: sig_byte and the limbs above it.
SextValues(i) ==
    LET sign(k) == MsbOfByte(M!Limb(i.b, k)) * (Base - 1)
        lo == M!Limb(i.b, 0)
    IN  CASE M!Limb(i.c, 0) = 0 -> {Joined(<<lo, sign(0), sign(0), sign(0)>>)}
          [] M!Limb(i.c, 0) = 1 -> {Joined(<<lo, M!Limb(i.b, 1), sign(1), sign(1)>>)}
          [] OTHER -> {}

\* eval_maddsub with AddDoubleOperation: product + src2 = value, where a
\* subtraction has its result in src2 and the old value in value.
MaddsubRows(i) ==
    LET op   == IF i.op \in {"MADD", "MSUB"} THEN "MULT" ELSE "MULTU"
        old  == i.hi * 2 ^ Bits + i.a
        Sums(p) == Solve(2 * WordSize, {0, 1}, LAMBDA n, d, k :
                     IF i.op \in MaddOps THEN Limb(p, n) + Limb(old, n) - d + k
                     ELSE Limb(p, n) + d - Limb(old, n) + k)
    IN  UNION {{[a |-> Wrap(y), hi |-> y \div 2 ^ Bits,
                 sends |-> <<Lookup(op, x[1], i.b, i.c, x[2])>>]
                   : y \in Sums(x[1] + x[2] * 2 ^ Bits)} : x \in MulRows(op, i.b, i.c)}

\* Columns that are results of one lookup after the other: every s in S is
\* extended by each of the results in F(s).
Extend(S, F(_)) == UNION {{Append(s, x) : x \in F(s)} : s \in S}

\* Bytes that op_c may be split into: low + high * Bits as field elements,
\* in words whose upper limbs are zero.
Fields(c) == {f \in Byte \X Byte : /\ Reduce(f[1] + f[2] * Bits) = Reduce(c)
                                   /\ \A k \in Limbs : k >= 2 => Limb(c, k) = 0}

ExtRows(i) ==
    LET Columns(f) == Extend(Extend({<<>>},
                        LAMBDA s : Results("SLL", i.b, Bits - 1 - f[1] - f[2])),
                        LAMBDA s : Results("SRL", s[1], Bits - 1 - f[2]))
    IN  UNION {{[a |-> s[2], hi |-> i.hi,
                 sends |-> <<Lookup("SLL", s[1], i.b, Bits - 1 - f[1] - f[2], 0),
                             Lookup("SRL", s[2], s[1], Bits - 1 - f[2], 0)>>]
                  : s \in Columns(f)} : f \in {g \in Fields(i.c) : g[1] + g[2] < Bits}}

\* Here f = <<lsb, msb>>.
InsRows(i) ==
    LET up(f) == Bits - 1 - f[2] + f[1]
        Columns(f) ==
            Extend(Extend(Extend(Extend(Extend(Extend({<<>>},
                LAMBDA s : Results("ROR", i.a, f[1])),
                LAMBDA s : Results("SRL", s[1], 1)),
                LAMBDA s : Results("SRL", s[2], f[2] - f[1])),
                LAMBDA s : Results("SLL", i.b, up(f))),
                LAMBDA s : Results("ADD", s[3], s[4])),
                LAMBDA s : Results("ROR", s[5], Bits - 1 - f[2]))
    IN  UNION {{[a |-> s[6], hi |-> i.hi,
                 sends |-> <<Lookup("ROR", s[1], i.a, f[1], 0), Lookup("SRL", s[2], s[1], 1, 0),
                             Lookup("SRL", s[3], s[2], f[2] - f[1], 0),
                             Lookup("SLL", s[4], i.b, up(f), 0),
                             Lookup("ADD", s[5], s[3], s[4], 0),
                             Lookup("ROR", s[6], s[5], Bits - 1 - f[2], 0)>>]
                  : s \in Columns(f)} : f \in {g \in Fields(i.c) : g[1] <= g[2] /\ g[2] < Bits}}

\* MiscInstrsChip; x is op_a_value of a TEQ.
MiscRows(i, x) ==
    CASE i.op = "SEXT" -> {[a |-> a, hi |-> i.hi, sends |-> <<>>] : a \in SextValues(i)}
      [] i.op = "TEQ"  -> {[a |-> x, hi |-> i.hi, sends |-> <<>>] : y \in {z \in {x} : z # i.b}}
      [] i.op \in MaddsubOps -> MaddsubRows(i)
      [] i.op = "EXT"  -> ExtRows(i)
      [] i.op = "INS"  -> InsRows(i)
=============================================================================
