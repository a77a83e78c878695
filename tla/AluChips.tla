------------------------------ MODULE AluChips ------------------------------
(***************************************************************************)
(* The arithmetic of the core machine, twice: as the executor computes it  *)
(* (execute_alu) and as the ALU chips constrain it.  A chip is the set of  *)
(* results it can receive for given operands: the pairs <<a, hi>> for      *)
(* which SOME assignment of the chip's other columns satisfies every       *)
(* constraint of its eval and every byte lookup it sends.  Columns the     *)
(* constraints determine outright (one-hot flags, bit decompositions) are  *)
(* replaced by what they select; columns left free stay free.              *)
(***************************************************************************)
EXTENDS Words, Sequences, FiniteSets, Bitwise

ASSUME AluAssumption ==
    \* a count of bits, Bits + 1 included, fits in a byte
    /\ Bits + 1 < Base
    \* a shift amount splits into whole bytes and bits
    /\ \E n \in 1 .. ByteBits : ByteBits = 2 ^ n
    /\ \E n \in 1 .. WordSize : WordSize = 2 ^ n

AddSubOps == {"ADD", "SUB"}
BitwiseOps == {"AND", "OR", "XOR", "NOR"}
LtOps == {"SLT", "SLTU"}
ShiftRightOps == {"SRL", "SRA", "ROR"}
MulOps == {"MUL", "MULT", "MULTU"}
DivRemOps == {"DIV", "DIVU", "MOD", "MODU"}
CloClzOps == {"CLO", "CLZ"}
AluOps == AddSubOps \union BitwiseOps \union LtOps \union {"SLL"} \union ShiftRightOps
            \union MulOps \union DivRemOps \union CloClzOps

\* opcode.rs is_use_lo_hi_alu
UsesHi(op) == op \in {"MULT", "MULTU", "DIV", "DIVU"}

-----------------------------------------------------------------------------
(* The executor: what an ALU instruction computes.                         *)

Truncated(b, c) ==
    LET m == (IF b < 0 THEN -b ELSE b) \div (IF c < 0 THEN -c ELSE c)
    IN  IF (b < 0) = (c < 0) THEN m ELSE -m

IsSigned(op) == op \in {"DIV", "MOD"}

\* get_quotient_and_remainder for a divisor other than 0
QuotientAndRemainder(op, b, c) ==
    LET x == IF IsSigned(op) THEN Signed(b) ELSE b
        y == IF IsSigned(op) THEN Signed(c) ELSE c
        q == Truncated(x, y)
    IN  <<Wrap(q), Wrap(x - q * y)>>

LeadingZeros(b) == Cardinality({k \in 0 .. Bits - 1 : b < 2 ^ k})

BitwiseResult(op, b, c, full) ==
    CASE op = "AND" -> b & c
      [] op = "OR"  -> b | c
      [] op = "XOR" -> b ^^ c
      [] op = "NOR" -> full - (b | c)

\* i32::MIN / -1 overflows, and Rust's `/` and `%` panic on it.
AluOutcome(op, b, c) ==
    IF op \in DivRemOps /\ c = 0 THEN "trap"
    ELSE IF IsSigned(op) /\ b = 2 ^ (Bits - 1) /\ c = 2 ^ Bits - 1 THEN "panic"
    ELSE "ok"

ExecuteAlu(op, b, c) ==
    LET shift == c % Bits
        wide  == IF op = "MULT" THEN Signed(b) * Signed(c) ELSE b * c
        qr    == QuotientAndRemainder(op, b, c)
    IN  CASE op = "ADD"   -> <<Wrap(b + c), 0>>
          [] op = "SUB"   -> <<Wrap(b - c), 0>>
          [] op = "SLL"   -> <<Wrap(b * 2 ^ shift), 0>>
          [] op = "SRL"   -> <<b \div 2 ^ shift, 0>>
          [] op = "SRA"   -> <<Wrap(Signed(b) \div 2 ^ shift), 0>>
          [] op = "ROR"   -> <<Wrap((b + b * 2 ^ Bits) \div 2 ^ shift), 0>>
          [] op = "MUL"   -> <<Wrap(wide), 0>>
          [] op \in {"MULT", "MULTU"} -> <<Wrap(wide), Wrap(wide \div 2 ^ Bits)>>
          [] op = "SLTU"  -> <<IF b < c THEN 1 ELSE 0, 0>>
          [] op = "SLT"   -> <<IF Signed(b) < Signed(c) THEN 1 ELSE 0, 0>>
          [] op \in {"DIV", "DIVU"} -> qr
          [] op \in {"MOD", "MODU"} -> <<qr[2], 0>>
          [] op \in BitwiseOps -> <<BitwiseResult(op, b, c, 2 ^ Bits - 1), 0>>
          [] op = "CLZ"   -> <<LeadingZeros(b), 0>>
          [] op = "CLO"   -> <<LeadingZeros(2 ^ Bits - 1 - b), 0>>

-----------------------------------------------------------------------------
(* The chips whose constraints are limb by limb.                           *)

\* One byte lookup per limb.
BitwiseRows(op, b, c) ==
    {<<a, 0>> : a \in
        Solve(WordSize, {0}, LAMBDA i, d, k :
                d - BitwiseResult(op, Limb(b, i), Limb(c, i), Base - 1))}

\* The comparison of b_comp and c_comp: byte_flags marks the first differing
\* limb (0 marks none), above which all limbs are equal.
Compared(comp_b, comp_c) ==
    {n \in 0 .. WordSize :
        /\ \A i \in Limbs : i >= n => Limb(comp_b, i) = Limb(comp_c, i)
        /\ n > 0 => Limb(comp_b, n - 1) # Limb(comp_c, n - 1)}

LtRows(op, b, c) ==
    LET Top(w)    == Limb(w, WordSize - 1)
        Masked(w) == Top(w) & (Base \div 2 - 1)
        Comp(w)   == IF op = "SLT" THEN w - (Top(w) - Masked(w)) * Base ^ (WordSize - 1)
                     ELSE w
        Bit(w)    == IF op = "SLT" THEN (Top(w) - Masked(w)) \div (Base \div 2) ELSE 0
        Sltu(n)   == IF n > 0 /\ Limb(Comp(b), n - 1) < Limb(Comp(c), n - 1) THEN 1 ELSE 0
        \* is_sign_eq is a boolean that must agree with the two bits
        SignEq    == {s \in {0, 1} : IF s = 1 THEN Bit(b) = Bit(c)
                                              ELSE Bit(b) + Bit(c) = 1}
    IN  {<<Bit(b) * (1 - Bit(c)) + s * Sltu(n), 0>>
            : s \in SignEq, n \in Compared(Comp(b), Comp(c))}

\* The bits and the bytes of a shift amount, from the low byte of c.
BitsToShift(c) == Limb(c, 0) % ByteBits

BytesToShift(c) == (Limb(c, 0) \div ByteBits) % WordSize

\* First the bits, with a range-checked carry per limb, then the bytes.
ShiftLeftRows(b, c) ==
    LET shifted == Solve(WordSize, Byte, LAMBDA i, d, k :
                            Limb(b, i) * 2 ^ BitsToShift(c) + k - d)
    IN  {<<Wrap(s * Base ^ BytesToShift(c)), 0>> : s \in shifted}

\* The long word that is shifted right: b extended by its sign (SRA), by
\* itself (ROR) or by zeros (SRL).
Extended(op, b, i) ==
    IF i < WordSize THEN Limb(b, i)
    ELSE IF op = "ROR" THEN Limb(b, i - WordSize)
    ELSE IF op = "SRA" THEN MsbOfByte(Limb(b, WordSize - 1)) * (Base - 1) ELSE 0

\* First the bytes, then the bits.  The topmost BytesToShift(c) limbs of
\* byte_shift_result are constrained only to be bytes.
ShiftRightRows(op, b, c) ==
    LET long   == 2 * WordSize
        n      == BytesToShift(c)
        bits   == BitsToShift(c)
        Byted(free) == [i \in 0 .. long - 1 |->
                            IF i + n < long THEN Extended(op, b, i + n) ELSE free[i]]
        \* ShrCarry, and the carry of the limb above moved to the top
        Shifted(x, i) == x[i] \div 2 ^ bits
                           + (IF i + 1 < long
                              THEN (x[i + 1] % 2 ^ bits) * 2 ^ (ByteBits - bits) ELSE 0)
        Value(x) == LET v[i \in 0 .. WordSize] ==
                          IF i = 0 THEN 0 ELSE v[i - 1] + Shifted(x, i - 1) * Base ^ (i - 1)
                    IN  v[WordSize]
        Rows   == {Byted(free) : free \in [long - n .. long - 1 -> Byte]}
    IN  {<<Value(x), 0>> : x \in {y \in Rows : \A i \in 0 .. long - 1 : Shifted(y, i) \in Byte}}

-----------------------------------------------------------------------------
(* Multiplication, and the two chips that look other ALU chips up.         *)

\* b(x) * c(x) over 2 * WordSize limbs, both sign extended for MULT, and its
\* carries, each of two bytes.
MulRows(op, b, c) ==
    LET size == 2 * WordSize
        SignExtend(w) == (IF op = "MULT" THEN MsbOfByte(Limb(w, WordSize - 1)) ELSE 0)
                            * (Base - 1)
        Ext(w, i) == IF i < WordSize THEN Limb(w, i) ELSE SignExtend(w)
        m == [n \in 0 .. size - 1 |->
                LET sum[i \in 0 .. n] == Ext(b, i) * Ext(c, n - i)
                                           + (IF i = 0 THEN 0 ELSE sum[i - 1])
                IN  sum[n]]
        products == Solve(size, 0 .. Base ^ 2 - 1, LAMBDA i, d, k : m[i] + k - d)
    IN  {<<Wrap(p), IF op = "MUL" THEN 0 ELSE p \div 2 ^ Bits>> : p \in products}

\* An ALU lookup: send_alu and send_alu_with_hi.
Lookup(op, a, b, c, hi) == [op |-> op, a |-> a, b |-> b, c |-> c, hi |-> hi]

\* What the chips that send no ALU lookup themselves receive.
BasicRows(op, b, c) ==
    CASE op \in AddSubOps     -> AddSubRows(op, b, c)
      [] op \in BitwiseOps    -> BitwiseRows(op, b, c)
      [] op \in LtOps         -> LtRows(op, b, c)
      [] op = "SLL"           -> ShiftLeftRows(b, c)
      [] op \in ShiftRightOps -> ShiftRightRows(op, b, c)
      [] op \in MulOps        -> MulRows(op, b, c)

Received(l) == /\ {l.a, l.b, l.c, l.hi} \subseteq Word
               /\ <<l.a, l.hi>> \in BasicRows(l.op, l.b, l.c)

Negative(op, w) == IF IsSigned(op) THEN MsbOfByte(Limb(w, WordSize - 1)) ELSE 0

\* The ALU lookups of a DivRem row: the product p of quotient and divisor,
\* the absolute values of what is negative, and |remainder| < |c|.
DivRemSends(op, c, q, r, p, abs_c, abs_r) ==
    <<Lookup(IF IsSigned(op) THEN "MULT" ELSE "MULTU", p[1], q, c, p[2])>>
      \o (IF Negative(op, c) = 1 THEN <<Lookup("ADD", 0, c, abs_c, 0)>> ELSE <<>>)
      \o (IF Negative(op, r) = 1 THEN <<Lookup("ADD", 0, r, abs_r, 0)>> ELSE <<>>)
      \o <<Lookup("SLTU", 1, abs_r, abs_c, 0)>>

\* DivRem: quotient * c + remainder = b over a long word, the remainder has
\* the sign of b and is smaller than c, and c is not 0.  A quotient comes
\* with its products p, the remainders r that complete p to b on the low
\* limbs, and the absolute values.
DivRemColumns(op, b, c) ==
    LET Neg(w)   == Negative(op, w)
        overflow == IsSigned(op) /\ b = 2 ^ (Bits - 1) /\ c = 2 ^ Bits - 1
        high     == IF overflow THEN 0 ELSE Neg(b) * (2 ^ Bits - 1)
        Products(q) == MulRows(IF IsSigned(op) THEN "MULT" ELSE "MULTU", q, c)
        Remainders(p) == Solve(WordSize, {0, 1}, LAMBDA i, d, k :
                                    Limb(p[1], i) + d + k - Limb(b, i))
        Sums(p, r) == Solve(2 * WordSize, {0, 1}, LAMBDA i, d, k :
                        (IF i < WordSize THEN Limb(p[1], i) + Limb(r, i)
                         ELSE Limb(p[2], i - WordSize) + Neg(r) * (Base - 1)) + k - d)
        SignAgrees(r) == IF Neg(r) = 1 THEN Neg(b) = 1 ELSE r # 0 => Neg(b) = 0
        Abs(w) == IF Neg(w) = 0 THEN {w}
                  ELSE Solve(WordSize, {0, 1}, LAMBDA i, d, k : Limb(w, i) + d + k)
        Rows(q, p, r) == {[q |-> q, r |-> r, sends |-> DivRemSends(op, c, q, r, p, x, y)]
                            : x \in Abs(c), y \in Abs(r)}
        Fit(p) == {r \in Remainders(p) : b + high * 2 ^ Bits \in Sums(p, r) /\ SignAgrees(r)}
    IN  IF c = 0 THEN {}
        ELSE UNION {UNION {UNION {Rows(q, p, r) : r \in Fit(p)} : p \in Products(q)} : q \in Word}

\* A DIV row is received with the quotient, and the remainder as hi; a MOD
\* row with the remainder.
DivRemRows(op, b, c) ==
    {[a |-> IF UsesHi(op) THEN row.q ELSE row.r, hi |-> IF UsesHi(op) THEN row.r ELSE 0,
      sends |-> row.sends] : row \in DivRemColumns(op, b, c)}

\* A test for 0 by the reduction alone.
BugCloClzRows(op, b) ==
    LET bb == IF op = "CLZ" THEN b ELSE 2 ^ Bits - 1 - b
    IN  {[a |-> Bits, hi |-> 0, sends |-> <<>>] : z \in {x \in {1} : Reduce(bb) = 0}}
          \union {[a |-> a, hi |-> 0, sends |-> <<Lookup("SRL", 1, bb, Bits - 1 - a, 0)>>]
                    : a \in 0 .. Bits}

\* CloClz: bb is b or its complement; unless bb is 0, bb >> (Bits - 1 - a)
\* is 1.  The word bb is tested for 0 by its reduction and its top byte.
CloClzRows(op, b) ==
    LET bb   == IF op = "CLZ" THEN b ELSE 2 ^ Bits - 1 - b
        Zero == Reduce(bb) = 0 /\ Limb(bb, WordSize - 1) = 0
    IN  {[a |-> Bits, hi |-> 0, sends |-> <<>>] : z \in {x \in {1} : Zero}}
          \union {[a |-> a, hi |-> 0, sends |-> <<Lookup("SRL", 1, bb, Bits - 1 - a, 0)>>]
                    : a \in 0 .. Bits}

\* Every row an ALU chip has for these operands, with the lookups it sends.
AluRows(op, b, c) ==
    CASE op \in DivRemOps -> DivRemRows(op, b, c)
      [] op \in CloClzOps -> CloClzRows(op, b)
      [] OTHER -> {[a |-> x[1], hi |-> x[2], sends |-> <<>>] : x \in BasicRows(op, b, c)}

-----------------------------------------------------------------------------
(* The ALU events that the executor emits for other chips' lookups.        *)

UnsignedAbs(w) == IF Signed(w) < 0 THEN -Signed(w) ELSE w

\* Emission that takes a remainder to have no sign.
BugEmitDivRemDependencies(op, b, c) ==
    LET qr   == QuotientAndRemainder(op, b, c)
        wide == IF IsSigned(op) THEN Signed(qr[1]) * Signed(c) ELSE qr[1] * c
        Abs(w) == IF IsSigned(op) THEN UnsignedAbs(w) ELSE w
    IN  (IF Negative(op, c) = 1 THEN <<Lookup("ADD", 0, c, UnsignedAbs(c), 0)>> ELSE <<>>)
          \o <<Lookup(IF IsSigned(op) THEN "MULT" ELSE "MULTU",
                      Wrap(wide), qr[1], c, Wrap(wide \div 2 ^ Bits)),
               Lookup("SLTU", 1, Abs(qr[2]), Abs(c), 0)>>

EmitDivRemDependencies(op, b, c) ==
    LET qr    == QuotientAndRemainder(op, b, c)
        q     == qr[1]
        r     == qr[2]
        wide  == IF IsSigned(op) THEN Signed(q) * Signed(c) ELSE q * c
        Abs(w) == IF IsSigned(op) THEN UnsignedAbs(w) ELSE w
        abs_c == IF Abs(c) > 1 THEN Abs(c) ELSE 1
    IN  (IF Negative(op, c) = 1 THEN <<Lookup("ADD", 0, c, UnsignedAbs(c), 0)>> ELSE <<>>)
          \o (IF Negative(op, r) = 1 THEN <<Lookup("ADD", 0, r, UnsignedAbs(r), 0)>> ELSE <<>>)
          \o <<Lookup(IF IsSigned(op) THEN "MULT" ELSE "MULTU",
                      Wrap(wide), q, c, Wrap(wide \div 2 ^ Bits)),
               Lookup("SLTU", 1, Abs(r), abs_c, 0)>>

EmitCloClzDependencies(op, b, a) ==
    LET bb == IF op = "CLZ" THEN b ELSE 2 ^ Bits - 1 - b
    IN  IF bb = 0 THEN <<>>
        ELSE <<Lookup("SRL", bb \div 2 ^ (Bits - 1 - a), bb, Bits - 1 - a, 0)>>

EmitAluDependencies(op, b, c, a) ==
    CASE op \in DivRemOps -> EmitDivRemDependencies(op, b, c)
      [] op \in CloClzOps -> EmitCloClzDependencies(op, b, a)
      [] OTHER -> <<>>
=============================================================================
