------------------------------- MODULE Words -------------------------------
(***************************************************************************)
(* Machine words as the chips see them: WordSize limbs of ByteBits bits,   *)
(* least significant first (stark/src/word.rs).  The program has           *)
(* ByteBits = 8 and WordSize = 4; the checks use a smaller word in which   *)
(* a shift amount, a count of leading zeros and a bit position still fit   *)
(* in one byte, as they do in the program.                                 *)
(*                                                                         *)
(* A word is a number in Word; its limbs are recovered with Limb.  The     *)
(* field is the KoalaBear field cut to the same shape: the order of the    *)
(* program, 2^31 - 2^24 + 1, is FieldOrder for ByteBits = 8, WordSize = 4. *)
(* It shows only where several limbs are `reduce`d to one element; limb    *)
(* equations have sides far below the order and are written over integers. *)
(***************************************************************************)
EXTENDS Integers

CONSTANTS ByteBits, WordSize

ASSUME WordsAssumption ==
    ByteBits \in Nat \ {0, 1} /\ WordSize \in Nat \ {0, 1}

Base == 2 ^ ByteBits

Bits == ByteBits * WordSize

Byte == 0 .. Base - 1

Word == 0 .. 2 ^ Bits - 1

\* Limb i of a word, or of a number of several words.
Limb(w, i) == (w \div Base ^ i) % Base

Limbs == 0 .. WordSize - 1

\* `as u32` of an integer of any size, and `as i32` of a word.
Wrap(n) == n % 2 ^ Bits

Signed(w) == IF w < 2 ^ (Bits - 1) THEN w ELSE w - 2 ^ Bits

\* The byte lookup MSB.
MsbOfByte(x) == x \div (Base \div 2)

FieldOrder == 2 ^ (Bits - 1) - 2 ^ (Bits - ByteBits) + 1

Reduce(w) == w % FieldOrder

\* A range check that only looks at the top bit.
BugRangeChecked(w) == MsbOfByte(Limb(w, WordSize - 1)) = 0

\* KoalaBearWordRangeChecker: the top bit is 0, and when the other bits of
\* the top byte are all 1 the lower limbs add up to 0.
RangeChecked(w) ==
    LET top == Limb(w, WordSize - 1)
    IN  /\ MsbOfByte(top) = 0
        /\ top = Base \div 2 - 1 => \A i \in Limbs \ {WordSize - 1} : Limb(w, i) = 0

\* The n-limb numbers whose limbs d, taken from the low end with a carry
\* starting at 0, solve Excess(i, d, carry in) = carry out * Base with
\* every carry in Carries.
Solve(n, Carries, Excess(_, _, _)) ==
    LET Fits(i, k) == {d \in Byte : /\ Excess(i, d, k) % Base = 0
                                    /\ Excess(i, d, k) \div Base \in Carries}
        part[i \in 0 .. n] ==
            IF i = 0 THEN {<<0, 0>>}
            ELSE UNION {{<<s[1] + d * Base ^ (i - 1), Excess(i - 1, d, s[2]) \div Base>>
                            : d \in Fits(i - 1, s[2])} : s \in part[i - 1]}
    IN  {s[1] : s \in part[n]}

\* AddOperation: value = x + y with one boolean carry per limb, the last one
\* dropped.
AddOperation(x, y) ==
    Solve(WordSize, {0, 1}, LAMBDA i, d, k : Limb(x, i) + Limb(y, i) - d + k)

\* The AddSub chip.  A SUB row is an addition whose operand_1 is the result
\* and whose value is b.
AddSubRows(op, b, c) ==
    {<<a, 0>> : a \in
        IF op = "ADD" THEN AddOperation(b, c)
        ELSE Solve(WordSize, {0, 1}, LAMBDA i, d, k : d + Limb(c, i) - Limb(b, i) + k)}
=============================================================================
