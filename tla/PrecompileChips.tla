-------------------------- MODULE PrecompileChips --------------------------
(***************************************************************************)
(* The precompiles: which words each of them reads and writes, in which    *)
(* order and at which clk, in the executor and in its chip.  What they     *)
(* compute is a function of the words they read and stays uninterpreted:   *)
(* a word is named by its role, <<"p", 3>> for the third word of p, and    *)
(* the memory before the call holds <<"old", addr>>.  Two pointers of one  *)
(* call may be equal or overlap, and this is where the executor, which     *)
(* runs one access after the other, and the chip, where only the clk       *)
(* orders the accesses to an address, could part.                          *)
(*                                                                         *)
(* Pointers are four-limb words of the small field (M).  regs holds the    *)
(* registers A2 and A3 and the length word of the Keccak sponge.           *)
(***************************************************************************)
EXTENDS MemoryChip, FiniteSets

LOCAL INSTANCE FiniteSetsExt

EdOps == {"ED_ADD", "ED_DECOMPRESS"}
EcAddOps == {"ED_ADD", "SECP256K1_ADD", "SECP256R1_ADD", "BN254_ADD", "BLS12381_ADD"}
EcDoubleOps == {"SECP256K1_DOUBLE", "SECP256R1_DOUBLE", "BN254_DOUBLE", "BLS12381_DOUBLE"}
EcDecompressOps ==
    {"ED_DECOMPRESS", "SECP256K1_DECOMPRESS", "SECP256R1_DECOMPRESS", "BLS12381_DECOMPRESS"}
FpOps == {"BN254_FP_ADD", "BN254_FP_SUB", "BN254_FP_MUL",
          "BLS12381_FP_ADD", "BLS12381_FP_SUB", "BLS12381_FP_MUL"}
Fp2AddSubOps ==
    {"BN254_FP2_ADD", "BN254_FP2_SUB", "BLS12381_FP2_ADD", "BLS12381_FP2_SUB"}
Fp2MulOps == {"BN254_FP2_MUL", "BLS12381_FP2_MUL"}
BlsOps == {"BLS12381_ADD", "BLS12381_DOUBLE", "BLS12381_DECOMPRESS", "BLS12381_FP_ADD",
           "BLS12381_FP_SUB", "BLS12381_FP_MUL", "BLS12381_FP2_ADD", "BLS12381_FP2_SUB",
           "BLS12381_FP2_MUL"}
PrecompileOps ==
    EcAddOps \union EcDoubleOps \union EcDecompressOps \union FpOps \union Fp2AddSubOps
      \union Fp2MulOps
      \union {"UINT256_MUL", "U256XU2048_MUL", "SHA_EXTEND", "SHA_COMPRESS", "KECCAK_SPONGE",
              "POSEIDON2_PERMUTE"}

\* WordsFieldElement and WordsCurvePoint of a curve.
FieldWords(op) == IF op \in BlsOps THEN 12 ELSE 8
PointWords(op) == 2 * FieldWords(op)

\* The registers have addresses of their own.
RegA2 == 6
RegA3 == 7

None == <<"", 0>>
Role(name, k) == IF name = "" THEN None ELSE <<name, k>>

\* What a word holds after an access, given what it held before.
Left(x, before) == IF x.out = None THEN before ELSE x.out

-----------------------------------------------------------------------------
(* The executor.  A call is the sequence of its accesses: the address, the *)
(* clk (from the start of the call), the role of what is read and of what  *)
(* is written.  slice_unsafe looks at words without a record.              *)

Peek == -1

Slice(ptr, n, at, in, out) ==
    [k \in 1 .. n |-> [addr |-> M!Wrap(ptr + 4 * (k - 1)), at |-> at,
                       in |-> Role(in, k), out |-> Role(out, k)]]

\* p is written in the cycle in which q is read.
BugCreateEcAddEvent(p, q, n) ==
    Slice(p, n, Peek, "p", "") \o Slice(q, n, 0, "q", "") \o Slice(p, n, 0, "", "out")

CreateEcAddEvent(p, q, n) ==
    Slice(p, n, Peek, "p", "") \o Slice(q, n, 0, "q", "") \o Slice(p, n, 1, "", "out")

CreateEcDoubleEvent(p, n) ==
    Slice(p, n, Peek, "p", "") \o Slice(p, n, 0, "", "out")

CreateEcDecompressEvent(ptr, n) ==
    Slice(ptr + 4 * n, n, 0, "x", "") \o Slice(ptr, n, 0, "", "out")

EdwardsDecompress(ptr) ==
    Slice(ptr + 32, 8, 0, "y", "") \o Slice(ptr, 8, 0, "", "out")

FpOp(x, y, n) ==
    Slice(x, n, Peek, "x", "") \o Slice(y, n, 0, "y", "") \o Slice(x, n, 1, "", "out")

Fp2AddSub(x, y, n) ==
    Slice(x, n, Peek, "x", "") \o Slice(y, n, 0, "y", "") \o Slice(x, n, 1, "", "out")

Fp2Mul(x, y, n) ==
    Slice(x, n, Peek, "x", "") \o Slice(y, n, 0, "y", "") \o Slice(x, n, 1, "", "out")

\* The modulus lies behind y.
Uint256Mul(x, y) ==
    Slice(x, 8, Peek, "x", "") \o Slice(y, 8, 0, "y", "")
      \o Slice(M!Wrap(y + 32), 8, 0, "modulus", "") \o Slice(x, 8, 1, "", "out")

U256xU2048Mul(a, b, regs) ==
    <<[addr |-> RegA2, at |-> 0, in |-> <<"lo_ptr", 1>>, out |-> None],
      [addr |-> RegA3, at |-> 0, in |-> <<"hi_ptr", 1>>, out |-> None]>>
      \o Slice(a, 8, 0, "a", "") \o Slice(b, 64, 0, "b", "")
      \o Slice(regs.a2, 64, 1, "", "lo") \o Slice(regs.a3, 8, 1, "", "hi")

\* Round i reads four words, in this order, and writes word i.
Sha256Extend(w) ==
    LET i(k) == 16 + ((k - 1) \div 5)
        back(k) == <<15, 2, 16, 7, 0>>[1 + ((k - 1) % 5)]
        Round(k) == [addr |-> M!Wrap(w + 4 * (i(k) - back(k))), at |-> i(k) - 16,
                     in |-> IF back(k) = 0 THEN None ELSE <<"w", 100 * i(k) + back(k)>>,
                     out |-> IF back(k) = 0 THEN <<"w", i(k)>> ELSE None]
    IN  [k \in 1 .. 5 * 48 |-> Round(k)] \o <<>>

Sha256Compress(w, h) ==
    Slice(h, 8, 0, "h", "") \o Slice(w, 64, 0, "w", "") \o Slice(h, 8, 1, "", "out")

KeccakSponge(input, result, regs) ==
    <<[addr |-> M!Wrap(result + 64), at |-> 0, in |-> <<"len", 1>>, out |-> None]>>
      \o Slice(input, regs.len, 0, "in", "") \o Slice(result, 16, 1, "", "out")

Poseidon2Permute(ptr) ==
    Slice(ptr, 16, Peek, "state", "") \o Slice(ptr, 16, 0, "", "out")

\* default_syscall_map, for the precompiles.
ExecuteAccesses(op, b, c, regs) ==
    CASE op \in EcAddOps -> CreateEcAddEvent(b, c, PointWords(op))
      [] op \in EcDoubleOps -> CreateEcDoubleEvent(b, PointWords(op))
      [] op = "ED_DECOMPRESS" -> EdwardsDecompress(b)
      [] op \in EcDecompressOps \ EdOps -> CreateEcDecompressEvent(b, FieldWords(op))
      [] op \in FpOps -> FpOp(b, c, FieldWords(op))
      [] op \in Fp2AddSubOps -> Fp2AddSub(b, c, PointWords(op))
      [] op \in Fp2MulOps -> Fp2Mul(b, c, PointWords(op))
      [] op = "UINT256_MUL" -> Uint256Mul(b, c)
      [] op = "U256XU2048_MUL" -> U256xU2048Mul(b, c, regs)
      [] op = "SHA_EXTEND" -> Sha256Extend(b)
      [] op = "SHA_COMPRESS" -> Sha256Compress(b, c)
      [] op = "KECCAK_SPONGE" -> KeccakSponge(b, c, regs)
      [] op = "POSEIDON2_PERMUTE" -> Poseidon2Permute(b)

\* The assertions on the arguments: "trap" where the chip has a rule of its
\* own for them, "panic" for an alignment that no chip looks at.  A point
\* that cannot be decompressed ends the execution too; it is not modelled.
PrecompileOutcome(op, b, c, regs) ==
    IF \/ op \in EcDecompressOps /\ c > 1
       \/ op \in {"SHA_EXTEND", "POSEIDON2_PERMUTE"} /\ c # 0
       \/ op = "SHA_COMPRESS" /\ b = c
       \/ op = "KECCAK_SPONGE" /\ regs.len % 36 # 0
    THEN "trap"
    ELSE IF \/ op \notin {"U256XU2048_MUL", "SHA_EXTEND", "SHA_COMPRESS", "KECCAK_SPONGE"}
                 /\ b % 4 # 0
            \/ op \in EcAddOps \union FpOps \union Fp2AddSubOps \union Fp2MulOps
                        \union {"UINT256_MUL"} /\ c % 4 # 0
    THEN "panic" ELSE "ok"

\* The code under which add_precompile_event files the event.
EventKey(op) ==
    CASE op \in FpOps -> IF op \in BlsOps THEN "BLS12381_FP_ADD" ELSE "BN254_FP_ADD"
      [] op \in Fp2AddSubOps -> IF op \in BlsOps THEN "BLS12381_FP2_ADD" ELSE "BN254_FP2_ADD"
      [] OTHER -> op

\* What access k of s finds: the value of the last write before it.
Found(s, k) ==
    LET W == {j \in 1 .. k - 1 : s[j].addr = s[k].addr /\ s[j].out # None}
    IN  IF W = {} THEN <<"old", s[k].addr>> ELSE s[Max(W)].out

\* The words the call works on, and the records it leaves behind.
ExecutorEffect(op, s) ==
    [key |-> EventKey(op),
     inputs |-> {<<s[k].in, Found(s, k)>> : k \in {j \in DOMAIN s : s[j].in # None}},
     records |-> {[addr |-> s[k].addr, at |-> s[k].at, before |-> Found(s, k),
                   after |-> Left(s[k], Found(s, k))]
                    : k \in {j \in DOMAIN s : s[j].at # Peek}}]

-----------------------------------------------------------------------------
(* The chips.  The rows of a call are the set of their memory accesses:    *)
(* the role in is of prev_value, out of value.  Pointers and addresses are *)
(* field elements.                                                         *)

ChipSlice(ptr, n, at, in, out) ==
    {[addr |-> M!Reduce(ptr + 4 * (k - 1)), at |-> at,
      in |-> Role(in, k), out |-> Role(out, k)] : k \in 1 .. n}

WeierstrassAddChip(p, q, n) ==
    {ChipSlice(q, n, 0, "q", "") \union ChipSlice(p, n, 1, "p", "out")}

EdAddChip(p, q) ==
    {ChipSlice(q, 16, 0, "q", "") \union ChipSlice(p, 16, 1, "p", "out")}

\* The second argument of the call is received as 0.
WeierstrassDoubleChip(p, arg2, n) ==
    {A \in {ChipSlice(p, n, 0, "p", "out")} : arg2 = 0}

\* sign_bit is boolean.
WeierstrassDecompressChip(ptr, sign_bit, n) ==
    {A \in {ChipSlice(ptr + 4 * n, n, 0, "x", "") \union ChipSlice(ptr, n, 0, "", "out")}
        : sign_bit \in {0, 1}}

EdDecompressChip(ptr, sign) ==
    {A \in {ChipSlice(ptr, 8, 0, "", "out") \union ChipSlice(ptr + 32, 8, 0, "y", "")}
        : sign \in {0, 1}}

FpOpChip(x, y, n) ==
    {ChipSlice(y, n, 0, "y", "") \union ChipSlice(x, n, 1, "x", "out")}

Fp2AddSubChip(x, y, n) ==
    {ChipSlice(y, n, 0, "y", "") \union ChipSlice(x, n, 1, "x", "out")}

Fp2MulChip(x, y, n) ==
    {ChipSlice(y, n, 0, "y", "") \union ChipSlice(x, n, 1, "x", "out")}

\* y and the modulus are one slice.
Uint256MulChip(x, y) ==
    {ChipSlice(x, 8, 1, "x", "out") \union ChipSlice(y, 8, 0, "y", "")
       \union ChipSlice(y + 32, 8, 0, "modulus", "")}

\* lo_ptr and hi_ptr are the range checked values of the two registers.
U256x2048MulChip(a, b, regs) ==
    {A \in {{[addr |-> RegA2, at |-> 0, in |-> <<"lo_ptr", 1>>, out |-> None],
             [addr |-> RegA3, at |-> 0, in |-> <<"hi_ptr", 1>>, out |-> None]}
              \union ChipSlice(a, 8, 0, "a", "") \union ChipSlice(b, 64, 0, "b", "")
              \union ChipSlice(M!Reduce(regs.a2), 64, 1, "", "lo")
              \union ChipSlice(M!Reduce(regs.a3), 8, 1, "", "hi")}
        : M!RangeChecked(regs.a2) /\ M!RangeChecked(regs.a3)}

\* eval_flags: three cycles of 16 rows; i starts at 16 and moves by 1.
ShaExtendSteps == {16 + 16 * cycle + step : cycle \in 0 .. 2, step \in 0 .. 15}

\* Row i reads four words and writes word i.
ShaExtendChip(w, arg2) ==
    LET At(i, d) == M!Reduce(w + 4 * (i - d))
        Row(i) == {[addr |-> At(i, d), at |-> i - 16, in |-> <<"w", 100 * i + d>>,
                    out |-> None] : d \in {15, 2, 16, 7}}
                    \union {[addr |-> At(i, 0), at |-> i - 16, in |-> None, out |-> <<"w", i>>]}
    IN  {A \in {UNION {Row(i) : i \in ShaExtendSteps}} : arg2 = 0}

\* eval_control_flow_flags: ten octets of rows, 0 to initialize, 1 to 8 to
\* compress and 9 to finalize.
ShaCompressSteps == (0 .. 9) \X (0 .. 7)

\* One access a row.
ShaCompressChip(w, h) ==
    LET Row(n, octet) ==
            CASE n = 0 -> [addr |-> M!Reduce(h + 4 * octet), at |-> 0,
                           in |-> <<"h", octet + 1>>, out |-> None]
              [] n \in 1 .. 8 -> [addr |-> M!Reduce(w + 4 * (8 * (n - 1) + octet)), at |-> 0,
                                  in |-> <<"w", 8 * (n - 1) + octet + 1>>, out |-> None]
              [] n = 9 -> [addr |-> M!Reduce(h + 4 * octet), at |-> 1, in |-> None,
                           out |-> <<"out", octet + 1>>]
    IN  {{Row(x[1], x[2]) : x \in ShaCompressSteps}}

\* Blocks that a sponge of the model may absorb.
MaxBlocks == 3

\* The sponge that ends one block late.
BugKeccakBlocks(len) == {n \in 1 .. MaxBlocks : M!Reduce(36 * (n - 2)) = M!Reduce(len - 36)}

\* The final block is the one for which already_absorbed is the length less
\* one block.
KeccakBlocks(len) == {n \in 1 .. MaxBlocks : M!Reduce(36 * (n - 1)) = M!Reduce(len - 36)}

\* The length is read with the first block, the output written with the last;
\* input_address moves by 36 words from block to block.  These are the rows of
\* a sponge that begins with is_first_input_block, where the call is received;
\* the table may hold others, which belong to no call and to no instruction,
\* and are left out.
KeccakSpongeChip(input, output, regs) ==
    {{[addr |-> M!Reduce(output + 64), at |-> 0, in |-> <<"len", 1>>, out |-> None]}
       \union UNION {{[addr |-> M!Reduce(M!Reduce(input + 144 * j) + 4 * k), at |-> 0,
                       in |-> <<"in", 36 * j + k + 1>>, out |-> None]
                        : k \in 0 .. 35} : j \in 0 .. n - 1}
       \union ChipSlice(output, 16, 1, "", "out")
        : n \in KeccakBlocks(regs.len)}

Poseidon2PermuteChip(ptr, arg2) ==
    {A \in {ChipSlice(ptr, 16, 0, "state", "out")} : arg2 = 0}

\* The chip that receives the call, and the accesses of its rows.
ChipAccesses(op, b, c, regs) ==
    CASE op = "ED_ADD" -> EdAddChip(b, c)
      [] op \in EcAddOps \ EdOps -> WeierstrassAddChip(b, c, PointWords(op))
      [] op \in EcDoubleOps -> WeierstrassDoubleChip(b, c, PointWords(op))
      [] op = "ED_DECOMPRESS" -> EdDecompressChip(b, c)
      [] op \in EcDecompressOps \ EdOps -> WeierstrassDecompressChip(b, c, FieldWords(op))
      [] op \in FpOps -> FpOpChip(b, c, FieldWords(op))
      [] op \in Fp2AddSubOps -> Fp2AddSubChip(b, c, PointWords(op))
      [] op \in Fp2MulOps -> Fp2MulChip(b, c, PointWords(op))
      [] op = "UINT256_MUL" -> Uint256MulChip(b, c)
      [] op = "U256XU2048_MUL" -> U256x2048MulChip(b, c, regs)
      [] op = "SHA_EXTEND" -> ShaExtendChip(b, c)
      [] op = "SHA_COMPRESS" -> ShaCompressChip(b, c)
      [] op = "KECCAK_SPONGE" -> KeccakSpongeChip(b, c, regs)
      [] op = "POSEIDON2_PERMUTE" -> Poseidon2PermuteChip(b, c)

\* The code whose events the chip has its rows from.
ChipKey(op) ==
    CASE op \in {"BN254_FP_ADD", "BN254_FP_SUB", "BN254_FP_MUL"} -> "BN254_FP_ADD"
      [] op \in {"BLS12381_FP_ADD", "BLS12381_FP_SUB", "BLS12381_FP_MUL"} -> "BLS12381_FP_ADD"
      [] op \in {"BN254_FP2_ADD", "BN254_FP2_SUB"} -> "BN254_FP2_ADD"
      [] op \in {"BLS12381_FP2_ADD", "BLS12381_FP2_SUB"} -> "BLS12381_FP2_ADD"
      [] OTHER -> op

\* eval_memory_access: the clk of an access is greater than that of the
\* access before, so an address is accessed once at a clk.
Timely(A) == Cardinality({<<x.addr, x.at>> : x \in A}) = Cardinality(A)

\* The memory argument: prev_value is the value of the access before.
PrevValue(A, x) ==
    LET W == {y \in A : y.addr = x.addr /\ y.at < x.at /\ y.out # None}
    IN  IF W = {} THEN <<"old", x.addr>>
        ELSE (CHOOSE y \in W : \A z \in W : z.at <= y.at).out

ChipEffect(op, A) ==
    [key |-> ChipKey(op),
     inputs |-> {<<x.in, PrevValue(A, x)>> : x \in {y \in A : y.in # None}},
     records |-> {[addr |-> x.addr, at |-> x.at, before |-> PrevValue(A, x),
                   after |-> Left(x, PrevValue(A, x))] : x \in A}]

PrecompileRows(op, b, c, regs) ==
    {ChipEffect(op, A) : A \in {B \in ChipAccesses(op, b, c, regs) : Timely(B)}}
=============================================================================
