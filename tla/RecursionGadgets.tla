--------------------------- MODULE RecursionGadgets ---------------------------
(***************************************************************************)
(* The calls of CircuitConfig and CircuitV2Builder that the recursive      *)
(* verifiers are written with, for the three configurations: "inner" and   *)
(* "wrap" run on the recursion machine, where a bit is a Felt, and "outer" *)
(* becomes a gnark circuit, where a bit is a Var of the scalar field.      *)
(*                                                                         *)
(* WIDTH, HASH_RATE and DIGEST_SIZE are those of Poseidon2, NUM_BITS is    *)
(* NumBits, and a coordinate of the septic curve is one element.           *)
(***************************************************************************)
EXTENDS RecursionDsl

CONSTANTS WIDTH, HASH_RATE, DIGEST_SIZE

ASSUME PoseidonAssumption ==
    /\ WIDTH \in Nat /\ HASH_RATE \in 1 .. WIDTH /\ DIGEST_SIZE \in 1 .. WIDTH \div 2

FeltConst(x) == Const("F", Base(x))
Ran(s, i, j) == SubSeq(s, i, j)
RevSeq(s) == [i \in 1 .. Len(s) |-> s[Len(s) + 1 - i]]

\* Expressions that are evaluated into a new variable.
EvalExpr(t, f, x, y, n) == Evaluated(t, Expr(f, x, y, n))

\* x * y and u * v, added and evaluated.
EvalTwoProducts(t, x, y, u, v, n) ==
    Then(Expr("mul", x, y, n), LAMBDA p, m1 :
        Then(Expr("mul", u, v, m1), LAMBDA q, m2 : EvalExpr(t, "add", p, q, m2)))

-----------------------------------------------------------------------------
(* Reading the witness, and bits.                                          *)

BitType(cfg) == IF cfg = "outer" THEN "V" ELSE "F"

ReadOps == [V |-> "WitnessVar", F |-> "WitnessFelt", E |-> "WitnessExt"]

\* read_bit, read_felt and read_ext.
Read(cfg, t, n) ==
    IF cfg = "outer" THEN Fresh(ReadOps[t], t, 1, <<>>, n)
    ELSE Fresh(IF t = "E" THEN "CircuitV2HintExts" ELSE "CircuitV2HintFelts", t, 1, <<>>, n)

\* assert_bit_zero and assert_bit_one.
AssertBit(cfg, bit, v, n) == AssertEq(BitType(cfg), bit, Const(BitType(cfg), Base(v)), n)

\* num2bits_v2_f without and with the check that the number is canonical.
AssertBoolean(bit, n) ==
    Then(Expr("sub", bit, FeltConst(1), n), LAMBDA d, m1 :
        Then(Expr("mul", bit, d, m1), LAMBDA p, m2 : AssertEq("F", p, FeltConst(0), m2)))

WeightedBit(bits, i, sum, n) ==
    Then(Expr("mul", bits[i], FeltConst(2 ^ (i - 1)), n),
         LAMBDA w, m : Expr("add", sum, w, m))

CheckedBits(bits, n) ==
    Chain(Folded("F", Zero, n), Len(bits), LAMBDA i, sum, m :
        ThenAll(AssertBoolean(bits[i], m), LAMBDA none, k : WeightedBit(bits, i, sum, k)))

AssertBelowOrder(bits, n) ==
    LET k == Len(bits)
    IN  Then(Evaluated("F", Chain(Folded("F", One, n), NumBits - LowBits, LAMBDA i, p, m :
                                      Expr("mul", p, bits[k + 1 - i], m))),
             LAMBDA top, m : Each(Ran(bits, 1, LowBits), m, LAMBDA bit, j :
                 Then(Expr("mul", bit, top, j), LAMBDA p, q : AssertEq("F", p, FeltConst(0), q))))

BugNoCanonicalCheck(num, k, n) ==
    ThenAll(Fresh("CircuitV2HintBitsF", "F", k, <<num>>, n), LAMBDA bits, m :
        Then(CheckedBits(bits, m), LAMBDA sum, m1 :
            [AssertEq("F", sum, num, m1) EXCEPT !.res = bits]))

num2bits_v2_f(num, k, n) ==
    ThenAll(Fresh("CircuitV2HintBitsF", "F", k, <<num>>, n), LAMBDA bits, m :
        Then(CheckedBits(bits, m), LAMBDA sum, m1 :
            IF k > NumBits THEN Panics(m1)
            ELSE LET below == IF k > NumBits - 1 THEN AssertBelowOrder(bits, m1)
                              ELSE Pushed(<<>>, <<>>, m1)
                 IN  ThenAll(below, LAMBDA none, m2 :
                         [AssertEq("F", sum, num, m2) EXCEPT !.res = bits])))

num2bits(cfg, num, k, n) ==
    IF cfg # "outer" THEN num2bits_v2_f(num, k, n)
    ELSE ThenAll(Fresh("CircuitNum2BitsF", "V", NumBits, <<num>>, n),
                 LAMBDA bits, m : Pushed(<<>>, Ran(bits, 1, k), m))

bits2num(cfg, bits, n) ==
    IF cfg # "outer"
    THEN Chain(Constant("F", Zero, n), Len(bits), LAMBDA i, num, m :
             Then(Expr("mul", bits[i], FeltConst(2 ^ (i - 1)), m),
                  LAMBDA w, k : EvalExpr("F", "add", num, w, k)))
    ELSE Chain(Constant("F", Zero, n), Len(bits), LAMBDA i, result, m :
             Then(UninitOne("F", m), LAMBDA to_add, m1 :
                 Then(Constant("F", Base(2 ^ (i - 1)), m1), LAMBDA pow2, m2 :
                     Then(Constant("F", Zero, m2), LAMBDA zero, m3 :
                         ThenAll(Pushed(<<Ir("CircuitSelectF", <<to_add>>, <<bits[i], pow2, zero>>)>>, <<>>, m3),
                             LAMBDA none, m4 : Then(Expr("add", result, to_add, m4),
                                 LAMBDA x, m5 : AssignTo(result, x, m5)))))))

range_check_felt(cfg, value, k, n) ==
    ThenAll(num2bits(cfg, value, NumBits, n), LAMBDA bits, m :
        [Each(Ran(bits, k + 1, NumBits), m, LAMBDA bit, j : AssertBit(cfg, bit, 0, j)) EXCEPT !.res = <<>>])

-----------------------------------------------------------------------------
(* Powers and selections.                                                  *)

select_f(cond, a, b, n) == Fresh("CircuitSelectF", "F", 1, <<cond, a, b>>, n)

\* One round of the loops of exp_reverse_bits: of <<result, power_f>>.
WrapExpRound(bit, s, n) ==
    Then(EvalExpr("F", "mul", s[1], s[2], n), LAMBDA prod, m1 :
        Then(Expr("mul", bit, prod, m1), LAMBDA p, m2 :
            Then(Expr("sub", FeltConst(1), bit, m2), LAMBDA nbit, m3 :
                Then(Expr("mul", nbit, s[1], m3), LAMBDA q, m4 :
                    Join(EvalExpr("F", "add", p, q, m4), LAMBDA m5 :
                        EvalExpr("F", "mul", s[2], s[2], m5))))))

OuterExpRound(bit, s, n) ==
    Then(EvalExpr("F", "mul", s[1], s[2], n), LAMBDA prod, m1 :
        Join(select_f(bit, prod, s[1], m1), LAMBDA m2 :
            Then(Expr("mul", s[2], s[2], m2), LAMBDA sq, m3 : AssignTo(s[2], sq, m3))))

ExpLoop(input, bits, n, Round(_, _, _)) ==
    LET k == Len(bits)
        upto[i \in 0 .. k] ==
            IF i = 0 THEN ThenAll(Constant("F", One, n), LAMBDA s, m : Pushed(<<>>, <<s[1], input>>, m))
            ELSE ThenAll(upto[i - 1], LAMBDA s, m : Round(bits[k + 1 - i], s, m))
    IN  ThenAll(upto[k], LAMBDA s, m : Pushed(<<>>, <<s[1]>>, m))

exp_reverse_bits(cfg, input, bits, n) ==
    CASE cfg \in {"inner", "all"} -> Fresh("CircuitV2ExpReverseBits", "F", 1, <<input>> \o bits, n)
      [] cfg = "wrap"  -> ExpLoop(input, bits, n, WrapExpRound)
      [] cfg = "outer" -> ExpLoop(input, bits, n, OuterExpRound)

exp_f_bits_precomputed(cfg, bits, powers, n) ==
    IF cfg # "outer" THEN exp_reverse_bits(cfg, powers[1], RevSeq(bits), n)
    ELSE Then(Constant("F", One, n), LAMBDA result, m1 :
             Then(Constant("F", One, m1), LAMBDA one, m2 :
                 Chain(Pushed(<<>>, <<result>>, m2), Len(bits), LAMBDA i, r, m :
                     Then(select_f(bits[i], powers[i], one, m),
                          LAMBDA mult, k : EvalExpr("F", "mul", mult, r, k)))))

exp_power_of_2(t, e, k, n) ==
    Evaluated(t, Chain(Pushed(<<>>, <<e>>, n), k, LAMBDA i, x, m : Expr("mul", x, x, m)))

\* select_chain_f and select_chain_ef.
select_chain(cfg, t, swap, first, second, n) ==
    LET id == first \o second
        sw == second \o first
        each == [i \in 1 .. Len(id) |-> <<id[i], sw[i]>>]
    IN  IF cfg = "outer"
        THEN Each(each, n, LAMBDA v, m :
                 Fresh(IF t = "F" THEN "CircuitSelectF" ELSE "CircuitSelectE", t, 1, <<swap, v[2], v[1]>>, m))
        ELSE Then(Constant("F", One, n), LAMBDA one, m1 :
                 Then(EvalExpr("F", "sub", one, swap, m1), LAMBDA nswap, m2 :
                     Each(each, m2, LAMBDA v, m : EvalTwoProducts(t, v[1], nswap, v[2], swap, m))))

\* select_chain_digest for digests of Felts (one Select for each limb), and
\* for the outer configuration's digests of one Var.
select_chain_digest(cfg, swap, d1, d2, n) ==
    IF cfg = "outer"
    THEN Join(Fresh("CircuitSelectV", "V", 1, <<swap, d2[1], d1[1]>>, n),
              LAMBDA m : Fresh("CircuitSelectV", "V", 1, <<swap, d1[1], d2[1]>>, m))
    ELSE LET k == Len(d1)
         IN  ThenAll(Uninit("F", 2 * k, n), LAMBDA res, m :
                 Pushed([i \in 1 .. k |-> Ir("Select", <<res[i], res[k + i]>>, <<swap, d1[i], d2[i]>>)], res, m))

-----------------------------------------------------------------------------
(* The extension field, FRI.                                               *)

ext2felt(cfg, ext, n) ==
    ThenAll(Fresh("CircuitExt2Felt", "F", D, <<ext>>, n), LAMBDA felts, m :
        IF cfg = "outer" THEN Pushed(<<>>, felts, m)
        ELSE Then(Chain(Constant("E", Zero, m), D, LAMBDA i, sum, m1 :
                      Then(Constant("E", Monomial(i - 1), m1), LAMBDA monomial, m2 :
                          Then(Expr("mul", monomial, felts[i], m2), LAMBDA p, m3 :
                              EvalExpr("E", "add", sum, p, m3)))),
                  LAMBDA sum, k : [AssertEq("E", sum, ext, k) EXCEPT !.res = felts]))

ext_from_base_slice(felts, n) ==
    Evaluated("E", Chain(Folded("E", Zero, n), Len(felts), LAMBDA i, sum, m :
        Then(Expr("mul", felts[i], Const("E", Monomial(i - 1)), m),
             LAMBDA p, k : Expr("add", sum, p, k))))

\* sample_ext makes an Ext of D Felts by one or the other.
felts2ext(cfg, felts, n) ==
    IF cfg = "outer" THEN Fresh("CircuitFelts2Ext", "E", 1, felts, n)
    ELSE ext_from_base_slice(felts, n)

batch_fri(cfg, alpha_pows, p_at_zs, p_at_xs, n) ==
    IF cfg # "outer" THEN Fresh("CircuitV2BatchFRI", "E", 1, p_at_xs \o p_at_zs \o alpha_pows, n)
    ELSE Chain(Constant("E", Zero, n), Len(alpha_pows), LAMBDA i, acc, m :
             Then(Fresh("SubEF", "E", 1, <<p_at_zs[i], p_at_xs[i]>>, m), LAMBDA t1, m1 :
                 Then(Fresh("MulE", "E", 1, <<alpha_pows[i], t1>>, m1), LAMBDA t2, m2 :
                     Fresh("AddE", "E", 1, <<acc, t2>>, m2))))

\* The arguments are x, z and alpha, then mat_opening, ps_at_z,
\* alpha_pow_input and ro_input; the results alpha_pow_output and ro_output.
fri_fold_v2(single, vec, n) ==
    Fresh("CircuitV2FriFold", "E", Len(vec) \div 2, single \o vec, n)

-----------------------------------------------------------------------------
(* Sums of curve points.                                                   *)

Square(x, n) == Expr("mul", x, x, n)

\* (x1 + x2 + x3) * (x2 - x1)^2 - (y2 - y1)^2
sum_checker_x(p1, p2, p3, n) ==
    Then(Expr("add", p1[1], p2[1], n), LAMBDA a, m1 :
    Then(Expr("add", a, p3[1], m1), LAMBDA b, m2 :
    Then(Expr("sub", p2[1], p1[1], m2), LAMBDA c, m3 :
    Then(Square(c, m3), LAMBDA d, m4 :
    Then(Expr("mul", b, d, m4), LAMBDA e, m5 :
    Then(Expr("sub", p2[2], p1[2], m5), LAMBDA f, m6 :
    Then(Square(f, m6), LAMBDA g, m7 : Expr("sub", e, g, m7))))))))

\* (y1 + y3) * (x2 - x1) - (y2 - y1) * (x1 - x3)
sum_checker_y(p1, p2, p3, n) ==
    Then(Expr("add", p1[2], p3[2], n), LAMBDA a, m1 :
    Then(Expr("sub", p2[1], p1[1], m1), LAMBDA b, m2 :
    Then(Expr("mul", a, b, m2), LAMBDA c, m3 :
    Then(Expr("sub", p2[2], p1[2], m3), LAMBDA d, m4 :
    Then(Expr("sub", p1[1], p3[1], m4), LAMBDA e, m5 :
    Then(Expr("mul", d, e, m5), LAMBDA f, m6 : Expr("sub", c, f, m6)))))))

add_curve_v2(p1, p2, n) ==
    ThenAll(Fresh("CircuitV2HintAddCurve", "F", 2, p1 \o p2, n), LAMBDA p, m :
        Then(sum_checker_x(p1, p2, p, m), LAMBDA cx, m1 :
            Then(sum_checker_y(p1, p2, p, m1), LAMBDA cy, m2 :
                ThenAll(AssertEq("F", cx, FeltConst(0), m2), LAMBDA none, m3 :
                    [AssertEq("F", cy, FeltConst(0), m3) EXCEPT !.res = p]))))

\* Points of the small curve in the places of the code's constants:
\* CURVE_CUMULATIVE_SUM_START (the zero digest) and DIGEST_SUM_START.
ZeroDigest == <<1, 2>>
StartingDigest == <<3, 1>>
NegPoint(p) == <<p[1], -p[2]>>
PointConst(p, n) == Each(p, n, LAMBDA x, m : Constant("F", Base(x), m))

assert_digest_zero_v2(is_real, digest, n) ==
    Each(<<1, 2>>, n, LAMBDA i, m :
        Then(Expr("mul", is_real, digest[i], m), LAMBDA l, m1 :
            Then(Expr("mul", is_real, FeltConst(ZeroDigest[i]), m1),
                 LAMBDA r, m2 : AssertEq("F", l, r, m2))))

select_global_cumulative_sum(is_first, digest, n) ==
    Then(Constant("F", One, n), LAMBDA one, m :
        Each(<<1, 2>>, m, LAMBDA i, m1 :
            Then(Expr("mul", is_first, digest[i], m1), LAMBDA p, m2 :
                Then(Expr("sub", one, is_first, m2), LAMBDA nfirst, m3 :
                    Then(Expr("mul", nfirst, FeltConst(ZeroDigest[i]), m3), LAMBDA q, m4 :
                        EvalExpr("F", "add", p, q, m4))))))

\* One digest added, and all but the last one's zero digest taken off.
sum_digest_v2(digests, n) ==
    LET k == Len(digests)
    IN  ThenAll(PointConst(StartingDigest, n), LAMBDA start, m1 :
        ThenAll(PointConst(ZeroDigest, m1), LAMBDA zero, m2 :
            IF k = 0 THEN Pushed(<<>>, zero, m2)
            ELSE ThenAll(PointConst(NegPoint(StartingDigest), m2), LAMBDA nstart, m3 :
                 ThenAll(PointConst(NegPoint(ZeroDigest), m3), LAMBDA nzero, m4 :
                     LET upto[i \in 0 .. k] ==
                             IF i = 0 THEN Pushed(<<>>, start, m4)
                             ELSE LET added == ThenAll(upto[i - 1], LAMBDA r, m : add_curve_v2(r, digests[i], m))
                                  IN  IF i = k THEN added
                                      ELSE ThenAll(added, LAMBDA r, m : add_curve_v2(r, nzero, m))
                     IN  ThenAll(upto[k], LAMBDA r, m : add_curve_v2(r, nstart, m))))))

-----------------------------------------------------------------------------
(* Hashing and the challenger.                                             *)

\* The outer configuration permutes copies of the Felts in place.
permute(cfg, state, n) ==
    IF cfg # "outer" THEN Fresh("CircuitV2Poseidon2PermuteKoalaBear", "F", WIDTH, state, n)
    ELSE ThenAll(Each(state, n, LAMBDA x, m : Eval("F", x, m)), LAMBDA s, m :
             Pushed(<<Ir("CircuitPoseidon2PermuteKoalaBear", s, s)>>, s, m))

Overwritten(state, chunk) ==
    [i \in 1 .. Len(state) |-> IF i <= Len(chunk) THEN chunk[i] ELSE state[i]]
ChunkOf(s, size, i) == Ran(s, (i - 1) * size + 1, IF i * size > Len(s) THEN Len(s) ELSE i * size)
Chunks(s, size) == [i \in 1 .. (Len(s) + size - 1) \div size |-> ChunkOf(s, size, i)]

poseidon2_hash(cfg, input, n) ==
    LET chunks == Chunks(input, HASH_RATE)
        upto[i \in 0 .. Len(chunks)] ==
            IF i = 0 THEN Each([j \in 1 .. WIDTH |-> j], n, LAMBDA j, m : Constant("F", Zero, m))
            ELSE ThenAll(upto[i - 1], LAMBDA s, m : permute(cfg, Overwritten(s, chunks[i]), m))
    IN  ThenAll(upto[Len(chunks)], LAMBDA s, m : Pushed(<<>>, Ran(s, 1, DIGEST_SIZE), m))

poseidon2_compress_v2(input, n) ==
    Then(Constant("F", Zero, n), LAMBDA zero, m :
        ThenAll(permute("inner", Overwritten([i \in 1 .. WIDTH |-> zero], input), m),
                LAMBDA s, k : Pushed(<<>>, Ran(s, 1, DIGEST_SIZE), k)))

\* The challenger: its state is sponge_state, input_buffer, output_buffer.
DuplexNew(n) ==
    ThenAll(Each([j \in 1 .. WIDTH |-> j], n, LAMBDA j, m : Constant("F", Zero, m)),
            LAMBDA s, m : Pushed(<<>>, <<s, <<>>, <<>> >>, m))

duplexing(c, n) ==
    ThenAll(permute("inner", Overwritten(c[1], c[2]), n),
            LAMBDA s, m : Pushed(<<>>, <<s, <<>>, Ran(s, 1, HASH_RATE)>>, m))

observe(c, value, n) ==
    LET pushed == <<c[1], Append(c[2], value), <<>> >>
    IN  IF Len(pushed[2]) = HASH_RATE THEN duplexing(pushed, n) ELSE Pushed(<<>>, pushed, n)

\* The results are the challenger and the sample.
sample(c, n) ==
    ThenAll(IF c[2] # <<>> \/ c[3] = <<>> THEN duplexing(c, n) ELSE Pushed(<<>>, c, n), LAMBDA d, m :
        Pushed(<<>>, << <<d[1], d[2], Ran(d[3], 1, Len(d[3]) - 1)>>, d[3][Len(d[3])]>>, m))

sample_ext(c, n) ==
    LET upto[i \in 0 .. D] ==
            IF i = 0 THEN Pushed(<<>>, <<c, <<>> >>, n)
            ELSE ThenAll(upto[i - 1], LAMBDA s, m : ThenAll(sample(s[1], m), LAMBDA t, k :
                     Pushed(<<>>, <<t[1], Append(s[2], t[2])>>, k)))
    IN  ThenAll(upto[D], LAMBDA s, m : Then(ext_from_base_slice(s[2], m), LAMBDA e, k :
            Pushed(<<>>, <<s[1], e>>, k)))

\* The results are the challenger and the bits.
sample_bits(c, nb_bits, n) ==
    ThenAll(sample(c, n), LAMBDA s, m : ThenAll(num2bits_v2_f(s[2], NumBits, m), LAMBDA bits, k :
        Pushed(<<>>, <<s[1], Ran(bits, 1, nb_bits)>>, k)))

observe_slice(c, values, n) ==
    LET upto[i \in 0 .. Len(values)] ==
            IF i = 0 THEN Pushed(<<>>, c, n)
            ELSE ThenAll(upto[i - 1], LAMBDA d, m : observe(d, values[i], m))
    IN  upto[Len(values)]

\* The result is the challenger.
check_witness(c, nb_bits, witness, n) ==
    ThenAll(observe(c, witness, n), LAMBDA d, m : ThenAll(sample_bits(d, nb_bits, m), LAMBDA s, k :
        [Each(s[2], k, LAMBDA bit, j : AssertEq("F", bit, FeltConst(0), j)) EXCEPT !.res = s[1]]))

\* A transcript: script is a sequence of "observe", "sample", "ext" and
\* "bits" (of two bits); the values observed are the arguments in turn, the
\* results are the samples.
transcript(script, values, n) ==
    LET Sampled(s, r) == ThenAll(r, LAMBDA t, k : Pushed(<<>>, <<t[1], s[2] \o t[2], s[3]>>, k))
        One1(r) == ThenAll(r, LAMBDA t, k : Pushed(<<>>, <<t[1], <<t[2]>> >>, k))
        Run[i \in 0 .. Len(script)] ==
            IF i = 0 THEN ThenAll(DuplexNew(n), LAMBDA c, m : Pushed(<<>>, <<c, <<>>, values>>, m))
            ELSE ThenAll(Run[i - 1], LAMBDA s, m :
                     CASE script[i] = "observe" ->
                            ThenAll(observe(s[1], Head(s[3]), m),
                                    LAMBDA c, k : Pushed(<<>>, <<c, s[2], Tail(s[3])>>, k))
                       [] script[i] = "sample" -> Sampled(s, One1(sample(s[1], m)))
                       [] script[i] = "ext"    -> Sampled(s, One1(sample_ext(s[1], m)))
                       [] script[i] = "bits"   -> Sampled(s, sample_bits(s[1], 2, m)))
    IN  ThenAll(Run[Len(script)], LAMBDA s, m : Pushed(<<>>, s[2], m))

\* Felts packed into one Var, k bits apart: the last one lowest in
\* felts_to_bn254_var, the first one lowest in reduce_32.
felt2var(x, n) == Fresh("CircuitFelt2Var", "V", 1, <<x>>, n)

felts_to_bn254_var(digest, k, n) ==
    Then(Constant("V", <<2 ^ k, 0>>, n), LAMBDA shift, m1 :
        Chain(Constant("V", Zero, m1), Len(digest), LAMBDA i, result, m :
            Then(felt2var(digest[i], m), LAMBDA word, m2 :
                IF i = 1 THEN AssignTo(result, word, m2)
                ELSE Then(Expr("mul", result, shift, m2), LAMBDA p, m3 :
                         Then(Expr("add", p, word, m3), LAMBDA s, m4 : AssignTo(result, s, m4))))))

reduce_32(vals, k, n) ==
    Chain(Constant("V", Zero, n), Len(vals), LAMBDA i, result, m :
        Then(felt2var(vals[i], m), LAMBDA val, m1 :
            Then(Expr("mul", val, Const("V", <<(2 ^ (k * (i - 1))) % VarOrder, 0>>), m1), LAMBDA p, m2 :
                Then(Expr("add", result, p, m2), LAMBDA s, m3 : AssignTo(result, s, m3)))))

commit_public_values_v2(pvs, n) == Pushed(<<Ir("CircuitV2CommitPublicValues", <<>>, pvs)>>, <<>>, n)

=============================================================================
