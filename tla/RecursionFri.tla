----------------------------- MODULE RecursionFri -----------------------------
(***************************************************************************)
(* The recursive verifier's own parts, as calls of the builder: Merkle     *)
(* paths, the FRI verifier and the check of the constraints at zeta.       *)
(*                                                                         *)
(* A digest is a sequence of DIGEST_SIZE Felts, or of one Var for the      *)
(* outer configuration.  A proof is a record of symbolic values, whose     *)
(* fields have the code's names; RecursionMeaning gives the same records   *)
(* of values to the native verifiers.                                      *)
(***************************************************************************)
EXTENDS RecursionGadgets

\* LogBlowup and PowBits are FriConfig's log_blowup and proof_of_work_bits.
\* The outer hash takes OuterRate Felts at a time, NumFElms of them a Var.
CONSTANTS LogBlowup, PowBits, OuterRate, NumFElms

ASSUME FriAssumption ==
    /\ LogBlowup \in Nat /\ PowBits \in 0 .. NumBits
    /\ NumFElms \in Nat \ {0} /\ OuterRate \in NumFElms .. 3 * NumFElms

\* The generator of the multiplicative group, and of its subgroup of order
\* 2^k, where it has one.
GENERATOR == 3
two_adic_generator(k) ==
    CHOOSE x \in F : Pow(Base(x), 2 ^ k) = One /\ (k > 0 => Pow(Base(x), 2 ^ (k - 1)) # One)
generator(n) == Constant("F", Base(GENERATOR), n)

\* A single operation of the builder.
PushOp(op, t, xs, n) == Fresh(op, t, 1, xs, n)
reduce_e(e, n) == Pushed(<<Ir("ReduceE", <<e>>, <<e>>)>>, <<e>>, n)

\* The sequence of the members of ss, one after the other.
Concat(ss) ==
    LET upto[i \in 0 .. Len(ss)] == IF i = 0 THEN <<>> ELSE upto[i - 1] \o ss[i] IN upto[Len(ss)]

-----------------------------------------------------------------------------
(* Digests.                                                                *)

\* The outer hash: the state is three Vars, permuted in place.
PermuteVars(state, n) == Pushed(<<Ir("CircuitPoseidon2Permute", state, state)>>, state, n)

outer_hash(input, n) ==
    LET blocks == Chunks(input, OuterRate)
        Absorb(state, block, m) ==
            ThenAll(Each(Chunks(block, NumFElms), m, LAMBDA chunk, k : reduce_32(chunk, NumBits + 1, k)),
                    LAMBDA vars1, k : PermuteVars(Overwritten(state, vars1), k))
        upto[i \in 0 .. Len(blocks)] ==
            IF i = 0 THEN Each(<<1, 2, 3>>, n, LAMBDA j, m : Constant("V", Zero, m))
            ELSE ThenAll(upto[i - 1], LAMBDA s, m : Absorb(s, blocks[i], m))
    IN  ThenAll(upto[Len(blocks)], LAMBDA s, m : Pushed(<<>>, <<s[1]>>, m))

outer_compress(pair, n) ==
    ThenAll(Each(<<pair[1], pair[2], Const("V", Zero)>>, n, LAMBDA x, m : Eval("V", x, m)), LAMBDA s, m :
        ThenAll(PermuteVars(s, m), LAMBDA t, k : Pushed(<<>>, <<t[1]>>, k)))

hash(cfg, input, n) == IF cfg = "outer" THEN outer_hash(input, n) ELSE poseidon2_hash(cfg, input, n)
compress(cfg, pair, n) ==
    IF cfg = "outer" THEN outer_compress(pair, n) ELSE poseidon2_compress_v2(pair, n)
assert_digest_eq(cfg, a, b, n) ==
    Each([i \in 1 .. Len(a) |-> <<a[i], b[i]>>], n, LAMBDA p, m : AssertEq(BitType(cfg), p[1], p[2], m))

\* One level up a Merkle tree.
BugClimb(cfg, bit, root, sibling, n) == compress(cfg, root \o sibling, n)
Climb(cfg, bit, root, sibling, n) ==
    ThenAll(select_chain_digest(cfg, bit, root, sibling, n), LAMBDA pair, m : compress(cfg, pair, m))

\* merkle_tree.rs: verify.
merkle_verify(cfg, proof, value, commitment, n) ==
    LET k == Len(proof.path)
        upto[i \in 0 .. k] ==
            IF i = 0 THEN Pushed(<<>>, value, n)
            ELSE ThenAll(upto[i - 1], LAMBDA v, m :
                     Climb(cfg, proof.index[Len(proof.index) + 1 - i], v, proof.path[i], m))
    IN  ThenAll(upto[k], LAMBDA v, m : assert_digest_eq(cfg, v, commitment, m))

-----------------------------------------------------------------------------
(* fri.rs.  Heights are powers of 2.                                       *)

\* What the matrices of a height open to, in their order.
OpenedAt(heights, opened_values, h) ==
    Concat([i \in 1 .. Len(heights) |-> IF heights[i] = h THEN opened_values[i] ELSE <<>>])
Tallest(heights) == CHOOSE h \in {heights[i] : i \in DOMAIN heights} :
                        \A i \in DOMAIN heights : heights[i] <= h

verify_batch(cfg, commit, heights, index_bits, opened_values, proof, n) ==
    LET k == IF Len(proof) < Len(index_bits) THEN Len(proof) ELSE Len(index_bits)
        Opened1(i) == OpenedAt(heights, opened_values, Tallest(heights) \div 2 ^ i)
        upto[i \in 0 .. k] ==
            IF i = 0 THEN hash(cfg, Opened1(0), n)
            ELSE ThenAll(upto[i - 1], LAMBDA r, m :
                     ThenAll(Climb(cfg, index_bits[i], r, proof[i], m), LAMBDA root, m1 :
                         IF Opened1(i) = <<>> THEN Pushed(<<>>, root, m1)
                         ELSE ThenAll(hash(cfg, Opened1(i), m1), LAMBDA next, m2 :
                                  compress(cfg, root \o next, m2))))
    IN  ThenAll(upto[k], LAMBDA root, m : assert_digest_eq(cfg, root, commit, m))

\* One folding: of <<folded_eval, x>>, at the given offset.
FoldStep(cfg, q, offset, s, n) ==
    LET bit  == q.index_bits[offset]
        log_folded_height == q.log_max_height - offset
        step == q.commit_phase_openings[offset]
    IN  ThenAll(reduce_e(s[1], n), LAMBDA none, m0 :
        ThenAll(select_chain(cfg, "E", bit, <<s[1]>>, <<step.sibling_value>>, m0), LAMBDA evals, m1 :
        ThenAll(Join(ext2felt(cfg, evals[1], m1), LAMBDA m : ext2felt(cfg, evals[2], m)), LAMBDA felts, m2 :
        ThenAll(verify_batch(cfg, q.commit_phase_commits[offset], <<2 ^ log_folded_height>>,
                             Ran(q.index_bits, offset + 1, Len(q.index_bits)), <<felts>>,
                             step.opening_proof, m2), LAMBDA none2, m3 :
        Then(EvalExpr("F", "mul", s[2], FeltConst(two_adic_generator(1)), m3), LAMBDA xs_new, m4 :
        ThenAll(select_chain(cfg, "F", bit, <<s[2]>>, <<xs_new>>, m4), LAMBDA xs, m5 :
        Then(PushOp("SubF", "F", <<xs[2], xs[1]>>, m5), LAMBDA temp_1, m6 :
        Then(PushOp("SubE", "E", <<evals[2], evals[1]>>, m6), LAMBDA temp_2, m7 :
        Then(PushOp("DivEF", "E", <<temp_2, temp_1>>, m7), LAMBDA temp_3, m8 :
        Then(PushOp("SubEF", "E", <<q.betas[offset], xs[1]>>, m8), LAMBDA temp_4, m9 :
        Then(PushOp("MulE", "E", <<temp_4, temp_3>>, m9), LAMBDA temp_5, m10 :
        Then(PushOp("AddE", "E", <<evals[1], temp_5>>, m10), LAMBDA temp_6, m11 :
        Then(PushOp("MulE", "E", <<q.betas_squared[offset], q.ro[log_folded_height + 1]>>, m11), LAMBDA temp_7, m12 :
        Join(PushOp("AddE", "E", <<temp_6, temp_7>>, m12),
             LAMBDA m13 : PushOp("MulF", "F", <<s[2], s[2]>>, m13)))))))))))))))

\* The result is the folded evaluation; ro[h + 1] is the reduced opening at
\* log height h.
verify_query(cfg, q, n) ==
    LET k == Len(q.commit_phase_commits)
        upto[i \in 0 .. k] ==
            IF i = 0
            THEN Then(Constant("F", Base(two_adic_generator(q.log_max_height)), n), LAMBDA g, m :
                     Then(exp_reverse_bits(cfg, g, Ran(q.index_bits, 1, q.log_max_height), m), LAMBDA x, m1 :
                         Pushed(<<>>, <<q.ro[q.log_max_height + 1], x>>, m1)))
            ELSE ThenAll(upto[i - 1], LAMBDA s, m : FoldStep(cfg, q, i, s, m))
    IN  Then(upto[k], LAMBDA folded, m : Pushed(<<>>, <<folded>>, m))

\* The challenges: the challenger, the betas and their squares, and the
\* index of every query.
verify_shape_and_sample_challenges(cfg, proof, challenger, n) ==
    LET beta[i \in 0 .. Len(proof.commit_phase_commits)] ==
            IF i = 0 THEN Pushed(<<>>, <<challenger, <<>> >>, n)
            ELSE ThenAll(beta[i - 1], LAMBDA s, m :
                     ThenAll(observe_slice(s[1], proof.commit_phase_commits[i], m), LAMBDA c, m1 :
                         ThenAll(sample_ext(c, m1), LAMBDA t, m2 :
                             Pushed(<<>>, <<t[1], Append(s[2], t[2])>>, m2))))
        log_max_height == Len(proof.commit_phase_commits) + LogBlowup
        Indices(c, m) ==
            LET index[i \in 0 .. Len(proof.query_proofs)] ==
                    IF i = 0 THEN Pushed(<<>>, <<c, <<>> >>, m)
                    ELSE ThenAll(index[i - 1], LAMBDA s, m1 :
                             ThenAll(sample_bits(s[1], log_max_height, m1), LAMBDA t, m2 :
                                 Pushed(<<>>, <<t[1], Append(s[2], t[2])>>, m2)))
            IN  index[Len(proof.query_proofs)]
    IN  ThenAll(beta[Len(proof.commit_phase_commits)], LAMBDA s, m :
        ThenAll(Each(s[2], m, LAMBDA b, j : EvalExpr("E", "mul", b, b, j)), LAMBDA squares, m1 :
        ThenAll(ext2felt(cfg, proof.final_poly, m1), LAMBDA felts, m2 :
        ThenAll(observe_slice(s[1], felts, m2), LAMBDA c, m3 :
        ThenAll(check_witness(c, PowBits, proof.pow_witness, m3), LAMBDA d, m4 :
        ThenAll(Indices(d, m4), LAMBDA t, m5 :
            Pushed(<<>>, [betas |-> s[2], betas_squared |-> squares, query_indices |-> t[2]], m5)))))))

-----------------------------------------------------------------------------
(* verify_two_adic_pcs.  The state of the loops has the powers of alpha so *)
(* far, log_height_pow and ro, both by log height + 1.                     *)

\* The powers of alpha up to pow.
FillPowers(alpha, pows, pow, n) ==
    LET upto[i \in 0 .. pow + 1 - Len(pows)] ==
            IF i = 0 THEN Pushed(<<>>, pows, n)
            ELSE ThenAll(upto[i - 1], LAMBDA ps, m :
                     Then(PushOp("MulE", "E", <<ps[Len(ps)], alpha>>, m), LAMBDA new, m1 :
                         ThenAll(reduce_e(new, m1), LAMBDA none, m2 : Pushed(<<>>, Append(ps, new), m2))))
    IN  IF pow < Len(pows) THEN Pushed(<<>>, pows, n) ELSE upto[pow + 1 - Len(pows)]

BugOpenPoint(cfg, alpha, s, log_height, mat_opening, x, z, ps_at_z, n) ==
    LET k == Len(ps_at_z)
    IN  ThenAll(FillPowers(alpha, s.alpha_pows, k - 1, n), LAMBDA pows, m :
        Then(batch_fri(cfg, Ran(pows, 1, k), ps_at_z, mat_opening, m), LAMBDA acc, m1 :
        Then(PushOp("SubEF", "E", <<z, x>>, m1), LAMBDA temp_1, m2 :
        Then(PushOp("DivE", "E", <<acc, temp_1>>, m2), LAMBDA temp_2, m3 :
        Then(PushOp("AddE", "E", <<s.ro[log_height + 1], temp_2>>, m3), LAMBDA temp_3, m4 :
            Pushed(<<>>, [s EXCEPT !.alpha_pows = pows, !.ro[log_height + 1] = temp_3], m4))))))

\* One point of a matrix.
OpenPoint(cfg, alpha, s, log_height, mat_opening, x, z, ps_at_z, n) ==
    LET pow == s.log_height_pow[log_height + 1]
        k   == Len(ps_at_z)
    IN  ThenAll(FillPowers(alpha, s.alpha_pows, pow + k - 1, n), LAMBDA pows, m :
        Then(batch_fri(cfg, Ran(pows, pow + 1, pow + k), ps_at_z, mat_opening, m), LAMBDA acc, m1 :
        Then(PushOp("SubEF", "E", <<z, x>>, m1), LAMBDA temp_1, m2 :
        Then(PushOp("DivE", "E", <<acc, temp_1>>, m2), LAMBDA temp_2, m3 :
        Then(PushOp("AddE", "E", <<s.ro[log_height + 1], temp_2>>, m3), LAMBDA temp_3, m4 :
            Pushed(<<>>, [s EXCEPT !.alpha_pows = pows, !.log_height_pow[log_height + 1] = @ + k,
                                   !.ro[log_height + 1] = temp_3], m4))))))

\* One matrix: its points in turn.
OpenMat(cfg, alpha, s, powers, index_bits, mat, mat_opening, n) ==
    LET log_height   == mat.log_size + LogBlowup
        bits_reduced == Len(index_bits) - log_height
        trunc == Ran(index_bits, bits_reduced + 1, bits_reduced + log_height)
        AtX(x, m) ==
            LET upto[i \in 0 .. Len(mat.points)] ==
                    IF i = 0 THEN Pushed(<<>>, s, m)
                    ELSE ThenAll(upto[i - 1], LAMBDA t, k :
                             OpenPoint(cfg, alpha, t, log_height, mat_opening, x, mat.points[i], mat.values[i], k))
            IN  upto[Len(mat.points)]
    IN  Then(generator(n), LAMBDA g, m :
        Then(exp_f_bits_precomputed(cfg, RevSeq(trunc), Ran(powers, bits_reduced + 1, Len(powers)), m), LAMBDA e, m1 :
        Then(PushOp("MulF", "F", <<g, e>>, m1), LAMBDA x, m2 : AtX(x, m2))))

\* One query: the reduced openings.
ReduceOpenings(cfg, alpha, alpha_pows, powers, index_bits, rounds, input_proof, n) ==
    LET log_global == Len(index_bits)
        Batch(s, round, opening, m) ==
            LET heights == [i \in 1 .. Len(round.mats) |-> 2 ^ (round.mats[i].log_size + LogBlowup)]
                log_max == CHOOSE h \in 0 .. log_global : 2 ^ h = Tallest(heights)
                mats[i \in 0 .. Len(round.mats)] ==
                    IF i = 0
                    THEN ThenAll(verify_batch(cfg, round.batch_commit, heights,
                                              Ran(index_bits, log_global - log_max + 1, log_global),
                                              opening.opened_values, opening.opening_proof, m),
                                 LAMBDA none, m1 : Pushed(<<>>, s, m1))
                    ELSE ThenAll(mats[i - 1], LAMBDA t, m1 :
                             OpenMat(cfg, alpha, t, powers, index_bits, round.mats[i], opening.opened_values[i], m1))
            IN  mats[Len(round.mats)]
        Start(m) ==
            Then(Eval("E", Const("E", Zero), m), LAMBDA zero, m1 :
                Pushed(<<>>, [alpha_pows |-> alpha_pows, log_height_pow |-> [h \in 1 .. log_global + 1 |-> 0],
                              ro |-> [h \in 1 .. log_global + 1 |-> zero]], m1))
        upto[i \in 0 .. Len(rounds)] ==
            IF i = 0 THEN Start(n)
            ELSE ThenAll(upto[i - 1], LAMBDA s, m : Batch(s, rounds[i], input_proof[i], m))
    IN  ThenAll(upto[Len(rounds)], LAMBDA s, m :
            [AssertEq("E", s.ro[LogBlowup + 1], Const("E", Zero), m) EXCEPT !.res = s])

verify_two_adic_pcs(cfg, proof, challenger, rounds, n) ==
    LET log_global == Len(proof.commit_phase_commits) + LogBlowup
        queries    == proof.query_proofs
        Powers(m)  == Each([i \in 1 .. log_global + 1 |-> log_global + 1 - i], m,
                           LAMBDA k, j : Constant("F", Base(two_adic_generator(k)), j))
        \* <<alpha_pows, reduced_openings>>
        Openings(alpha, ch, powers, first, m) ==
            LET upto[i \in 0 .. Len(queries)] ==
                    IF i = 0 THEN Pushed(<<>>, << <<first>>, <<>> >>, m)
                    ELSE ThenAll(upto[i - 1], LAMBDA s, m1 :
                             ThenAll(ReduceOpenings(cfg, alpha, s[1], powers, ch.query_indices[i], rounds,
                                                    queries[i].input_proof, m1), LAMBDA t, m2 :
                                 Pushed(<<>>, <<t.alpha_pows, Append(s[2], t.ro)>>, m2)))
            IN  upto[Len(queries)]
        Query(ch, ro, i) ==
            [commit_phase_commits |-> proof.commit_phase_commits, index_bits |-> ch.query_indices[i],
             commit_phase_openings |-> queries[i].commit_phase_openings, betas |-> ch.betas,
             betas_squared |-> ch.betas_squared, ro |-> ro, log_max_height |-> log_global]
    IN  ThenAll(sample_ext(challenger, n), LAMBDA s, m :
        ThenAll(verify_shape_and_sample_challenges(cfg, proof, s[1], m), LAMBDA ch, m1 :
        ThenAll(Powers(m1), LAMBDA powers, m2 :
        Then(Eval("E", Const("E", One), m2), LAMBDA first, m3 :
        ThenAll(Openings(s[2], ch, powers, first, m3), LAMBDA o, m4 :
            Each([i \in 1 .. Len(queries) |-> i], m4, LAMBDA i, k :
                Then(verify_query(cfg, Query(ch, o[2][i], i), k), LAMBDA folded, k1 :
                    AssertEq("E", folded, proof.final_poly, k1))))))))

-----------------------------------------------------------------------------
(* domain.rs and constraints.rs.  A domain has log_n and shift.            *)

InvF(x) == Inv(Base(x))[1]

exp_power_of_2_v(base, k, n) ==
    Chain(Eval("E", base, n), k, LAMBDA i, x, m : EvalExpr("E", "mul", x, x, m))

next_point_variable(domain, point, n) ==
    EvalExpr("E", "mul", point, FeltConst(two_adic_generator(domain.log_n)), n)

\* is_first_row, is_last_row, is_transition and inv_zeroifier.
selectors_at_point_variable(domain, point, n) ==
    LET ginv == FeltConst(InvF(two_adic_generator(domain.log_n)))
        one  == Const("E", One)
    IN  Then(EvalExpr("E", "mul", point, FeltConst(InvF(domain.shift)), n), LAMBDA u, m1 :
        Then(exp_power_of_2_v(u, domain.log_n, m1), LAMBDA p, m2 :
        Then(EvalExpr("E", "sub", p, one, m2), LAMBDA z_h, m3 :
        Join(Then(Expr("sub", u, one, m3), LAMBDA d, m : EvalExpr("E", "div", z_h, d, m)), LAMBDA m4 :
        Join(Then(Expr("sub", u, ginv, m4), LAMBDA d, m : EvalExpr("E", "div", z_h, d, m)), LAMBDA m5 :
        Join(EvalExpr("E", "sub", u, ginv, m5), LAMBDA m6 : EvalExpr("E", "div", one, z_h, m6)))))))

\* Constants of the field; the second is other's zerofier at the first point
\* of domain.
ShiftPower(domain) == Inv(Pow(Base(domain.shift), 2 ^ domain.log_n))
ZerofierAtFirst(domain, other) ==
    Sub(Mul(Pow(Base(domain.shift), 2 ^ other.log_n), ShiftPower(other)), One)

SumExpr(xs, n, Term(_, _)) ==
    Chain(Folded("E", Zero, n), Len(xs), LAMBDA i, sum, m :
        Then(Term(i, m), LAMBDA x, k : Expr("add", sum, x, k)))

recompute_quotient(qc_domains, quotient, zeta, n) ==
    LET max_log == Tallest([i \in 1 .. Len(qc_domains) |-> qc_domains[i].log_n])
        zetas[i \in 0 .. max_log] ==
            IF i = 0 THEN Pushed(<<>>, <<zeta>>, n)
            ELSE ThenAll(zetas[i - 1], LAMBDA zs, m :
                     Then(EvalExpr("E", "mul", zs[i], zs[i], m), LAMBDA z, m1 :
                         ThenAll(reduce_e(z, m1), LAMBDA none, m2 : Pushed(<<>>, Append(zs, z), m2))))
        Others(i) == SelectSeq([j \in 1 .. Len(qc_domains) |-> j], LAMBDA j : j # i)
        \* z and z_f, for every other domain.
        Factors(zs, i, m) ==
            Each(Others(i), m, LAMBDA j, k :
                Then(Expr("mul", zs[qc_domains[j].log_n + 1], Const("F", ShiftPower(qc_domains[j])), k), LAMBDA p, k1 :
                    Join(EvalExpr("E", "sub", p, Const("E", One), k1), LAMBDA k2 :
                        Constant("F", ZerofierAtFirst(qc_domains[i], qc_domains[j]), k2))))
        Product(t, s, first, m) ==
            Chain(Folded(t, One, m), Len(s) \div 2, LAMBDA j, p, k : Expr("mul", p, s[2 * (j - 1) + first], k))
        Zp(zs, i, m) ==
            ThenAll(Factors(zs, i, m), LAMBDA fs, m1 :
                Then(Product("F", fs, 2, m1), LAMBDA y, m2 :
                    Then(Product("E", fs, 1, m2), LAMBDA x, m3 : Pushed(<<>>, << <<x, y>> >>, m3))))
        Chunk(ch, zp, m) ==
            Then(SumExpr(ch, m, LAMBDA e, k : Expr("mul", Const("E", Monomial(e - 1)), ch[e], k)),
                 LAMBDA sum, k : Expr("mul", zp, sum, k))
    IN  ThenAll(zetas[max_log], LAMBDA zs, m :
        ThenAll(Each([i \in 1 .. Len(qc_domains) |-> i], m, LAMBDA i, k : Zp(zs, i, k)), LAMBDA xys, m1 :
        ThenAll(Each(xys, m1, LAMBDA xy, k : EvalExpr("E", "div", xy[1], xy[2], k)), LAMBDA zps, m2 :
        ThenAll(Each(zps, m2, LAMBDA zp, k : reduce_e(zp, k)), LAMBDA none, m3 :
            Evaluated("E", SumExpr(quotient, m3, LAMBDA i, k : Chunk(quotient[i], zps[i], k)))))))

\* The chip's folded constraints are an argument.
verify_constraints(trace_domain, qc_domains, quotient, zeta, folded_constraints, n) ==
    ThenAll(selectors_at_point_variable(trace_domain, zeta, n), LAMBDA sels, m :
        Then(recompute_quotient(qc_domains, quotient, zeta, m), LAMBDA q, m1 :
            Then(Expr("mul", folded_constraints, sels[4], m1), LAMBDA l, m2 : AssertEq("E", l, q, m2))))

=============================================================================
