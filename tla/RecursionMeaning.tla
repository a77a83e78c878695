--------------------------- MODULE RecursionMeaning ---------------------------
(***************************************************************************)
(* What the builder's calls mean, stated on values and not on what the     *)
(* calls compile to: the native functions that the circuits verify the     *)
(* work of, and the textbook definition where there is one.                *)
(***************************************************************************)
EXTENDS RecursionGnark

\* The arguments of a call of k parts of equal length.
Part(a, k, i) == LET n == Len(a) \div k IN Ran(a, (i - 1) * n + 1, i * n)
Points(a) == [i \in 1 .. Len(a) \div 2 |-> Ran(a, 2 * i - 1, 2 * i)]

\* The proofs that calls are given: the parameter says which argument is
\* where, and a holds the arguments, symbolic ones or their values.
At(a, is) == [i \in 1 .. Len(is) |-> a[is[i]]]
AtEach(a, iss) == [i \in 1 .. Len(iss) |-> At(a, iss[i])]
MerkleOf(p, a) ==
    [proof |-> [index |-> At(a, p.index), path |-> AtEach(a, p.path)],
     value |-> At(a, p.value), commitment |-> At(a, p.commitment)]
BatchOf(p, a) ==
    [commit |-> At(a, p.commit), heights |-> p.heights, index_bits |-> At(a, p.index_bits),
     opened_values |-> AtEach(a, p.opened_values), proof |-> AtEach(a, p.proof)]
StepsOf(steps, a) ==
    [i \in 1 .. Len(steps) |->
        [sibling_value |-> a[steps[i].sibling_value], opening_proof |-> AtEach(a, steps[i].opening_proof)]]
QueryOf(p, a) ==
    [commit_phase_commits |-> AtEach(a, p.commit_phase_commits), index_bits |-> At(a, p.index_bits),
     commit_phase_openings |-> StepsOf(p.commit_phase_openings, a), betas |-> At(a, p.betas),
     betas_squared |-> At(a, p.betas_squared), ro |-> At(a, p.ro), log_max_height |-> p.log_max_height]
FriProofOf(p, a) ==
    [commit_phase_commits |-> AtEach(a, p.commit_phase_commits), final_poly |-> a[p.final_poly],
     pow_witness |-> a[p.pow_witness],
     query_proofs |-> [i \in 1 .. Len(p.query_proofs) |->
         [commit_phase_openings |-> StepsOf(p.query_proofs[i].commit_phase_openings, a),
          input_proof |-> [j \in 1 .. Len(p.query_proofs[i].input_proof) |->
              [opened_values |-> AtEach(a, p.query_proofs[i].input_proof[j].opened_values),
               opening_proof |-> AtEach(a, p.query_proofs[i].input_proof[j].opening_proof)]]]]]
RoundsOf(p, a) ==
    [i \in 1 .. Len(p.rounds) |->
        [batch_commit |-> At(a, p.rounds[i].batch_commit),
         mats |-> [j \in 1 .. Len(p.rounds[i].mats) |->
             [log_size |-> p.rounds[i].mats[j].log_size, points |-> At(a, p.rounds[i].mats[j].points),
              values |-> AtEach(a, p.rounds[i].mats[j].values)]]]]
ChunksOf(a) == [i \in 1 .. Len(a) \div D |-> Ran(a, D * (i - 1) + 1, D * i)]

-----------------------------------------------------------------------------
(* What the calls mean.  a and r are the values of the arguments and the   *)
(* results, and every operator takes the call, the configuration and a.    *)

Booleans(s) == \A i \in DOMAIN s : s[i] \in {Zero, One}
Weighted(s) == LET sum[i \in 0 .. Len(s)] == IF i = 0 THEN 0 ELSE sum[i - 1] + s[i][1] * 2 ^ (i - 1)
               IN  sum[Len(s)]

\* Canonical values, k bits apart, the first one lowest.
Packed(s, k) ==
    LET sum[i \in 0 .. Len(s)] ==
            IF i = 0 THEN 0 ELSE (sum[i - 1] + VarMul(s[i][1], (2 ^ (k * (i - 1))) % VarOrder)) % VarOrder
    IN  sum[Len(s)]

\* The group of the curve y^2 = x^3 + a x + b of the two constant points.
Infinity == <<>>
CurveA == Mul(Sub(Sub(Mul(Base(StartingDigest[2]), Base(StartingDigest[2])), Pow(Base(StartingDigest[1]), 3)),
                  Sub(Mul(Base(ZeroDigest[2]), Base(ZeroDigest[2])), Pow(Base(ZeroDigest[1]), 3))),
              Inv(Sub(Base(StartingDigest[1]), Base(ZeroDigest[1]))))
CurveRest(p) == Sub(Mul(p[2], p[2]), Add(Pow(p[1], 3), Mul(CurveA, p[1])))
Point(p) == <<Base(p[1]), Base(p[2])>>
OnCurve(p) == CurveRest(p) = CurveRest(Point(ZeroDigest))
NegOf(p) == IF p = Infinity THEN p ELSE <<p[1], Neg(p[2])>>
GroupAdd(p, q) ==
    IF p = Infinity THEN q
    ELSE IF q = Infinity THEN p
    ELSE IF q = NegOf(p) THEN Infinity
    ELSE SumOnLine(p, q, IF p = q THEN Mul(Add(Mul(Base(3), Mul(p[1], p[1])), CurveA), Inv(Mul(Base(2), p[2])))
                         ELSE Mul(Sub(q[2], p[2]), Inv(Sub(q[1], p[1]))))

\* The digests' sum, each taken relative to the zero digest.
DigestSum(ps) ==
    LET sum[i \in 0 .. Len(ps)] ==
            IF i = 0 THEN Point(ZeroDigest)
            ELSE GroupAdd(GroupAdd(sum[i - 1], ps[i]), NegOf(Point(ZeroDigest)))
    IN  sum[Len(ps)]

\* Two points whose sum needs none of the special cases.
Generic(p, q) == p # Infinity /\ q # Infinity /\ p[1] # q[1]
\* The points added to StartingDigest in turn.
Addends(ps) ==
    [i \in 1 .. 2 * Len(ps) |->
        IF i % 2 = 1 THEN ps[(i + 1) \div 2]
        ELSE NegOf(Point(IF i = 2 * Len(ps) THEN StartingDigest ELSE ZeroDigest))]
AllGeneric(ps) ==
    LET sum[i \in 0 .. 2 * Len(ps)] ==
            IF i = 0 THEN Point(StartingDigest) ELSE GroupAdd(sum[i - 1], Addends(ps)[i])
    IN  \A i \in 1 .. 2 * Len(ps) : Generic(sum[i - 1], Addends(ps)[i])

\* The sponge and the challenger on values, as the native ones compute them.
ValuePermute(s) == Blocks(Permute(Coords(s)))
ZeroState == [i \in 1 .. WIDTH |-> Zero]
ValueHash(input) ==
    LET chunks == Chunks(input, HASH_RATE)
        upto[i \in 0 .. Len(chunks)] ==
            IF i = 0 THEN ZeroState ELSE ValuePermute(Overwritten(upto[i - 1], chunks[i]))
    IN  Ran(upto[Len(chunks)], 1, DIGEST_SIZE)

\* What the challenger gives for a script of "observe" and "sample": it
\* absorbs what was observed since the last permutation, whenever the rate is
\* reached or a sample needs fresh output.
ValueSamples(script, values) ==
    LET Permuted(s) == [s EXCEPT !.state = ValuePermute(Overwritten(s.state, s.input)),
                                 !.input = <<>>, !.left = HASH_RATE]
        upto[i \in 0 .. Len(script)] ==
            IF i = 0 THEN [state |-> ZeroState, input |-> <<>>, left |-> 0, seen |-> 0, out |-> <<>>]
            ELSE LET s == upto[i - 1]
                 IN  IF script[i] = "observe"
                     THEN LET t == [s EXCEPT !.input = Append(@, values[s.seen + 1]),
                                             !.seen = @ + 1, !.left = 0]
                          IN  IF Len(t.input) = HASH_RATE THEN Permuted(t) ELSE t
                     ELSE LET t == IF s.input # <<>> \/ s.left = 0 THEN Permuted(s) ELSE s
                          IN  [t EXCEPT !.out = Append(@, t.state[t.left]), !.left = @ - 1]
    IN  upto[Len(script)].out

Times(k, x) == [i \in 1 .. k |-> x]
ExtOf(felts) == [i \in 1 .. D |-> felts[i][1]]
FeltsOf(e) == [i \in 1 .. D |-> Base(e[i])]

\* The same for a script with "ext" and "bits" too.
Drawn(script, draws) ==
    LET upto[i \in 0 .. Len(script)] ==
            IF i = 0 THEN [at |-> 0, out |-> <<>>]
            ELSE LET s == upto[i - 1]
                 IN  CASE script[i] = "observe" -> s
                       [] script[i] = "sample" -> [at |-> s.at + 1, out |-> Append(s.out, draws[s.at + 1])]
                       [] script[i] = "ext"  ->
                            [at |-> s.at + D, out |-> Append(s.out, ExtOf(Ran(draws, s.at + 1, s.at + D)))]
                       [] script[i] = "bits" ->
                            [at |-> s.at + 1, out |-> s.out \o BitsOf(draws[s.at + 1], 2)]
    IN  upto[Len(script)].out
ValueTranscript(script, values) ==
    LET plain == Concat([i \in 1 .. Len(script) |->
                     IF script[i] = "observe" THEN <<"observe">>
                     ELSE Times(IF script[i] = "ext" THEN D ELSE 1, "sample")])
    IN  Drawn(script, ValueSamples(plain, values))

-----------------------------------------------------------------------------
(* The native verifiers.                                                   *)

\* The hash of the outer configuration absorbs Vars, each of NumFElms Felts.
VarHash(input) ==
    LET blocks == Chunks(input, OuterRate)
        Vars(block) == LET parts == Chunks(block, NumFElms)
                       IN  [i \in 1 .. Len(parts) |-> Packed(parts[i], NumBits + 1)]
        upto[i \in 0 .. Len(blocks)] ==
            IF i = 0 THEN <<0, 0, 0>>
            ELSE CHOOSE t \in {PermuteVar(Overwritten(s, Vars(blocks[i]))) : s \in {upto[i - 1]}} : TRUE
    IN  << <<upto[Len(blocks)][1], 0>> >>

HashOf(cfg, input) == IF cfg = "outer" THEN VarHash(input) ELSE ValueHash(input)
Parent(cfg, left, right) ==
    IF cfg = "outer" THEN << <<PermuteVar(<<left[1][1], right[1][1], 0>>)[1], 0>> >>
    ELSE Ran(ValuePermute(Overwritten(ZeroState, left \o right)), 1, DIGEST_SIZE)

\* The root above the leaf of this index; rows[i], unless it is empty, is
\* injected at height i.
Injected(cfg, d, row) == IF row = <<>> THEN d ELSE Parent(cfg, d, HashOf(cfg, row))
RootAbove(cfg, index, leaf, path, rows) ==
    LET Pair(i, d) == IF (index \div 2 ^ (i - 1)) % 2 = 0 THEN <<d, path[i]>> ELSE <<path[i], d>>
        Above(pair) == Parent(cfg, pair[1], pair[2])
        upto[i \in 0 .. Len(path)] ==
            IF i = 0 THEN leaf ELSE Injected(cfg, Above(Pair(i, upto[i - 1])), rows[i])
    IN  upto[Len(path)]
PlainRoot(cfg, index, leaf, path) == RootAbove(cfg, index, leaf, path, [i \in 1 .. Len(path) |-> <<>>])

\* The root that the rows opened at an index give, the shorter matrices being
\* injected at their height.
BatchRoot(cfg, heights, index, rows, path) ==
    LET At1(i) == OpenedAt(heights, rows, Tallest(heights) \div 2 ^ i)
    IN  RootAbove(cfg, index, HashOf(cfg, At1(0)), path, [i \in 1 .. Len(path) |-> At1(i)])

\* The bits of x, of which there are k, in reverse.
ReversedBits(x, k) == Weighted(RevSeq(BitsOf(<<x, 0>>, k)))

\* One folding, of the values at x and at -x: the even part, and beta times
\* the odd part.
FoldOf(at_x, at_minus_x, x, beta) ==
    LET half == Inv(Base(2))
    IN  Add(Mul(half, Add(at_x, at_minus_x)), Mul(beta, Mul(half, Mul(Sub(at_x, at_minus_x), Inv(x)))))

\* The values of a query's folding, and whether every pair is in its tree.
\* The rows of a tree are the pairs of values, the one of the even index
\* first.
QueryOutcome(cfg, q) ==
    LET index == Weighted(q.index_bits)
        k == Len(q.commit_phase_commits)
        X(i) == Pow(Base(two_adic_generator(q.log_max_height)),
                    ReversedBits(index, q.log_max_height) * 2 ^ (i - 1))
        upto[i \in 0 .. k] ==
            IF i = 0 THEN [value |-> q.ro[q.log_max_height + 1], ok |-> TRUE]
            ELSE LET s    == upto[i - 1]
                     step == q.commit_phase_openings[i]
                     odd  == (index \div 2 ^ (i - 1)) % 2 = 1
                     row  == IF odd THEN FeltsOf(step.sibling_value) \o FeltsOf(s.value)
                             ELSE FeltsOf(s.value) \o FeltsOf(step.sibling_value)
                 IN  [value |-> Add(FoldOf(s.value, step.sibling_value, X(i), q.betas[i]),
                                    Mul(Mul(q.betas[i], q.betas[i]), q.ro[q.log_max_height - i + 1])),
                      ok |-> s.ok /\ q.commit_phase_commits[i] =
                                 PlainRoot(cfg, index \div 2 ^ i, HashOf(cfg, row), step.opening_proof)]
    IN  upto[k]

\* The challenges: alpha, the betas, the proof of work and the indices.
FriScript(p) ==
    Times(D, "sample")
    \o Concat(Times(Len(p.commit_phase_commits), Times(DIGEST_SIZE, "observe") \o Times(D, "sample")))
    \o Times(D + 1, "observe") \o Times(1 + Len(p.query_proofs), "sample")
ChallengesOf(p, draws) ==
    LET k == Len(p.commit_phase_commits)
        Ext(i) == ExtOf(Ran(draws, D * (i - 1) + 1, D * i))
    IN  [alpha |-> Ext(1), betas |-> [i \in 1 .. k |-> Ext(i + 1)], pow |-> draws[D * (k + 1) + 1][1],
         indices |-> [i \in 1 .. Len(p.query_proofs) |->
                         draws[D * (k + 1) + 1 + i][1] % 2 ^ (k + LogBlowup)]]
FriChallenges(p) ==
    ChallengesOf(p, ValueSamples(FriScript(p),
                                 Concat(p.commit_phase_commits) \o FeltsOf(p.final_poly) \o <<p.pow_witness>>))

\* The columns opened at log height h in a query, each at each of its points:
\* p(z), p(x) and z - x, in the order of the powers of alpha.
ColumnsAt(rounds, input_proof, log_max, index, h) ==
    LET x == Mul(Base(GENERATOR),
                 Pow(Base(two_adic_generator(h)), ReversedBits(index \div 2 ^ (log_max - h), h)))
        Point1(mat, row, j) == [c \in 1 .. Len(row) |-> <<mat.values[j][c], row[c], Sub(mat.points[j], x)>>]
        Mat1(mat, row) ==
            IF mat.log_size + LogBlowup # h THEN <<>>
            ELSE Concat([j \in 1 .. Len(mat.points) |-> Point1(mat, row, j)])
        Round1(round, opening) ==
            Concat([m \in 1 .. Len(round.mats) |-> Mat1(round.mats[m], opening.opened_values[m])])
    IN  Concat([r \in 1 .. Len(rounds) |-> Round1(rounds[r], input_proof[r])])

ReducedOpening(columns, alpha) ==
    SumOf([i \in 1 .. Len(columns) |->
        Mul(Pow(alpha, i - 1), Mul(Sub(columns[i][1], columns[i][2]), Inv(columns[i][3])))])

\* Every query as the FRI verifier sees it, given the challenges.
QueriesOf(p, rounds, ch) ==
    LET log_max == Len(p.commit_phase_commits) + LogBlowup
    IN  [i \in 1 .. Len(p.query_proofs) |->
            [index |-> ch.indices[i], input_proof |-> p.query_proofs[i].input_proof,
             commit_phase_openings |-> p.query_proofs[i].commit_phase_openings,
             columns |-> [h \in 1 .. log_max + 1 |->
                 ColumnsAt(rounds, p.query_proofs[i].input_proof, log_max, ch.indices[i], h - 1)]]]

\* No point of a matrix is the point it is queried at.
AllOutside(queries) ==
    \A i \in DOMAIN queries : \A h \in DOMAIN queries[i].columns :
        \A c \in DOMAIN queries[i].columns[h] : queries[i].columns[h][c][3] # Zero
PointsAreOutside(p, rounds) == AllOutside(QueriesOf(p, rounds, FriChallenges(p)))

AllAccepted(cfg, p, rounds, ch, queries) ==
    LET log_max == Len(p.commit_phase_commits) + LogBlowup
        Heights(round) == [m \in 1 .. Len(round.mats) |-> 2 ^ (round.mats[m].log_size + LogBlowup)]
        Opened1(q) == \A r \in DOMAIN rounds :
            LET log_batch == CHOOSE h \in 0 .. log_max : 2 ^ h = Tallest(Heights(rounds[r]))
            IN  rounds[r].batch_commit =
                    BatchRoot(cfg, Heights(rounds[r]), q.index \div 2 ^ (log_max - log_batch),
                              q.input_proof[r].opened_values, q.input_proof[r].opening_proof)
        Outcome(q, ro) ==
            QueryOutcome(cfg, [commit_phase_commits |-> p.commit_phase_commits,
                               index_bits |-> BitsOf(<<q.index, 0>>, log_max),
                               commit_phase_openings |-> q.commit_phase_openings, betas |-> ch.betas,
                               ro |-> ro, log_max_height |-> log_max])
        Query(q) ==
            \E ro \in {[h \in 1 .. log_max + 1 |-> ReducedOpening(q.columns[h], ch.alpha)]} :
                Opened1(q) /\ ro[LogBlowup + 1] = Zero /\ Outcome(q, ro) = [value |-> p.final_poly, ok |-> TRUE]
    IN  ch.pow % 2 ^ PowBits = 0 /\ \A i \in DOMAIN queries : Query(queries[i])
AcceptsWith(cfg, p, rounds, ch) == AllAccepted(cfg, p, rounds, ch, QueriesOf(p, rounds, ch))
FriAccepts(cfg, p, rounds) == AcceptsWith(cfg, p, rounds, FriChallenges(p))

\* The points of a domain, and the product of (z - h) / shift over those but
\* some.
DomainPoints(domain) ==
    [i \in 1 .. 2 ^ domain.log_n |-> Mul(Base(domain.shift), Pow(Base(two_adic_generator(domain.log_n)), i - 1))]
Vanishing(domain, z, Skipped) ==
    LET points == DomainPoints(domain)
        upto[i \in 0 .. Len(points)] ==
            IF i = 0 THEN One
            ELSE IF i \in Skipped THEN upto[i - 1]
            ELSE Mul(upto[i - 1], Mul(Sub(z, points[i]), Inv(Base(domain.shift))))
    IN  upto[Len(points)]

SelectorsAt(domain, z) ==
    LET last == 2 ^ domain.log_n
    IN  <<Vanishing(domain, z, {1}), Vanishing(domain, z, {last}),
          Mul(Sub(z, DomainPoints(domain)[last]), Inv(Base(domain.shift))), Inv(Vanishing(domain, z, {}))>>

\* The quotient polynomial at z, from its values' chunks: each is 1 on its
\* own domain's part and 0 on the others.
QuotientAt(domains, quotient, z) ==
    LET Ratio(i, j) == Mul(Vanishing(domains[j], z, {}), Inv(Vanishing(domains[j], DomainPoints(domains[i])[1], {})))
        Weight(i) ==
            LET upto[j \in 0 .. Len(domains)] ==
                    IF j = 0 THEN One ELSE IF j = i THEN upto[j - 1] ELSE Mul(upto[j - 1], Ratio(i, j))
            IN  upto[Len(domains)]
        ValueOf(chunk) == SumOf([e \in 1 .. D |-> Mul(Monomial(e - 1), chunk[e])])
    IN  SumOf([i \in 1 .. Len(domains) |-> Mul(Weight(i), ValueOf(quotient[i]))])

-----------------------------------------------------------------------------
(* The calls.                                                              *)

\* What a caller owes: the call means nothing of other arguments.
MayCall(c, cfg, a) ==
    CASE c.name = "bits2num" -> Booleans(a)
      [] c.name = "exp_reverse_bits" -> Len(a) > 1 /\ Booleans(Tail(a))
      [] c.name = "exp_f_bits_precomputed" ->
           LET k == Len(a) \div 2
           IN  Booleans(Ran(a, 1, k)) /\ \A i \in 1 .. k - 1 : a[k + i + 1] = Mul(a[k + i], a[k + i])
      [] c.name \in {"select_chain", "select_chain_digest", "assert_digest_zero",
                     "select_global_cumulative_sum"} -> Booleans(<<a[1]>>)
      [] c.name = "fri_fold" -> a[1] # a[2]
      [] c.name = "add_curve" -> Generic(Ran(a, 1, 2), Ran(a, 3, 4))
      [] c.name = "sum_digest" ->
           LET ps == Points(a) IN (\A i \in DOMAIN ps : OnCurve(ps[i])) /\ AllGeneric(ps)
      [] c.name = "merkle_verify" -> Booleans(MerkleOf(c.par, a).proof.index)
      [] c.name = "verify_batch" -> Booleans(BatchOf(c.par, a).index_bits)
      [] c.name = "verify_query" ->
           LET q == QueryOf(c.par, a)
           IN  /\ Booleans(q.index_bits)
               /\ \A i \in DOMAIN q.betas : q.betas_squared[i] = Mul(q.betas[i], q.betas[i])
      [] c.name = "verify_two_adic_pcs" -> PointsAreOutside(FriProofOf(c.par, a), RoundsOf(c.par, a))
      [] c.name = "selectors_at_point" -> Vanishing(c.par, a[1], {}) # Zero
      [] c.name = "verify_constraints" -> Vanishing(c.par.trace, a[1], {}) # Zero
      [] OTHER -> TRUE

\* What a call asserts of its arguments.
Asserts(c, cfg, a) ==
    CASE c.name = "expr" -> c.par[1] = "div" => (a[2] # Zero \/ (cfg # "outer" /\ a[1] = Zero))
      [] c.name = "eq" -> a[1] = a[2]
      [] c.name = "ne" -> a[1] # a[2]
      [] c.name = "num2bits" -> cfg # "outer" => a[1][1] < 2 ^ c.par
      [] c.name = "range_check_felt" -> a[1][1] < 2 ^ c.par
      [] c.name = "assert_digest_zero" -> a[1] = One => Tail(a) = Point(ZeroDigest)
      [] c.name = "merkle_verify" ->
           LET p == MerkleOf(c.par, a)
           IN  p.commitment = PlainRoot(cfg, Weighted(RevSeq(p.proof.index)), p.value, p.proof.path)
      [] c.name = "verify_batch" ->
           LET p == BatchOf(c.par, a)
           IN  p.commit = BatchRoot(cfg, p.heights, Weighted(p.index_bits), p.opened_values, p.proof)
      [] c.name = "verify_query" -> QueryOutcome(cfg, QueryOf(c.par, a)).ok
      [] c.name = "verify_two_adic_pcs" -> FriAccepts(cfg, FriProofOf(c.par, a), RoundsOf(c.par, a))
      [] c.name = "verify_constraints" ->
           a[2] = Mul(QuotientAt(c.par.chunks, ChunksOf(Ran(a, 3, Len(a))), a[1]), Vanishing(c.par.trace, a[1], {}))
      [] OTHER -> TRUE

\* What a call returns.
Returns(c, cfg, a, r) ==
    CASE c.name = "expr" ->
           IF c.par[1] = "div" THEN IsQuotient(r[1], a[1], a[2])
           ELSE r[1] = IF c.par[2] = "V" THEN ApplyVar(c.par[1], a[1], a[2]) ELSE Apply(c.par[1], a[1], a[2])
      [] c.name = "neg" -> r[1] = Neg(a[1])
      [] c.name = "num2bits" -> r = BitsOf(a[1], c.par)
      [] c.name = "bits2num" -> r[1] = Base(Weighted(a))
      [] c.name = "exp_reverse_bits" -> r[1] = Pow(a[1], Weighted(RevSeq(Tail(a))))
      [] c.name = "exp_f_bits_precomputed" -> r[1] = Pow(a[Len(a) \div 2 + 1], Weighted(Part(a, 2, 1)))
      [] c.name = "exp_power_of_2" -> r[1] = Pow(a[1], 2 ^ c.par)
      [] c.name \in {"select_chain", "select_chain_digest"} ->
           r = IF a[1] = One THEN Part(Tail(a), 2, 2) \o Part(Tail(a), 2, 1) ELSE Tail(a)
      [] c.name = "ext2felt" -> r = [i \in 1 .. D |-> Base(a[1][i])]
      [] c.name = "felts2ext" -> r[1] = [i \in 1 .. D |-> a[i][1]]
      [] c.name = "batch_fri" -> r[1] = BatchAcc(a)
      [] c.name = "fri_fold" -> \A m \in 1 .. FoldSize(a) :
                                    r[m] = NewAlphaPow(a, m) /\ r[FoldSize(a) + m] = NewRo(a, m)
      [] c.name = "add_curve" -> r = add_incomplete(Ran(a, 1, 2), Ran(a, 3, 4))
      [] c.name = "sum_digest" -> r = DigestSum(Points(a))
      [] c.name = "select_global_cumulative_sum" ->
           r = IF a[1] = One THEN Tail(a) ELSE Point(ZeroDigest)
      [] c.name = "permute"    -> r = ValuePermute(a)
      [] c.name = "poseidon2_hash" -> r = ValueHash(a)
      [] c.name = "hash"       -> r = HashOf(cfg, a)
      [] c.name = "compress"   -> r = Parent(cfg, Part(a, 2, 1), Part(a, 2, 2))
      [] c.name = "transcript" -> r = ValueTranscript(c.par, a)
      [] c.name = "verify_query" -> r[1] = QueryOutcome(cfg, QueryOf(c.par, a)).value
      [] c.name = "next_point" -> r[1] = Mul(a[1], Base(two_adic_generator(c.par.log_n)))
      [] c.name = "selectors_at_point" -> r = SelectorsAt(c.par, a[1])
      [] c.name = "felts_to_bn254_var" -> r[1][1] = Packed(RevSeq(a), c.par)
      [] c.name = "reduce_32" -> r[1][1] = Packed(a, c.par)
      [] OTHER -> TRUE

=============================================================================
