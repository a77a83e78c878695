-------------------------- MODULE MCRecursionProgram --------------------------
(* The circuits that TLC runs, built from the calls the recursive verifiers *)
(* make, for the field of order 5.                                          *)
EXTENDS RecursionProgram

CF(x) == FeltConst(x)
CE(x, y) == Const("E", <<x, y>>)
ReadOf(t) == Call("read", t, <<>>)
ReadF == ReadOf("F")
ReadE == ReadOf("E")
Refs(i, j) == [k \in 1 .. j - i + 1 |-> Ref(i + k - 1)]
Op2(f, t, x, y) == Call("expr", <<f, t>>, <<x, y>>)
Circuit(cfg, calls) == [cfg |-> cfg, calls |-> calls]

Operators == <<"add", "sub", "mul", "div">>
\* A circuit for each of the operators.
ForAll(cfg, Calls(_)) == [i \in 1 .. Len(Operators) |-> Circuit(cfg, Calls(Operators[i]))]

\* Felt expressions, with variables and constants on either side.
FeltCircuits(cfg) ==
    ForAll(cfg, LAMBDA f : <<ReadF, ReadF, Op2(f, "F", Ref(1), Ref(2)), Call("eq", "F", <<Ref(3), CF(2)>>)>>)
    \o ForAll(cfg, LAMBDA f : <<ReadF, Op2(f, "F", CF(3), Ref(1)), Call("ne", "F", <<Ref(2), CF(1)>>)>>)
    \o <<Circuit(cfg, <<ReadF, Op2("sub", "F", Ref(1), CF(3)), Op2("mul", "F", Ref(2), CF(2)),
                        Op2("add", "F", Ref(3), CF(4)), Call("eq", "F", <<Ref(4), Ref(1)>>)>>)>>

\* Ext expressions, with Exts, Felts and constants.
ExtCircuits(cfg) ==
    ForAll(cfg, LAMBDA f : <<ReadE, ReadF, Op2(f, "E", Ref(1), Ref(2)), Op2(f, "E", Ref(3), Ref(1)),
                             Call("eq", "E", <<Ref(4), CE(2, 1)>>)>>)
    \o ForAll(cfg, LAMBDA f : <<ReadE, Op2(f, "E", CE(1, 2), Ref(1)), Op2(f, "E", Ref(2), CE(3, 4))>>)
    \o ForAll(cfg, LAMBDA f : <<ReadF, Op2(f, "E", CE(1, 2), Ref(1)), Op2(f, "E", Ref(1), CE(3, 4)),
                                Call("eq", "E", <<Ref(2), Ref(3)>>)>>)
    \o <<Circuit(cfg, <<ReadE, ReadF, Op2("sub", "E", Ref(2), Ref(1)), Op2("div", "E", Ref(2), Ref(3))>>),
         Circuit(cfg, <<ReadE, Call("neg", "E", <<Ref(1)>>), Call("exp_power_of_2", 3, <<Ref(2)>>)>>)>>

\* Bits, powers and selections.
BitCircuits(cfg) ==
    <<Circuit(cfg, <<ReadF, Call("num2bits", 3, <<Ref(1)>>), Call("bits2num", 0, Refs(2, 4))>>),
      Circuit(cfg, <<ReadF, Call("num2bits", 2, <<Ref(1)>>), Call("bits2num", 0, Refs(2, 3))>>),
      Circuit(cfg, <<ReadF, Call("range_check_felt", 2, <<Ref(1)>>)>>),
      Circuit(cfg, <<ReadF, ReadF, Call("num2bits", 3, <<Ref(1)>>),
                     Call("exp_reverse_bits", 0, <<Ref(2)>> \o Refs(3, 5))>>),
      Circuit(cfg, <<ReadF, Op2("mul", "F", Ref(1), Ref(1)), ReadF, Call("num2bits", 3, <<Ref(3)>>),
                     Call("exp_f_bits_precomputed", 0, Refs(4, 5) \o Refs(1, 2))>>),
      Circuit(cfg, <<ReadOf(BitType(cfg)), ReadF, Call("select_chain", "F", <<Ref(1), Ref(2), CF(3)>>)>>),
      Circuit(cfg, <<ReadOf(BitType(cfg)), ReadE, Call("select_chain", "E", <<Ref(1), Ref(2), CE(3, 1)>>)>>),
      Circuit(cfg, <<ReadOf(BitType(cfg)), ReadF, Call("exp_reverse_bits", 0, <<Ref(2), Ref(1), Ref(1)>>)>>)>>

\* The extension field's conversions, and FRI.
FriCircuits(cfg) ==
    <<Circuit(cfg, <<ReadE, Call("ext2felt", 0, <<Ref(1)>>), Op2("add", "F", Ref(2), Ref(3)),
                     Call("felts2ext", 0, <<Ref(4), Ref(2)>>)>>),
      Circuit(cfg, <<ReadF, ReadE,
                     Call("batch_fri", 0, <<Ref(1), CF(2), Ref(2), CE(1, 1), CE(2, 1), Ref(2)>>),
                     Op2("sub", "E", Ref(3), Ref(2))>>)>>

\* Digests on the curve, on the recursion machine.
CurveCircuits(cfg) ==
    <<Circuit(cfg, <<ReadF, ReadF, Call("add_curve", 0, <<Ref(1), Ref(2), CF(1), CF(2)>>)>>),
      Circuit(cfg, <<ReadF, ReadF, Call("sum_digest", 0, <<Ref(1), Ref(2), CF(4), CF(1)>>)>>),
      Circuit(cfg, <<ReadF, ReadF, ReadF, Call("assert_digest_zero", 0, Refs(1, 3))>>),
      Circuit(cfg, <<ReadF, ReadF, Call("select_global_cumulative_sum", 0, <<Ref(1), Ref(2), CF(3)>>),
                     Call("commit", 0, <<CF(1), Ref(3), Ref(4)>>)>>)>>

\* Hashes and the transcript, on the recursion machines.
HashCircuits(cfg) ==
    <<Circuit(cfg, <<ReadF, ReadF, Call("select_chain_digest", 0, <<Ref(1), Ref(2), CF(3), CF(1), CF(4)>>),
                     Call("compress", 0, Refs(3, 6))>>),
      Circuit(cfg, <<ReadF, ReadF, Call("poseidon2_hash", 0, <<Ref(1), Ref(2), CF(3)>>)>>),
      Circuit(cfg, <<ReadF, ReadF, Call("transcript",
                     <<"observe", "sample", "observe", "observe", "sample", "sample", "sample", "observe", "sample">>,
                     <<Ref(1), CF(2), Ref(2), Ref(1)>>)>>),
      Circuit(cfg, <<ReadF, ReadF, Call("transcript", <<"observe", "ext", "bits", "observe", "bits", "ext">>,
                                        <<Ref(1), Ref(2)>>)>>)>>

FoldCircuits ==
    <<Circuit("all", <<ReadF, ReadE,
                       Call("fri_fold", 0, <<Ref(1), Ref(2), CE(1, 3), CE(2, 2), CE(0, 1), CE(1, 1), Ref(2)>>),
                       Op2("add", "E", Ref(3), Ref(4))>>),
      Circuit("all", <<ReadE, Call("fri_fold", 0,
                       <<CF(3), Ref(1), CE(1, 3), CE(2, 2), Ref(1), CE(0, 1), CE(3, 1), CE(1, 1), CE(4, 4),
                         CE(2, 0), CE(1, 0)>>),
                       Call("commit", 0, <<CF(1), CF(2)>>)>>)>>

OuterCircuits ==
    <<Circuit("outer", <<ReadF, Call("permute", 0, <<Ref(1), CF(3), CF(0), Ref(1)>>)>>),
      Circuit("outer", <<ReadF, Call("poseidon2_hash", 0, <<Ref(1), CF(4), CF(2)>>),
                         Call("felts_to_bn254_var", 3, Refs(2, 3))>>),
      Circuit("outer", <<ReadF, ReadF, Op2("mul", "F", Ref(1), Ref(2)), Call("reduce_32", 4, Refs(1, 3))>>),
      Circuit("outer", <<ReadE, Op2("mul", "E", Ref(1), Ref(1)), Call("reduce_e", 0, <<Ref(2)>>),
                         Op2("mul", "E", Ref(2), Ref(1)), Call("eq", "E", <<Ref(3), Ref(1)>>)>>),
      Circuit("outer", <<ReadOf("V"), ReadOf("V"), ReadF, Call("felts_to_bn254_var", 3, <<Ref(3)>>),
                         Call("select_chain_digest", 0, <<Ref(1), Ref(2), Ref(4)>>),
                         Call("eq", "V", <<Ref(5), Ref(2)>>)>>),
      Circuit("outer", <<ReadF, ReadF, Op2("mul", "F", Ref(1), Ref(2)), Op2("mul", "F", Ref(3), Ref(3)),
                         Op2("sub", "F", Ref(1), Ref(4)), Op2("sub", "F", Ref(5), Ref(3)),
                         Op2("mul", "F", Ref(6), Ref(5)), Call("eq", "F", <<Ref(7), Ref(2)>>)>>)>>

\* Merkle trees: w values to a digest, and the commitment is the one of the
\* index read here last.
Seg(i, w) == [k \in 1 .. w |-> i + k - 1]
ReadBit(cfg) == ReadOf(BitType(cfg))
DigestConst(cfg, x) == IF cfg = "outer" THEN <<Const("V", <<x, 0>>)>> ELSE <<CF(x), CF(x + 1)>>

MerkleCircuit(cfg, w) ==
    LET sib1 == DigestConst(cfg, 2)
        sib2 == DigestConst(cfg, 3)
        leaf == Ran(<<Ref(3)>> \o DigestConst(cfg, 1), 1, w)
    IN  Circuit(cfg, <<ReadBit(cfg), ReadBit(cfg), ReadOf(BitType(cfg)), Call("compress", 0, leaf \o sib1),
                       Call("compress", 0, sib2 \o Refs(4, 3 + w)),
                       Call("merkle_verify",
                            [index |-> <<1, 2>>, path |-> <<Seg(3, w), Seg(3 + w, w)>>,
                             value |-> Seg(3 + 2 * w, w), commitment |-> Seg(3 + 3 * w, w)],
                            Refs(1, 2) \o sib1 \o sib2 \o leaf \o Refs(4 + w, 3 + 2 * w))>>)

\* A tall and a short matrix in one tree.
BatchCircuit(cfg, w) ==
    LET sib1 == DigestConst(cfg, 2)
        sib2 == DigestConst(cfg, 3)
        row  == <<Ref(3), CF(3), CF(1), Ref(3), CF(2)>>
        Res(i) == Refs(4 + (i - 1) * w, 3 + i * w)
    IN  Circuit(cfg, <<ReadBit(cfg), ReadBit(cfg), ReadF, Call("hash", 0, row), Call("compress", 0, Res(1) \o sib1),
                       Call("hash", 0, <<CF(4)>>), Call("compress", 0, Res(2) \o Res(3)),
                       Call("compress", 0, sib2 \o Res(4)),
                       Call("verify_batch",
                            [commit |-> Seg(9, w), heights |-> <<4, 2>>, index_bits |-> <<1, 2>>,
                             opened_values |-> <<Seg(3, 5), <<8>> >>, proof |-> <<Seg(9 + w, w), Seg(9 + 2 * w, w)>>],
                            Refs(1, 2) \o row \o <<CF(4)>> \o Res(5) \o sib1 \o sib2)>>)

\* One query with one folding: an Ext and its sibling.
QueryCircuit(cfg, w) ==
    LET sib == DigestConst(cfg, 2)
    IN  Circuit(cfg, <<ReadBit(cfg), ReadF, Op2("add", "E", Ref(2), CE(1, 3)),
                       Op2("add", "E", Ref(2), CE(4, 2)), Call("ext2felt", 0, <<Ref(3)>>),
                       Call("ext2felt", 0, <<Ref(4)>>), Call("hash", 0, Refs(5, 8)),
                       Call("compress", 0, Refs(9, 8 + w) \o sib),
                       Call("verify_query",
                            [commit_phase_commits |-> <<Seg(8, w)>>, index_bits |-> <<1, 2>>,
                             commit_phase_openings |-> <<[sibling_value |-> 3, opening_proof |-> <<Seg(8 + w, w)>>]>>,
                             betas |-> <<4>>, betas_squared |-> <<5>>, ro |-> <<6, 6, 7>>, log_max_height |-> 2],
                            <<Ref(1), Const(BitType(cfg), Zero), Ref(4), CE(2, 1), Const("E", Mul(<<2, 1>>, <<2, 1>>)), CE(0, 3), Ref(3)>>
                            \o Refs(9 + w, 8 + 2 * w) \o sib)>>)

TreeCircuits(cfg) ==
    LET w == IF cfg = "outer" THEN 1 ELSE DIGEST_SIZE
    IN  <<MerkleCircuit(cfg, w), BatchCircuit(cfg, w), QueryCircuit(cfg, w)>>

DomainOf(log_n, shift) == [log_n |-> log_n, shift |-> shift]
ConstraintCircuits(cfg) ==
    [i \in 1 .. 3 |-> Circuit(cfg, <<ReadE, Call("selectors_at_point", DomainOf(i - 1, 4 - i), <<Ref(1)>>),
                                     Call("next_point", DomainOf(i - 1, 1), <<Ref(1)>>)>>)]
    \o <<Circuit(cfg, <<ReadF, ReadE, Op2("add", "E", CE(0, 1), Ref(1)),
                        Call("verify_constraints",
                             [trace |-> DomainOf(1, 1), chunks |-> <<DomainOf(1, 3), DomainOf(1, 1)>>],
                             <<Ref(3), Ref(2), CE(1, 2), CE(3, 0), CE(2, 2), CE(0, 4)>>)>>),
         Circuit(cfg, <<ReadE, Call("verify_constraints", [trace |-> DomainOf(2, 1), chunks |-> <<DomainOf(2, 3)>>],
                                    <<CE(2, 1), Ref(1), CE(1, 3), CE(4, 4)>>)>>)>>

\* An honest prover's FRI proof, of two linear polynomials and a constant.
Poly1(x) == Add(Base(2), Mul(Base(3), x))
Poly2(x) == Add(Base(1), Mul(Base(4), x))
Poly3 == Base(3)
Z1 == <<1, 2>>
Z2 == <<0, 1>>
XAt(i) == Mul(Base(GENERATOR), Pow(Base(two_adic_generator(2)), ReversedBits(i, 2)))
RowAt(i) == <<Poly1(XAt(i)), Poly2(XAt(i))>>
LeafAt(i) == ValueHash(RowAt(i))
PairAt(j) == Parent("inner", LeafAt(2 * j), LeafAt(2 * j + 1))
NodeAt(j) == Parent("inner", PairAt(j), ValueHash(<<Poly3>>))
Alpha == ExtOf(ValueSamples(<<"sample", "sample">>, <<>>))
FinalPoly == Add(Mul(Base(3), Add(One, Pow(Alpha, 2))), Mul(Base(4), Add(Alpha, Pow(Alpha, 3))))
PairLeaf == ValueHash(FeltsOf(FinalPoly) \o FeltsOf(FinalPoly))
CommitRoot == Parent("inner", PairLeaf, PairLeaf)
Challenges(w) == FriChallenges([commit_phase_commits |-> <<CommitRoot>>, final_poly |-> FinalPoly,
                                pow_witness |-> Base(w), query_proofs |-> <<0>>])
PowWitness == CHOOSE w \in F : Challenges(w).pow % 2 ^ PowBits = 0
Index == Challenges(PowWitness).indices[1]

\* The proof's values, with the types of the variables that hold them.
ProofValues ==
    LET index == Index
    IN  <<FinalPoly, Base(PowWitness)>> \o CommitRoot \o <<FinalPoly>> \o PairLeaf
        \o Parent("inner", NodeAt(0), NodeAt(1)) \o RowAt(index) \o <<Poly3>>
        \o LeafAt(IF index % 2 = 0 THEN index + 1 ELSE index - 1) \o NodeAt(1 - index \div 2)
        \o <<Z1, Z2, Poly1(Z1), Poly2(Z1), Poly1(Z2), Poly2(Z2), Poly3>>
ProofTypes == <<"E", "F", "F", "F", "E">> \o Times(11, "F") \o Times(7, "E")
FriPar ==
    [final_poly |-> 1, pow_witness |-> 2, commit_phase_commits |-> << <<3, 4>> >>,
     query_proofs |-> << [commit_phase_openings |-> << [sibling_value |-> 5, opening_proof |-> << <<6, 7>> >>] >>,
                          input_proof |-> << [opened_values |-> << <<10, 11>>, <<12>> >>,
                                              opening_proof |-> << <<13, 14>>, <<15, 16>> >>] >>] >>,
     rounds |-> << [batch_commit |-> <<8, 9>>,
                    mats |-> << [log_size |-> 1, points |-> <<17, 18>>, values |-> << <<19, 20>>, <<21, 22>> >>],
                                [log_size |-> 0, points |-> <<17>>, values |-> << <<23>> >>] >>] >>]

\* Something read is added to one of the proof's values.
PcsCircuit(cfg, values, i) ==
    LET args == [j \in 1 .. Len(values) |-> IF j = i THEN Ref(2) ELSE Const(ProofTypes[j], values[j])]
    IN  Circuit(cfg, <<ReadF, Op2("add", ProofTypes[i], Ref(1), Const(ProofTypes[i], values[i])),
                       Call("verify_two_adic_pcs", FriPar, args)>>)
PcsCircuits(cfg, is) ==
    LET values == ProofValues IN [k \in 1 .. Len(is) |-> PcsCircuit(cfg, values, is[k])]

GadgetCircuits ==
    FeltCircuits("inner") \o FeltCircuits("outer") \o ExtCircuits("inner") \o ExtCircuits("outer")
    \o BitCircuits("inner") \o BitCircuits("wrap") \o BitCircuits("outer")
    \o FriCircuits("inner") \o FriCircuits("wrap") \o FriCircuits("outer")
    \o CurveCircuits("inner") \o HashCircuits("inner") \o HashCircuits("wrap") \o FoldCircuits \o OuterCircuits
VerifierCircuits ==
    TreeCircuits("inner") \o TreeCircuits("wrap") \o TreeCircuits("outer")
    \o ConstraintCircuits("inner") \o SubSeq(ConstraintCircuits("outer"), 2, 3)
    \o PcsCircuits("inner", <<1, 23>>) \o PcsCircuits("wrap", <<5, 20>>)

MCCircuits == LET gadgets == GadgetCircuits IN gadgets \o VerifierCircuits

MCCompiled(c) == LET code == CodeOf(c) IN code

=============================================================================
