--------------------------- MODULE RecursionProgram ---------------------------
(***************************************************************************)
(* Circuits as the recursive verifiers write them, from the calls of the   *)
(* builder to the machine's rows: a circuit is built, compiled, run and    *)
(* proved.                                                                 *)
(*                                                                         *)
(* A circuit is a configuration and a sequence of calls.  It is run by an  *)
(* honest prover, whose runtime computes every value, or by any prover,    *)
(* who fills in what the rows allow.  Every call has a meaning of its own, *)
(* stated on values and not on what it compiles to, and the two properties *)
(* compare the outcome of the run with it.                                 *)
(***************************************************************************)
EXTENDS RecursionMeaning

\* A sequence of circuits: records with fields cfg and calls; a call has a
\* name, a parameter par and arguments, which are constants of the builder or
\* the results of earlier calls, numbered through the whole circuit.
\* Compiled(c) is what the circuit c compiles to.
CONSTANTS Circuits, Compiled(_)

Ref(i) == [t |-> "", k |-> "ref", v |-> i]
Call(name, par, args) == [name |-> name, par |-> par, args |-> args]

VARIABLES circuit,   \* the circuit's number
          prover,    \* "honest" or "any"
          pc,        \* the next instruction
          mem,       \* the value written at each address
          given,     \* the arguments of the current call
          meaning,   \* of the calls so far: were they used as they may be,
                     \* and is what they mean true
          status     \* "running", "accepted", "failed" (the honest prover) or
                     \* "rejected" (any other)

vars == <<circuit, prover, pc, mem, given, meaning, status>>

-----------------------------------------------------------------------------
(* Building and compiling.                                                 *)

BuildCall(cfg, c, a, n) ==
    CASE c.name = "read"      -> Read(cfg, c.par, n)
      [] c.name = "expr"      -> EvalExpr(c.par[2], c.par[1], a[1], a[2], n)
      [] c.name = "neg"       -> Evaluated(c.par, NegExpr(a[1], n))
      [] c.name \in {"eq", "ne"} -> Assert(c.name, c.par, a[1], a[2], n)
      [] c.name = "num2bits"  -> num2bits(cfg, a[1], c.par, n)
      [] c.name = "bits2num"  -> bits2num(cfg, a, n)
      [] c.name = "range_check_felt" -> range_check_felt(cfg, a[1], c.par, n)
      [] c.name = "exp_reverse_bits" -> exp_reverse_bits(cfg, a[1], Tail(a), n)
      [] c.name = "exp_f_bits_precomputed" ->
           exp_f_bits_precomputed(cfg, Part(a, 2, 1), Part(a, 2, 2), n)
      [] c.name = "exp_power_of_2" -> exp_power_of_2(a[1].t, a[1], c.par, n)
      [] c.name = "select_chain" ->
           select_chain(cfg, c.par, a[1], Part(Tail(a), 2, 1), Part(Tail(a), 2, 2), n)
      [] c.name = "select_chain_digest" ->
           select_chain_digest(cfg, a[1], Part(Tail(a), 2, 1), Part(Tail(a), 2, 2), n)
      [] c.name = "ext2felt"  -> ext2felt(cfg, a[1], n)
      [] c.name = "felts2ext" -> felts2ext(cfg, a, n)
      [] c.name = "batch_fri" -> batch_fri(cfg, Part(a, 3, 3), Part(a, 3, 2), Part(a, 3, 1), n)
      [] c.name = "fri_fold"  -> fri_fold_v2(Ran(a, 1, 3), Ran(a, 4, Len(a)), n)
      [] c.name = "add_curve" -> add_curve_v2(Ran(a, 1, 2), Ran(a, 3, 4), n)
      [] c.name = "sum_digest" -> sum_digest_v2(Points(a), n)
      [] c.name = "assert_digest_zero" -> assert_digest_zero_v2(a[1], Tail(a), n)
      [] c.name = "select_global_cumulative_sum" -> select_global_cumulative_sum(a[1], Tail(a), n)
      [] c.name = "permute"   -> permute(cfg, a, n)
      [] c.name = "poseidon2_hash" -> poseidon2_hash(cfg, a, n)
      [] c.name = "hash"      -> hash(cfg, a, n)
      [] c.name = "compress"  -> compress(cfg, a, n)
      [] c.name = "transcript" -> transcript(c.par, a, n)
      [] c.name = "felts_to_bn254_var" -> felts_to_bn254_var(a, c.par, n)
      [] c.name = "reduce_32" -> reduce_32(a, c.par, n)
      [] c.name = "reduce_e"  -> Pushed(<<Ir("ReduceE", a, a)>>, <<>>, n)
      [] c.name = "merkle_verify" ->
           LET p == MerkleOf(c.par, a) IN merkle_verify(cfg, p.proof, p.value, p.commitment, n)
      [] c.name = "verify_batch" ->
           LET p == BatchOf(c.par, a)
           IN  verify_batch(cfg, p.commit, p.heights, p.index_bits, p.opened_values, p.proof, n)
      [] c.name = "verify_query" -> verify_query(cfg, QueryOf(c.par, a), n)
      [] c.name = "verify_two_adic_pcs" ->
           ThenAll(DuplexNew(n), LAMBDA d, m :
               verify_two_adic_pcs(cfg, FriProofOf(c.par, a), d, RoundsOf(c.par, a), m))
      [] c.name = "next_point" -> next_point_variable(c.par, a[1], n)
      [] c.name = "selectors_at_point" -> selectors_at_point_variable(c.par, a[1], n)
      [] c.name = "verify_constraints" ->
           verify_constraints(c.par.trace, c.par.chunks, ChunksOf(Ran(a, 3, Len(a))), a[1], a[2], n)
      [] c.name = "commit"    -> commit_public_values_v2(a, n)

\* Every call with its operations, arguments and results.
Build(c) ==
    LET Resolved(env, a) == [i \in 1 .. Len(a) |-> IF a[i].k = "ref" THEN env[a[i].v] ELSE a[i]]
        upto[i \in 0 .. Len(c.calls)] ==
            IF i = 0 THEN [calls |-> <<>>, env |-> <<>>, n |-> 1, panic |-> FALSE]
            ELSE LET b == upto[i - 1]
                     a == Resolved(b.env, c.calls[i].args)
                     r == BuildCall(c.cfg, c.calls[i], a, b.n)
                 IN  IF b.panic THEN b
                     ELSE [calls |-> Append(b.calls, [call |-> c.calls[i], ops |-> r.ops, args |-> a, res |-> r.res]),
                           env |-> b.env \o r.res, n |-> r.n, panic |-> r.panic]
    IN  upto[Len(c.calls)]

\* The addresses that some row reads as a single element.
SinglesOf(instrs) ==
    UNION {{instrs[i].r[j] : j \in SingleReads(instrs[i])} : i \in DOMAIN instrs}

\* The addresses of variables and those that are read: what a quotient of 0
\* by 0 is does not matter when nothing looks at it.
KeptOf(asm) == {a \in DOMAIN asm.mults : asm.mults[a] > 0} \cup {asm.v2p[x] : x \in DOMAIN asm.v2p}

\* Everything that is known of a circuit before it runs.
CodeOf(c) ==
    LET built  == Build(c)
        asm    == compile(built.calls)
        gnark  == emit(built.calls)
    IN  IF c.cfg = "outer"
        THEN [cfg |-> c.cfg, panic |-> built.panic \/ gnark.panic, calls |-> built.calls, instrs |-> gnark.instrs,
              ends |-> gnark.ends, balanced |-> TRUE]
        ELSE [cfg |-> c.cfg, panic |-> built.panic \/ asm.panic, calls |-> built.calls, instrs |-> asm.instrs,
              ends |-> asm.ends, v2p |-> asm.v2p, single |-> SinglesOf(asm.instrs), kept |-> KeptOf(asm),
              balanced |-> ~asm.panic /\ Balanced(c.cfg, asm)]

\* A circuit is compiled once and run many times.
ASSUME CompiledAssumption == \A n \in DOMAIN Circuits : Compiled(Circuits[n]) = CodeOf(Circuits[n])
Code == [n \in DOMAIN Circuits |-> Compiled(Circuits[n])]

-----------------------------------------------------------------------------
(* Running and proving.                                                    *)

\* The value of x, a constant or a variable, in the memory m.
ValueIn(c, m, x) ==
    IF IsConst(x) THEN x.v
    ELSE IF Code[c].cfg # "outer" THEN m[Code[c].v2p[x.v]]
    ELSE LET w == m[x.v]
         IN  CASE x.t = "V" -> <<w[1].v, 0>>
               [] x.t = "F" -> Base(w[1].v)
               [] x.t = "E" -> ElementOf(w)
ValuesIn(c, m, s) == [i \in 1 .. Len(s) |-> ValueIn(c, m, s[i])]

\* The memories after the instruction at i.
MachineSteps(c, m, i, honest) ==
    LET instr  == Code[c].instrs[i]
        reads  == [j \in 1 .. Len(instr.r) |-> m[instr.r[j]]]
        ghosts == [j \in 1 .. Len(instr.g) |-> m[instr.g[j]]]
        rows   == RowOuts(Code[c].cfg, instr, reads, Code[c].single)
        outs   == IF honest THEN Executed(instr, reads, ghosts) \cap rows ELSE rows
        Out(o, a) == o[CHOOSE j \in DOMAIN instr.w : instr.w[j] = a]
        kept == {instr.w[j] : j \in DOMAIN instr.w} \cap Code[c].kept
    IN  {[a \in DOMAIN m \cup kept |-> IF a \in DOMAIN m THEN m[a] ELSE Out(o, a)] : o \in outs}

\* A gnark variable may be assigned again.
GnarkSteps(c, m, i, honest) ==
    LET cs   == Code[c].instrs[i]
        outs == DefineOuts(honest, cs, [j \in 1 .. Len(cs.args) |-> m[cs.args[j]]])
        Out(o, a) == o[CHOOSE j \in DOMAIN cs.outs : cs.outs[j] = a]
        assigned == {cs.outs[j] : j \in DOMAIN cs.outs}
    IN  {[a \in DOMAIN m \cup assigned |-> IF a \in assigned THEN Out(o, a) ELSE m[a]] : o \in outs}

Steps(c, m, i, honest) ==
    IF Code[c].cfg = "outer" THEN GnarkSteps(c, m, i, honest) ELSE MachineSteps(c, m, i, honest)

\* The call that the instruction at i belongs to.
CallAt(c, i) == Cardinality({k \in DOMAIN Code[c].ends : Code[c].ends[k] < i}) + 1
IsLast(c, i) == i = Code[c].ends[CallAt(c, i)]

\* The arguments of the call at i, if there is one.
ArgsAt(c, m, i) ==
    IF i > Len(Code[c].instrs) THEN <<>> ELSE ValuesIn(c, m, Code[c].calls[CallAt(c, i)].args)

Unproved == IF prover = "honest" THEN "failed" ELSE "rejected"

Init ==
    /\ circuit \in DOMAIN Code
    /\ prover \in {"honest", "any"}
    /\ pc = 1
    /\ mem = [a \in {} |-> Zero]
    /\ given = IF Code[circuit].panic THEN <<>> ELSE ArgsAt(circuit, mem, 1)
    /\ meaning = [used |-> TRUE, holds |-> TRUE]
    /\ status = IF Code[circuit].panic THEN "failed" ELSE "running"

\* One instruction, or one constraint.
RunInstruction ==
    /\ status = "running"
    /\ pc <= Len(Code[circuit].instrs)
    /\ mem' \in Steps(circuit, mem, pc, prover = "honest")
    /\ pc' = pc + 1
    /\ LET k    == CallAt(circuit, pc)
           call == Code[circuit].calls[k].call
           res  == ValuesIn(circuit, mem', Code[circuit].calls[k].res)
           used == meaning.used /\ MayCall(call, Code[circuit].cfg, given)
       IN  IF IsLast(circuit, pc)
           THEN /\ meaning' = [used |-> used, holds |-> meaning.holds /\ (used =>
                                  Asserts(call, Code[circuit].cfg, given) /\ Returns(call, Code[circuit].cfg, given, res))]
                /\ given' = ArgsAt(circuit, mem', pc + 1)
           ELSE UNCHANGED <<meaning, given>>
    /\ UNCHANGED <<circuit, prover, status>>

\* The runtime fails, or no row or value satisfies the constraints.
FailInstruction ==
    /\ status = "running"
    /\ pc <= Len(Code[circuit].instrs)
    /\ Steps(circuit, mem, pc, prover = "honest") = {}
    /\ status' = Unproved
    /\ UNCHANGED <<circuit, prover, pc, mem, given, meaning>>

\* The verifier's check of the memory lookups.
Prove ==
    /\ status = "running"
    /\ pc > Len(Code[circuit].instrs)
    /\ status' = IF Code[circuit].balanced THEN "accepted" ELSE Unproved
    /\ UNCHANGED <<circuit, prover, pc, mem, given, meaning>>

Ended == status # "running" /\ UNCHANGED vars

Next == RunInstruction \/ FailInstruction \/ Prove \/ Ended

Spec == Init /\ [][Next]_vars

-----------------------------------------------------------------------------
(* Properties.                                                             *)

\* A circuit whose calls are used as they may be, and whose assertions hold
\* of the values computed, is built, run and proved: the runtime does not
\* fail, the rows accept what it computed, every read is covered by a write
\* of the right multiplicity, and every instruction has its chip.
MeantIsProvable ==
    status = "failed" =>
        /\ ~Code[circuit].panic
        /\ pc <= Len(Code[circuit].instrs)
        /\ LET call == Code[circuit].calls[CallAt(circuit, pc)].call
           IN  ~(meaning.used /\ MayCall(call, Code[circuit].cfg, given) /\ Asserts(call, Code[circuit].cfg, given))

\* Whatever hints and witnesses a prover fills in, an accepted run means what
\* the calls say: every assertion holds and every result is the one its call
\* defines, as far as the calls were used as they may be.
ProvableIsMeant == status = "accepted" => meaning.holds

=============================================================================
