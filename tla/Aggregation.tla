---------------------------- MODULE Aggregation ----------------------------
(***************************************************************************)
(* The way from a core proof to one proof: get_first_layer_inputs and the  *)
(* tree of compress, then shrink and wrap_bn254 (prover/src/lib.rs), with  *)
(* the rules of the recursion programs in full.  It complements            *)
(* CompressTree, which has the threads, and of the rules only the order of *)
(* the shards and of the deferred proofs: here any two neighbours may be   *)
(* compressed first, and the question is which core proofs get through.    *)
(*                                                                         *)
(* A core proof is built shard by shard.  A shard follows from the one     *)
(* before it, or it deviates from that in one field, as a defect in record *)
(* splitting, shard numbering or trace generation would make it; after a   *)
(* deviation the next shards follow the deviating values.  The witnesses   *)
(* of the programs (is_first_shard, is_complete, the hinted values of a    *)
(* deferred proof) are the ones the prover computes.                       *)
(***************************************************************************)
EXTENDS RecursionCircuits

CONSTANTS
    BatchSizes,      \* values of batch_size; compress passes 1
    DeferredLists,   \* the lists of deferred proofs a run may start with
    OtherPc,         \* a program counter of the program, not pc_start and not 0
    ReduceVk,        \* the vk of the proofs that the prover makes
    MaxLen,          \* bound: shards of a core proof
    MaxDeviations    \* bound: shards, and lists of deferred proofs, that deviate

\* The hash chain over a list of deferred proofs never repeats a digest.
DigestsDiffer(d) ==
    \A i, j \in 0 .. Len(d) :
        i # j => HashDeferredProofs(0, SubSeq(d, 1, i)) # HashDeferredProofs(0, SubSeq(d, 1, j))

ASSUME AggregationAssumption ==
    /\ BatchSizes \subseteq Nat \ {0}
    /\ \A d \in DeferredLists : d \in Seq(Range(d)) /\ DigestsDiffer(d)
    /\ PcStart # 0 /\ OtherPc \notin {0, PcStart}
    /\ ReduceVk \in AllowedVks
    /\ MaxLen \in Nat /\ MaxDeviations \in Nat

VARIABLES
    proof,        \* the shard proofs of the core proof
    deferred,     \* deferred_proofs
    batchSize,    \* the batch size of the first layer
    deviations,   \* how many of them have deviated
    stage,        \* "core", "tree", "compressed", "shrunk", "wrapped" or "rejected"
    frontier      \* the proofs that are still to be compressed, in their order

vars == <<proof, deferred, batchSize, deviations, stage, frontier>>

-----------------------------------------------------------------------------
(* Core proofs. *)

\* What a shard follows: the last one, or the start of the program.
Before ==
    IF proof = <<>>
    THEN [shard |-> 0, execution_shard |-> 0, next_pc |-> PcStart, init |-> ZeroAddrBits,
          finalize |-> ZeroAddrBits, committed |-> 0, deferred |-> 0]
    ELSE LET pv == Last(proof).pv
         IN [shard |-> pv.shard, execution_shard |-> pv.execution_shard,
             next_pc |-> pv.next_pc, init |-> pv.last_init_addr_bits,
             finalize |-> pv.last_finalize_addr_bits,
             committed |-> pv.committed_value_digest, deferred |-> pv.deferred_proofs_digest]

\* memory: the shard has both global memory chips.
ShardProof(cpu, memory, next_pc, committed, deferred_digest) ==
    LET step == IF memory THEN 1 ELSE 0
    IN [cpu |-> cpu, memInit |-> memory, memFinalize |-> memory,
        log_degree_cpu |-> MaxCpuLogDegree, valid |-> TRUE,
        sum |-> IF proof = <<>> THEN -InitialSum ELSE 0,
        pv |-> [shard |-> Before.shard + 1,
                execution_shard |-> Before.execution_shard + (IF cpu THEN 1 ELSE 0),
                start_pc |-> Before.next_pc, next_pc |-> next_pc, exit_code |-> 0,
                previous_init_addr_bits |-> Before.init,
                last_init_addr_bits |-> Before.init + step,
                previous_finalize_addr_bits |-> Before.finalize,
                last_finalize_addr_bits |-> Before.finalize + step,
                committed_value_digest |-> committed,
                deferred_proofs_digest |-> deferred_digest]]

\* The digests after a CPU shard: the program commits both once, before it halts.
Digests ==
    { <<Before.committed, Before.deferred>> } \cup
        IF Before.committed = 0 THEN { <<1, HashDeferredProofs(0, deferred)>> } ELSE {}

CpuShardProofs ==
    { ShardProof(TRUE, c.memory, c.next_pc, c.digests[1], c.digests[2]) :
        c \in [memory : BOOLEAN, next_pc : {0, OtherPc}, digests : Digests] }

OtherShardProofs ==
    { ShardProof(FALSE, memory, Before.next_pc, Before.committed, Before.deferred) :
        memory \in BOOLEAN }

\* The shards an execution may produce next.
NextShardProofs ==
    (IF Before.next_pc # 0 THEN CpuShardProofs ELSE {}) \cup
    (IF proof # <<>> THEN OtherShardProofs ELSE {})

\* p with a wrong value in one field, or of a kind that is out of place.
Deviating(p) ==
    { [p EXCEPT !.valid = FALSE],
      [p EXCEPT !.log_degree_cpu = @ + 1],
      [p EXCEPT !.cpu = ~@],
      [p EXCEPT !.memInit = ~@],
      [p EXCEPT !.memFinalize = ~@],
      [p EXCEPT !.sum = @ + 1],
      [p EXCEPT !.sum = @ - 1],
      [p EXCEPT !.pv.shard = @ + 1],
      [p EXCEPT !.pv.execution_shard = @ + 1],
      [p EXCEPT !.pv.start_pc = IF @ = OtherPc THEN PcStart ELSE OtherPc],
      [p EXCEPT !.pv.next_pc = IF @ = 0 THEN OtherPc ELSE 0],
      [p EXCEPT !.pv.exit_code = 1],
      [p EXCEPT !.pv.previous_init_addr_bits = @ + 1],
      [p EXCEPT !.pv.last_init_addr_bits = @ + 1],
      [p EXCEPT !.pv.previous_finalize_addr_bits = @ + 1],
      [p EXCEPT !.pv.last_finalize_addr_bits = @ + 1],
      [p EXCEPT !.pv.committed_value_digest = IF @ = 0 THEN 1 ELSE 0],
      [p EXCEPT !.pv.deferred_proofs_digest = @ + 1] }

-----------------------------------------------------------------------------
(* First layer. *)

Chunks == [k \in 1 .. (Len(proof) + batchSize - 1) \div batchSize |->
             SubSeq(proof, (k - 1) * batchSize + 1, IF k * batchSize > Len(proof)
                                                    THEN Len(proof) ELSE k * batchSize)]

DeferredChunks ==
    [k \in 1 .. (Len(deferred) + batchSize - 1) \div batchSize |->
        SubSeq(deferred, (k - 1) * batchSize + 1, IF k * batchSize > Len(deferred)
                                                  THEN Len(deferred) ELSE k * batchSize)]

\* Mutant of CoreIsComplete: the deferred proofs are forgotten.
BugCoreIsComplete == Len(proof) = 1

CoreIsComplete == Len(proof) = 1 /\ deferred = <<>>

\* Mutant of DeferredStart: every batch starts a digest of its own.
BugDeferredStart(k) == 0

\* The digest that get_recursion_deferred_inputs has when it comes to batch k.
DeferredStart(k) == HashDeferredProofs(0, SubSeq(deferred, 1, (k - 1) * batchSize))

Made(pv, digest) == [pv |-> pv, digest |-> digest, vk |-> ReduceVk]

FirstLayerAccepted ==
    /\ \A k \in DOMAIN Chunks : CoreAccepts(Chunks[k], k = 1, CoreIsComplete)
    /\ \A k \in DOMAIN DeferredChunks : DeferredAccepts(DeferredChunks[k])

FirstLayer ==
    [k \in DOMAIN Chunks |-> Made(CoreOutput(Chunks[k], k = 1, CoreIsComplete), "reduce")]
    \o [k \in DOMAIN DeferredChunks |->
          Made(DeferredOutput(DeferredChunks[k], DeferredStart(k), Last(proof).pv), "reduce")]

\* expected_height is 0: the only leaf is the root.
IsSingle == Len(FirstLayer) = 1

-----------------------------------------------------------------------------
(* Actions. *)

Init ==
    /\ deferred \in DeferredLists
    /\ deviations = IF DeferredAccepts(deferred) THEN 0 ELSE 1
    /\ batchSize \in BatchSizes
    /\ proof = <<>> /\ stage = "core" /\ frontier = <<>>

\* prove_core makes the next shard proof.
ProveShard ==
    /\ stage = "core" /\ Len(proof) < MaxLen
    /\ \E p \in NextShardProofs : proof' = Append(proof, p)
    /\ UNCHANGED <<deferred, batchSize, deviations, stage, frontier>>

DeviatingShard ==
    /\ stage = "core" /\ Len(proof) < MaxLen /\ deviations < MaxDeviations
    /\ \E p \in NextShardProofs : \E q \in Deviating(p) : proof' = Append(proof, q)
    /\ deviations' = deviations + 1
    /\ UNCHANGED <<deferred, batchSize, stage, frontier>>

\* The core and deferred programs run on the inputs of the first layer.
RunFirstLayer ==
    /\ stage = "core" /\ proof # <<>>
    /\ IF FirstLayerAccepted
       THEN /\ frontier' = FirstLayer
            /\ stage' = IF IsSingle THEN "compressed" ELSE "tree"
       ELSE stage' = "rejected" /\ UNCHANGED frontier
    /\ UNCHANGED <<proof, deferred, batchSize, deviations>>

\* The compress program runs on two neighbours; the last run makes the root.
Compress(i) ==
    /\ stage = "tree" /\ i + 1 \in DOMAIN frontier
    /\ LET pair == SubSeq(frontier, i, i + 1)
           is_complete == Len(frontier) = 2
       IN IF CompressAccepts(pair, is_complete)
          THEN /\ frontier' = SubSeq(frontier, 1, i - 1)
                    \o << Made(CompressOutput(pair, is_complete), "reduce") >>
                    \o SubSeq(frontier, i + 2, Len(frontier))
               /\ stage' = IF is_complete THEN "compressed" ELSE "tree"
          ELSE stage' = "rejected" /\ UNCHANGED frontier
    /\ UNCHANGED <<proof, deferred, batchSize, deviations>>

\* shrink and wrap_bn254: a root program runs on the one proof there is.
RootStep(from, to, digest) ==
    /\ stage = from
    /\ IF RootAccepts(frontier[1])
       THEN /\ frontier' = << Made(CompressOutput(frontier, TRUE), digest) >>
            /\ stage' = to
       ELSE stage' = "rejected" /\ UNCHANGED frontier
    /\ UNCHANGED <<proof, deferred, batchSize, deviations>>

Shrink == RootStep("compressed", "shrunk", "reduce")
Wrap == RootStep("shrunk", "wrapped", "root")

Next ==
    \/ ProveShard \/ DeviatingShard
    \/ RunFirstLayer
    \/ \E i \in DOMAIN frontier : Compress(i)
    \/ Shrink \/ Wrap

Spec == Init /\ [][Next]_vars

-----------------------------------------------------------------------------
(* Properties. *)

\* The verifier that belongs to the stage accepts the one proof.
Verified ==
    \/ stage = "compressed" /\ VerifyCompressed(frontier[1], VkDigest)
    \/ stage = "shrunk" /\ VerifyShrink(frontier[1], VkDigest)
    \/ stage = "wrapped" /\ VerifyWrap(frontier[1], VkDigest)

\* The deferred proofs are acceptable, and the program has committed to them.
DeferredMatches ==
    /\ DeferredAccepts(deferred)
    /\ Last(proof).pv.deferred_proofs_digest = HashDeferredProofs(0, deferred)

\* A compressed, shrunk or wrapped proof that its verifier accepts stands for a
\* core proof that obeys every rule of verify, the shards' sums and the deferred
\* proofs included, whatever the shape of the tree.  The rule on digests is
\* left out: the programs assert it between the shards of a batch, but a proof in
\* the tree keeps only the digests of its last shard.
VerifiedObeysCoreRules ==
    Verified =>
        /\ NotEmpty(proof) /\ FirstHasCpu(proof) /\ CpuDegreesFit(proof)
        /\ ShardsCountUp(proof) /\ ExecutionShardsCountUp(proof)
        /\ ProgramCounterChain(proof) /\ ExitCodesZero(proof)
        /\ MemoryAddressChain(proof) /\ NotTooManyShards(proof)
        /\ \A i \in DOMAIN proof : proof[i].valid
        /\ InitialSum + SumOf([i \in DOMAIN proof |-> proof[i].sum]) = 0
        /\ DeferredMatches

\* The prover has failed: a program has refused its input, or the root is not one
\* that verify_compressed accepts.
Refused == stage = "rejected" \/ (stage = "compressed" /\ ~Verified)

\* A core proof that verify accepts, with the deferred proofs its program has
\* verified, gets through every program, in whatever order the tree is built,
\* provided that its shard numbers are below 2^MAX_LOG_NUMBER_OF_SHARDS and that
\* a first layer of one input is a single shard (batch_size is 1 in compress).
AcceptedIsNeverRefused ==
    /\ Refused
    /\ Len(proof) < MaxShards
    /\ Len(proof) > batchSize \/ Len(proof) = 1 \/ deferred # <<>>
    => ~(VerifyCore(proof) /\ DeferredMatches)

\* The values of a proof in the tree are those the core program would commit to
\* for all its shards at once: compressing neither loses nor adds anything.
ShardsOnly(p) == p.pv.next_shard > p.pv.start_shard
                    /\ p.pv.end_reconstruct_deferred_digest = 0

AggregateIsBatch ==
    stage \in {"tree", "compressed"} /\ VerifyCore(proof) =>
        \A i \in DOMAIN frontier :
            LET v == frontier[i].pv
            IN ShardsOnly(frontier[i]) =>
                v = CoreOutput(SubSeq(proof, v.start_shard, v.next_shard - 1),
                               v.start_shard = 1, v.is_complete)

\* Two proofs that are not neighbours, in their order, are never compressed to
\* one, whatever comes first out of the workers: the compress program refuses.
OnlyNeighboursCompress ==
    stage = "tree" /\ VerifyCore(proof) /\ DeferredMatches =>
        \A i, j \in DOMAIN frontier :
            j # i + 1 => ~CompressAccepts(<<frontier[i], frontier[j]>>, FALSE)
=============================================================================
