------------------------- MODULE RecursionCircuits -------------------------
(***************************************************************************)
(* What the recursion programs of recursion/circuit/src/machine assert of  *)
(* the public values of the proofs they verify, and the public values they *)
(* commit to: the core program (core.rs) on a batch of shard proofs, the   *)
(* deferred program (deferred.rs) on a batch of complete proofs, and the   *)
(* compress program (compress.rs, vkey_proof.rs), which is the shrink and  *)
(* the wrap program too (root.rs).                                         *)
(*                                                                         *)
(* For each program there is an operator that is TRUE when the program     *)
(* runs to its end on an input, and one for the values it then commits to. *)
(* A shard proof is the record of ShardVerifier with two more fields:      *)
(* valid says that its STARK verifies, and sum is its global cumulative    *)
(* sum.  The proof of a recursion program is its public values with the    *)
(* digest they are committed under: "reduce" or "root" for the one the     *)
(* program computed, anything else for a digest that does not match.       *)
(* The deferred digest is a hash chain; Hash keeps the chain in the digits *)
(* of a number, so that different chains have different digests.           *)
(***************************************************************************)
EXTENDS ShardVerifier, Integers, SequencesExt, FiniteSetsExt

CONSTANTS
    InitialSum,            \* vk.initial_global_cumulative_sum
    VkDigest,              \* vk.hash_koalabear(), of the program that is proved
    VkRoot,                \* recursion_vk_root
    AllowedVks,            \* the keys of recursion_vk_map
    VkVerification,        \* vk_verification, the value_assertions of the programs
    MaxLogNumberOfShards   \* MAX_LOG_NUMBER_OF_SHARDS

ASSUME RecursionAssumption ==
    /\ MaxLogNumberOfShards \in Nat /\ MaxShards \in Nat
    /\ MaxShards = 2 ^ MaxLogNumberOfShards
    /\ VkVerification \in BOOLEAN
    /\ InitialSum \in Int

SumOf(s) ==
    LET sum[i \in 0 .. Len(s)] == IF i = 0 THEN 0 ELSE sum[i - 1] + s[i]
    IN sum[Len(s)]

\* hash_deferred_proof: vk digests and committed digests are digits.
Hash(digest, zkm_vk_digest, committed) == 100 * digest + 10 * zkm_vk_digest + committed

HashDeferredProofs(digest, proofs) ==
    LET reconstruct[i \in 0 .. Len(proofs)] ==
            IF i = 0 THEN digest
            ELSE Hash(reconstruct[i - 1], proofs[i].pv.zkm_vk_digest,
                      proofs[i].pv.committed_value_digest)
    IN reconstruct[Len(proofs)]

\* Mutant of AssertComplete: the cumulative sum is not looked at.
BugAssertComplete(v) ==
    v.is_complete =>
        /\ v.next_pc = 0
        /\ v.start_shard = 1
        /\ v.next_shard # 1
        /\ v.contains_execution_shard
        /\ v.start_execution_shard = 1
        /\ v.start_reconstruct_deferred_digest = 0
        /\ v.end_reconstruct_deferred_digest = v.deferred_proofs_digest

\* assert_complete, for the flag is_complete.
AssertComplete(v) ==
    v.is_complete =>
        /\ v.next_pc = 0
        /\ v.start_shard = 1
        /\ v.next_shard # 1
        /\ v.contains_execution_shard
        /\ v.start_execution_shard = 1
        /\ v.start_reconstruct_deferred_digest = 0
        /\ v.end_reconstruct_deferred_digest = v.deferred_proofs_digest
        /\ v.global_cumulative_sum = 0

-----------------------------------------------------------------------------
(* The core program: ZKMRecursiveVerifier::verify. *)

\* The first proof of a batch, by the witnessed flag is_first_shard.
FirstShardRules(pv, is_first_shard) ==
    /\ is_first_shard <=> pv.shard = 1
    /\ is_first_shard =>
        /\ pv.start_pc = PcStart
        /\ pv.previous_init_addr_bits = ZeroAddrBits
        /\ pv.previous_finalize_addr_bits = ZeroAddrBits

\* The rules on a shard proof by itself.
ShardRules(p) ==
    /\ p.valid
    /\ p.cpu \/ p.pv.shard # 1
    /\ p.cpu => p.log_degree_cpu <= MaxCpuLogDegree
    /\ IF p.cpu THEN p.pv.start_pc # 0 ELSE p.pv.start_pc = p.pv.next_pc
    /\ p.pv.exit_code = 0
    /\ p.memInit \/ p.pv.previous_init_addr_bits = p.pv.last_init_addr_bits
    /\ p.memFinalize \/ p.pv.previous_finalize_addr_bits = p.pv.last_finalize_addr_bits
    /\ p.pv.shard < 2 ^ MaxLogNumberOfShards

\* The rules on a shard proof b and the one before it in the same batch.
ShardLinkRules(a, b) ==
    /\ b.pv.shard = a.pv.shard + 1
    /\ b.pv.start_pc = a.pv.next_pc
    /\ b.pv.previous_init_addr_bits = a.pv.last_init_addr_bits
    /\ b.pv.previous_finalize_addr_bits = a.pv.last_finalize_addr_bits
    /\ a.pv.committed_value_digest # 0 \/ ~b.cpu =>
        b.pv.committed_value_digest = a.pv.committed_value_digest
    /\ a.pv.deferred_proofs_digest # 0 \/ ~b.cpu =>
        b.pv.deferred_proofs_digest = a.pv.deferred_proofs_digest

\* The indices of the shards with a CPU.
CpuShards(batch) == {i \in DOMAIN batch : batch[i].cpu}

\* A CPU shard and the last one before it.
ExecutionShardRules(batch) ==
    \A i \in CpuShards(batch) :
        LET before == {j \in CpuShards(batch) : j < i}
        IN before # {} =>
            batch[i].pv.execution_shard = batch[Max(before)].pv.execution_shard + 1

\* The execution shard does not matter while no CPU shard has been seen.
CoreOutput(batch, is_first_shard, is_complete) ==
    LET first == Head(batch).pv
        last == Last(batch).pv
        c == CpuShards(batch)
    IN [committed_value_digest |-> last.committed_value_digest,
        deferred_proofs_digest |-> last.deferred_proofs_digest,
        start_pc |-> first.start_pc,
        next_pc |-> last.next_pc,
        start_shard |-> first.shard,
        next_shard |-> last.shard + 1,
        start_execution_shard |->
            IF c = {} THEN first.execution_shard ELSE batch[Min(c)].pv.execution_shard,
        next_execution_shard |->
            IF c = {} THEN first.execution_shard ELSE batch[Max(c)].pv.execution_shard + 1,
        previous_init_addr_bits |-> first.previous_init_addr_bits,
        last_init_addr_bits |-> last.last_init_addr_bits,
        previous_finalize_addr_bits |-> first.previous_finalize_addr_bits,
        last_finalize_addr_bits |-> last.last_finalize_addr_bits,
        zkm_vk_digest |-> VkDigest,
        global_cumulative_sum |->
            (IF is_first_shard THEN InitialSum ELSE 0)
                + SumOf([i \in DOMAIN batch |-> batch[i].sum]),
        start_reconstruct_deferred_digest |-> 0,
        end_reconstruct_deferred_digest |-> 0,
        exit_code |-> last.exit_code,
        is_complete |-> is_complete,
        contains_execution_shard |-> c # {},
        vk_root |-> VkRoot]

CoreAccepts(batch, is_first_shard, is_complete) ==
    /\ batch # <<>>
    /\ FirstShardRules(Head(batch).pv, is_first_shard)
    /\ \A i \in DOMAIN batch : ShardRules(batch[i])
    /\ \A i \in 2 .. Len(batch) : ShardLinkRules(batch[i - 1], batch[i])
    /\ ExecutionShardRules(batch)
    /\ AssertComplete(CoreOutput(batch, is_first_shard, is_complete))

-----------------------------------------------------------------------------
(* The deferred program: ZKMDeferredVerifier::verify. *)

\* make_merkle_proofs panics on a vk that is not in the map, and the Merkle proof
\* the program verifies is the one of the vk's own digest.  Without
\* vk_verification neither looks at the vk.
MerkleAccepts(p) == VkVerification => p.vk \in AllowedVks

DeferredAccepts(proofs) ==
    \A i \in DOMAIN proofs :
        /\ MerkleAccepts(proofs[i])
        /\ proofs[i].pv.vk_root = VkRoot
        /\ proofs[i].digest = "reduce"
        /\ proofs[i].pv.is_complete

\* pv: the public values of the last shard, which the prover hints.
DeferredOutput(proofs, start, pv) ==
    [committed_value_digest |-> pv.committed_value_digest,
     deferred_proofs_digest |-> pv.deferred_proofs_digest,
     start_pc |-> 0,
     next_pc |-> 0,
     start_shard |-> pv.shard + 1,
     next_shard |-> pv.shard + 1,
     start_execution_shard |-> pv.execution_shard,
     next_execution_shard |-> pv.execution_shard,
     previous_init_addr_bits |-> pv.last_init_addr_bits,
     last_init_addr_bits |-> pv.last_init_addr_bits,
     previous_finalize_addr_bits |-> pv.last_finalize_addr_bits,
     last_finalize_addr_bits |-> pv.last_finalize_addr_bits,
     zkm_vk_digest |-> VkDigest,
     global_cumulative_sum |-> 0,
     start_reconstruct_deferred_digest |-> start,
     end_reconstruct_deferred_digest |-> HashDeferredProofs(start, proofs),
     exit_code |-> 0,
     is_complete |-> FALSE,
     contains_execution_shard |-> FALSE,
     vk_root |-> VkRoot]
-----------------------------------------------------------------------------
(* The compress program: ZKMCompressWithVKeyVerifier::verify. *)

ProofRules(p) ==
    /\ MerkleAccepts(p)
    /\ p.digest = "reduce"
    /\ p.pv.vk_root = VkRoot

\* Mutant of LinkRules: the deferred proofs' digests need not follow each other.
BugLinkRules(a, b) ==
    /\ b.zkm_vk_digest = a.zkm_vk_digest
    /\ b.start_pc = a.next_pc
    /\ b.start_shard = a.next_shard
    /\ b.previous_init_addr_bits = a.last_init_addr_bits
    /\ b.previous_finalize_addr_bits = a.last_finalize_addr_bits
    /\ a.committed_value_digest # 0 => b.committed_value_digest = a.committed_value_digest
    /\ a.deferred_proofs_digest # 0 => b.deferred_proofs_digest = a.deferred_proofs_digest

\* The rules on the public values b of a proof and those of the proof before it.
LinkRules(a, b) ==
    /\ b.start_reconstruct_deferred_digest = a.end_reconstruct_deferred_digest
    /\ b.zkm_vk_digest = a.zkm_vk_digest
    /\ b.start_pc = a.next_pc
    /\ b.start_shard = a.next_shard
    /\ b.previous_init_addr_bits = a.last_init_addr_bits
    /\ b.previous_finalize_addr_bits = a.last_finalize_addr_bits
    /\ a.committed_value_digest # 0 => b.committed_value_digest = a.committed_value_digest
    /\ a.deferred_proofs_digest # 0 => b.deferred_proofs_digest = a.deferred_proofs_digest

\* The indices of the proofs that have a CPU shard.
Executing(proofs) == {i \in DOMAIN proofs : proofs[i].pv.contains_execution_shard}

ExecutionLinkRules(proofs) ==
    \A i \in Executing(proofs) :
        LET before == {j \in Executing(proofs) : j < i}
        IN before # {} =>
            proofs[i].pv.start_execution_shard = proofs[Max(before)].pv.next_execution_shard

\* Mutant of CompressOutput: the first proof's execution shard is kept even when
\* that proof has no CPU shard.
BugCompressOutput(proofs, is_complete) ==
    [Head(proofs).pv EXCEPT
        !.committed_value_digest = Last(proofs).pv.committed_value_digest,
        !.deferred_proofs_digest = Last(proofs).pv.deferred_proofs_digest,
        !.next_pc = Last(proofs).pv.next_pc,
        !.next_shard = Last(proofs).pv.next_shard,
        !.next_execution_shard = Last(proofs).pv.next_execution_shard,
        !.last_init_addr_bits = Last(proofs).pv.last_init_addr_bits,
        !.last_finalize_addr_bits = Last(proofs).pv.last_finalize_addr_bits,
        !.global_cumulative_sum =
            SumOf([i \in DOMAIN proofs |-> proofs[i].pv.global_cumulative_sum]),
        !.end_reconstruct_deferred_digest = Last(proofs).pv.end_reconstruct_deferred_digest,
        !.exit_code = Last(proofs).pv.exit_code,
        !.is_complete = is_complete,
        !.contains_execution_shard = Executing(proofs) # {}]

CompressOutput(proofs, is_complete) ==
    LET first == Head(proofs).pv
        last == Last(proofs).pv
        e == Executing(proofs)
    IN [committed_value_digest |-> last.committed_value_digest,
        deferred_proofs_digest |-> last.deferred_proofs_digest,
        start_pc |-> first.start_pc,
        next_pc |-> last.next_pc,
        start_shard |-> first.start_shard,
        next_shard |-> last.next_shard,
        start_execution_shard |->
            IF e = {} THEN first.start_execution_shard
                      ELSE proofs[Min(e)].pv.start_execution_shard,
        next_execution_shard |->
            IF e = {} THEN first.start_execution_shard
                      ELSE proofs[Max(e)].pv.next_execution_shard,
        previous_init_addr_bits |-> first.previous_init_addr_bits,
        last_init_addr_bits |-> last.last_init_addr_bits,
        previous_finalize_addr_bits |-> first.previous_finalize_addr_bits,
        last_finalize_addr_bits |-> last.last_finalize_addr_bits,
        zkm_vk_digest |-> first.zkm_vk_digest,
        global_cumulative_sum |->
            SumOf([i \in DOMAIN proofs |-> proofs[i].pv.global_cumulative_sum]),
        start_reconstruct_deferred_digest |-> first.start_reconstruct_deferred_digest,
        end_reconstruct_deferred_digest |-> last.end_reconstruct_deferred_digest,
        exit_code |-> last.exit_code,
        is_complete |-> is_complete,
        contains_execution_shard |-> e # {},
        vk_root |-> VkRoot]

CompressAccepts(proofs, is_complete) ==
    /\ proofs # <<>>
    /\ \A i \in DOMAIN proofs : ProofRules(proofs[i])
    /\ \A i \in 2 .. Len(proofs) : LinkRules(proofs[i - 1].pv, proofs[i].pv)
    /\ ExecutionLinkRules(proofs)
    /\ AssertComplete(CompressOutput(proofs, is_complete))

\* ZKMCompressRootVerifierWithVKey::verify, of the shrink and the wrap program.
RootAccepts(p) == CompressAccepts(<<p>>, TRUE)

-----------------------------------------------------------------------------
(* The verifiers of prover/src/verify.rs, of a proof made by the programs. *)

VerifyCompressed(p, vk) ==
    /\ p.digest = "reduce"
    /\ p.pv.vk_root = VkRoot
    /\ MerkleAccepts(p)
    /\ p.pv.is_complete
    /\ p.pv.zkm_vk_digest = vk

VerifyShrink(p, vk) ==
    /\ p.digest = "reduce"
    /\ p.pv.vk_root = VkRoot
    /\ MerkleAccepts(p)
    /\ p.pv.zkm_vk_digest = vk

VerifyWrap(p, vk) == p.digest = "root" /\ p.pv.zkm_vk_digest = vk

\* verify of a core proof: the rules on the public values, then machine().verify.
VerifyCore(proof) ==
    /\ Accepts(proof)
    /\ \A i \in DOMAIN proof : proof[i].valid
    /\ InitialSum + SumOf([i \in DOMAIN proof |-> proof[i].sum]) = 0
=============================================================================
