--------------------------- MODULE ShardVerifier ---------------------------
(***************************************************************************)
(* The checks ZKMProver::verify (prover/src/verify.rs) makes on the public *)
(* values of the shard proofs of a core proof, before the STARK proofs     *)
(* themselves are verified.  A shard proof is seen as the public values of *)
(* its shard and the chips it contains: cpu, memInit and memFinalize say   *)
(* whether the Cpu, MemoryGlobalInit and MemoryGlobalFinalize chips are in *)
(* it, log_degree_cpu is the height of the first.                          *)
(*                                                                         *)
(* One operator per rule; each is TRUE when verify does not return an      *)
(* error at that rule.                                                     *)
(***************************************************************************)
EXTENDS Naturals, Sequences, FiniteSets

CONSTANTS
    PcStart,          \* vk.pc_start
    ZeroAddrBits,     \* [0; 32]
    MaxCpuLogDegree,  \* MAX_CPU_LOG_DEGREE
    MaxShards         \* 1 << 16

NotEmpty(proof) == proof # <<>>

FirstHasCpu(proof) == proof[1].cpu

CpuDegreesFit(proof) ==
    \A i \in DOMAIN proof : proof[i].cpu => proof[i].log_degree_cpu <= MaxCpuLogDegree

ShardsCountUp(proof) == \A i \in DOMAIN proof : proof[i].pv.shard = i

\* The CPU shards among the first i.
CpuUpTo(proof, i) == Cardinality({j \in 1 .. i : proof[j].cpu})

ExecutionShardsCountUp(proof) ==
    \A i \in DOMAIN proof :
        proof[i].cpu => proof[i].pv.execution_shard = CpuUpTo(proof, i)

ProgramCounterChain(proof) ==
    \A i \in DOMAIN proof :
        LET pv == proof[i].pv
        IN /\ pv.start_pc = IF i = 1 THEN PcStart ELSE proof[i - 1].pv.next_pc
           /\ ~proof[i].cpu => pv.start_pc = pv.next_pc
           /\ proof[i].cpu => pv.start_pc # 0
           /\ i = Len(proof) => pv.next_pc = 0

ExitCodesZero(proof) == \A i \in DOMAIN proof : proof[i].pv.exit_code = 0

MemoryAddressChain(proof) ==
    \A i \in DOMAIN proof :
        LET pv == proof[i].pv
        IN /\ pv.previous_init_addr_bits =
                IF i = 1 THEN ZeroAddrBits ELSE proof[i - 1].pv.last_init_addr_bits
           /\ pv.previous_finalize_addr_bits =
                IF i = 1 THEN ZeroAddrBits ELSE proof[i - 1].pv.last_finalize_addr_bits
           /\ ~proof[i].memInit =>
                pv.previous_init_addr_bits = pv.last_init_addr_bits
           /\ ~proof[i].memFinalize =>
                pv.previous_finalize_addr_bits = pv.last_finalize_addr_bits

\* A digest that is not zero stays; only a CPU shard may change a zero one.
DigestChain(proof) ==
    \A i \in DOMAIN proof :
        LET committed(j) == IF j = 0 THEN 0 ELSE proof[j].pv.committed_value_digest
            deferred(j) == IF j = 0 THEN 0 ELSE proof[j].pv.deferred_proofs_digest
        IN /\ committed(i - 1) # 0 \/ ~proof[i].cpu => committed(i) = committed(i - 1)
           /\ deferred(i - 1) # 0 \/ ~proof[i].cpu => deferred(i) = deferred(i - 1)

NotTooManyShards(proof) == Len(proof) <= MaxShards

\* verify, up to the call of machine().verify.
Accepts(proof) ==
    /\ NotEmpty(proof)
    /\ FirstHasCpu(proof)
    /\ CpuDegreesFit(proof)
    /\ ShardsCountUp(proof)
    /\ ExecutionShardsCountUp(proof)
    /\ ProgramCounterChain(proof)
    /\ ExitCodesZero(proof)
    /\ MemoryAddressChain(proof)
    /\ DigestChain(proof)
    /\ NotTooManyShards(proof)
=============================================================================
