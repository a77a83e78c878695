----------------------------- MODULE CoreProof -----------------------------
(***************************************************************************)
(* A core proof from end to end: the pipeline of ProvePipeline.tla makes   *)
(* the shard proofs, the rules of ShardVerifier.tla judge them, and        *)
(* SequentialProve.tla says what they should have been.                    *)
(***************************************************************************)
EXTENDS ProvePipeline

CONSTANTS
    PcStart,           \* the program's entry point, vk.pc_start
    CpuLogDegree,      \* log2 of the height of the CPU chip of a full shard
    MaxCpuLogDegree    \* MAX_CPU_LOG_DEGREE

Verifier == INSTANCE ShardVerifier WITH ZeroAddrBits <- ZeroBits, MaxShards <- 2^16

RecordsOf(sent) == FlattenSeq([i \in DOMAIN sent |-> sent[i].records])

\* The record of a shard proof: the chips that are included are those with
\* events, or those of the shape fix_shape chose for these events.
ToShardProof(r) ==
    [cpu |-> r.cpu, memInit |-> r.init # <<>>, memFinalize |-> r.finalize # <<>>,
     log_degree_cpu |-> CpuLogDegree, pv |-> r.pv]

\* The shard_proofs the prover thread returns.
Proof == LET recs == RecordsOf(proved) IN [i \in DOMAIN recs |-> ToShardProof(recs[i])]

-----------------------------------------------------------------------------

\* A call that succeeds returns a proof that passes every check verify makes on
\* public values: shards, execution shards, program counters, address bits and
\* digests chain across batches and across the split-off shards.
OkProofIsAccepted == result = "ok" => Verifier!Accepts(Proof)

\* A call that succeeds has proved every deferred event of the execution exactly
\* once: precompile events in program order, memory events sorted by address.
NoEventIsLost ==
    result = "ok" =>
        LET executed == FlattenSeq(Batches)
            recs == RecordsOf(proved)
        IN /\ \A c \in Codes : PrecompileEvents(recs, c) = PrecompileEvents(executed, c)
           /\ InitEvents(recs) = SortByAddr(InitEvents(executed))
           /\ FinalizeEvents(recs) = SortByAddr(FinalizeEvents(executed))

\* The last_*_addr_bits of a shard are those of its last memory event, which the global
\* memory chips constrain; verify only compares shards.
AddressBitsMatchEvents(r) ==
    /\ r.init # <<>> => r.pv.last_init_addr_bits = AddrBits(Last(r.init))
    /\ r.finalize # <<>> => r.pv.last_finalize_addr_bits = AddrBits(Last(r.finalize))

\* What the threshold of a code limits: the blocks of keccak calls, or the calls.
Blocks(events) ==
    LET sum[i \in 0 .. Len(events)] ==
            IF i = 0 THEN 0 ELSE sum[i - 1] + events[i].blocks
    IN sum[Len(events)]
Weight(c, events) == IF c = KECCAK_SPONGE THEN Blocks(events) ELSE Len(events)

\* A shard has events of one kind only and no more of them than the split options
\* allow, except a single keccak call that is larger on its own.
RespectsLimits(r) ==
    LET codes == {c \in Codes : r.precompile[c] # <<>>}
        memory == r.init # <<>> \/ r.finalize # <<>>
    IN /\ Cardinality(codes) <= 1
       /\ codes # {} => ~r.cpu /\ ~memory
       /\ \A c \in codes : \/ Weight(c, r.precompile[c]) <= Threshold[c]
                           \/ Len(r.precompile[c]) = 1
       /\ Len(r.init) <= MemoryChunk /\ Len(r.finalize) <= MemoryChunk

\* Whatever is sent to the prover, also of a call that fails later, is what its chips
\* expect of it: its address bits match its events, and it respects the limits.
ShardsAreWellFormed ==
    LET recs == RecordsOf(output)
    IN \A i \in DOMAIN recs : AddressBitsMatchEvents(recs[i]) /\ RespectsLimits(recs[i])

-----------------------------------------------------------------------------
(* One loop over the batches, with no threads.  It numbers the records of a  *)
(* batch, defers their events and appends the shards split makes of the      *)
(* deferred events; the memory events of the last batch may be packed into   *)
(* its last record instead.  o is what it has made of the batches before.    *)

\* The records of batch n with their public values ...
Numbered(o, n) == NumberCpuRecords(o.state, Batches[n + 1])

\* ... without the events that are deferred, and those events with the others.
CpuShards(o, n) ==
    LET recs == Numbered(o, n).records IN [i \in DOMAIN recs |-> AfterDefer(recs[i])]
AllDeferred(o, n) == DeferAll(o.deferred, Numbered(o, n).records)

\* The end of batch n: the CPU shards, a last record that may take the memory
\* events, and the shards of the deferred events.
WithSplit(o, n, cpu, lastRecord, order) ==
    LET sp == Split(AllDeferred(o, n), Done(n), lastRecord, order)
        numbered == NumberDeferredRecords(Numbered(o, n).state, Done(n), sp.shards)
    IN [state |-> numbered.state, deferred |-> sp.deferred,
        shards |-> o.shards \o (cpu \o sp.lastRecord \o numbered.records)]

\* At the end, the memory events of a small program that has few of them may be
\* packed.
MayPack(o, n) ==
    /\ Done(n) /\ SmallProgram
    /\ Len(AllDeferred(o, n).init) < CombineThreshold
    /\ Len(AllDeferred(o, n).finalize) < CombineThreshold

\* Everything one iteration of the loop can make of o and batch n.
BatchOutcomes(o, n) ==
    LET cpu == CpuShards(o, n)
    IN {WithSplit(o, n, cpu, <<>>, order) : order \in IterationOrders}
       \cup
       {WithSplit(o, n, Front(cpu), <<Last(cpu)>>, order) :
            order \in {o2 \in IterationOrders : MayPack(o, n)}}

Outcomes[n \in 0 .. NumBatches] ==
    IF n = 0
    THEN {[state |-> PublicValuesDefault, deferred |-> NewRecord, shards |-> <<>>]}
    ELSE UNION {BatchOutcomes(o, n - 1) : o \in Outcomes[n - 1]}

-----------------------------------------------------------------------------
(* What the executor is to give: one record per CPU shard, numbered from 1,  *)
(* each continuing where the one before stopped, with digests that stay once *)
(* they are not zero; see ShardsChain and DigestsChain of CheckpointReplay.  *)

WellExecuted ==
    LET run == FlattenSeq(Batches)
        Stays(before, after) == before # 0 => after = before
    IN /\ \A n \in DOMAIN Batches : Batches[n] # <<>>
       /\ \A i \in DOMAIN run :
             /\ run[i].cpu
             /\ run[i].pv.execution_shard = i
             /\ run[i].pv.start_pc # 0
             /\ run[i].pv.start_pc = IF i = 1 THEN PcStart ELSE run[i - 1].pv.next_pc
             /\ i = Len(run) => run[i].pv.next_pc = 0
             /\ i # 1 => /\ Stays(run[i - 1].pv.committed_value_digest,
                                  run[i].pv.committed_value_digest)
                         /\ Stays(run[i - 1].pv.deferred_proofs_digest,
                                  run[i].pv.deferred_proofs_digest)

\* The program is not too long for the verifier.
FewShards == \A o \in Outcomes[NumBatches] : Len(o.shards) <= 2^16

-----------------------------------------------------------------------------
(* Refinement: a batch counts as delivered when its records are cut into     *)
(* chunks, in its trace turn.                                                *)

Sending(w) == pc[w] = "send" \/ (pc[w] = "panic" /\ chunks[w] # <<>>)

Delivered == traceTurn + Cardinality({w \in Workers : Sending(w)})

\* What has been proved or sent, and what the sender still has.
Shards ==
    LET unsent == {w \in Workers : chunks[w] # <<>>}
    IN RecordsOf(proved \o output)
       \o (IF unsent = {} THEN <<>> ELSE FlattenSeq(chunks[CHOOSE w \in unsent : TRUE]))

Sequential == INSTANCE SequentialProve WITH delivered <- Delivered, shards <- Shards

\* The threads together do what one loop over the batches does.
ImplementsSequential == Sequential!SSpec
=============================================================================
