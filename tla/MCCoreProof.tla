---------------------------- MODULE MCCoreProof ----------------------------
(***************************************************************************)
(* Small executions for CoreProof: addresses of three bits, precompile and *)
(* memory shards of two events.                                            *)
(***************************************************************************)
EXTENDS CoreProof

CONSTANTS w1, w2, w3

MCThreshold == [c \in Codes |-> 2]

Cpu(shard, start, next, digest, pre) ==
    [NewRecord EXCEPT
        !.cpu = TRUE,
        !.pv.execution_shard = shard, !.pv.start_pc = start, !.pv.next_pc = next,
        !.pv.committed_value_digest = digest,
        !.precompile = [c \in Codes |-> IF c \in DOMAIN pre THEN pre[c] ELSE <<>>]]

WithGlobalMemory(r, inits, finalizes) ==
    [r EXCEPT !.init = inits, !.finalize = finalizes]

Call(id, blocks) == [id |-> id, blocks |-> blocks]

\* Four batches. Their precompile calls are of two kinds, fill shards across
\* batch boundaries and leave none for the end; the memory is small enough to be
\* packed into the last record.
CrossingBatches ==
    << << Cpu(1, 4, 8, 0, [sha |-> <<Call(1, 1)>>]) >>,
       << Cpu(2, 8, 12, 0, [sha |-> <<Call(2, 1)>>, ed |-> <<Call(3, 1)>>]),
          Cpu(3, 12, 16, 0, [sha |-> <<Call(4, 1)>>]) >>,
       << Cpu(4, 16, 20, 0, [sha |-> <<Call(5, 1)>>, ed |-> <<Call(6, 1)>>]) >>,
       << Cpu(5, 20, 24, 1, <<>>),
          WithGlobalMemory(Cpu(6, 24, 0, 1, <<>>), <<3>>, <<3>>) >> >>

\* Two batches, the second with a precompile call and memory events that are
\* few enough for the combined attempt.
CombinedBatches ==
    << << Cpu(1, 4, 8, 0, <<>>) >>,
       << WithGlobalMemory(Cpu(2, 8, 0, 1, [sha |-> <<Call(1, 1)>>]), <<3>>, <<3>>) >> >>

\* What CoreProofAccepts.tla assumes of an execution and of the constants is true of these.
ASSUME ExecutionAssumption == WellExecuted /\ FewShards /\ CpuLogDegree <= MaxCpuLogDegree

PrecompileDoesNotFit == {{"precompile"}}
AnyMayNotFit == {{}, {"packed"}, {"cpu"}, {"memory"}}
NoFaults == {}
AllFaults == FaultKinds
=============================================================================
