--------------------------- MODULE ProvePipeline ---------------------------
(***************************************************************************)
(* prove_with_context of core/machine/src/utils/prove.rs: the threads that *)
(* turn the execution of a program into the shard proofs of a core proof.  *)
(*                                                                         *)
(*   checkpoint generator --checkpoints--> workers --records--> prover     *)
(*                                                                         *)
(* The generator executes the program batch by batch and sends checkpoint  *)
(* n of batch n into a bounded channel.  A worker receives a checkpoint,   *)
(* replays it into execution records (Batches[n+1], see Executor.tla for   *)
(* the replay), and, when record_gen_sync says it is batch n's turn, locks *)
(* the shared public values and the shared deferred events, numbers the    *)
(* records, moves the deferred events out of them and splits off the       *)
(* shards that are ready.  It passes the record turn on, fixes the shapes, *)
(* generates traces, waits for the trace turn and sends the records in     *)
(* chunks to the prover.  Both mutex guards live until the end of that     *)
(* loop iteration.                                                         *)
(*                                                                         *)
(* A step is what a thread does between two points where others can see    *)
(* it.  wait_for_turn and advance_turn are single steps here, which        *)
(* TurnBasedSync.tla justifies.  Failures are those the code handles: the  *)
(* generator's execution or I/O error, a dependency or trace generation    *)
(* error of a worker (it returns Err), a shape that does not fit (the      *)
(* combined attempt falls back, the plain one panics), a panic of the      *)
(* prover.  A panic while the guards are held poisons both mutexes.        *)
(***************************************************************************)
EXTENDS RecordSplit

CONSTANTS
    Workers,              \* opts.trace_gen_workers threads
    NoWorker,             \* a mutex is free
    Batches,              \* Batches[n+1]: the records trace_checkpoint gives for batch n
    SmallProgram,         \* num_cycles < 1 << 21
    CombineThreshold,     \* opts.split_opts.combine_memory_threshold
    CheckpointCapacity,   \* opts.checkpoints_channel_capacity
    OutputCapacity,       \* opts.records_and_traces_channel_capacity
    ShardBatchSize,       \* opts.shard_batch_size
    Faults,               \* failures that may happen: see FaultKinds
    UnfitChoices          \* the sets of record kinds for which fix_shape may fail

FaultKinds == {"execution", "dependencies", "traces", "open"}
Kinds == {"packed", "cpu", "memory", "precompile"}

NumBatches == Len(Batches)

\* The default thresholds are 2^17 and at least 2^18: memory events that are
\* packed into the last record are a single chunk.  A channel of capacity 0,
\* which would be a rendez-vous, is never configured, and neither is a pool of no
\* workers (the default is 1), with which the prover thread would end at once.
\* The executor pushes a last record when the program ends.
ASSUME PipelineAssumption ==
    /\ NoWorker \notin Workers /\ Workers # {}
    /\ Batches \in Seq(Seq(Record)) /\ Len(Batches) \in Nat \ {0}
    /\ Last(Batches) # <<>>
    /\ SmallProgram \in BOOLEAN
    /\ CombineThreshold \in Nat /\ CombineThreshold <= MemoryChunk
    /\ CheckpointCapacity \in Nat \ {0}
    /\ OutputCapacity \in Nat \ {0}
    /\ ShardBatchSize \in Nat \ {0}
    /\ Faults \subseteq FaultKinds
    /\ \A u \in UnfitChoices : u \subseteq Kinds

-----------------------------------------------------------------------------
(* How public values are given to the records of a batch.  s is the running *)
(* public values all batches share; a loop over the records returns the new *)
(* s and the records, each with the s of its iteration.                     *)

\* One record with CPU events.
NumberCpuRecord(s, r) ==
    [s EXCEPT !.shard = @ + 1,
              !.execution_shard = r.pv.execution_shard,
              !.start_pc = r.pv.start_pc,
              !.next_pc = r.pv.next_pc,
              !.committed_value_digest = r.pv.committed_value_digest,
              !.deferred_proofs_digest = r.pv.deferred_proofs_digest]

NumberCpuRecords(s, recs) ==
    LET after[i \in 0 .. Len(recs)] ==
            IF i = 0 THEN s ELSE NumberCpuRecord(after[i - 1], recs[i])
    IN [state |-> after[Len(recs)],
        records |-> [i \in DOMAIN recs |-> [recs[i] EXCEPT !.pv = after[i]]]]

\* Mutant of NumberDeferredRecord: the address bits are not taken over.
BugForgetAddrBits(s, r) == [s EXCEPT !.shard = @ + 1, !.start_pc = s.next_pc]

\* Mutant of NumberDeferredRecord: the shard starts where the CPU shard started.
BugKeepStartPc(s, r) ==
    [s EXCEPT !.shard = @ + 1,
              !.previous_init_addr_bits = r.pv.previous_init_addr_bits,
              !.last_init_addr_bits = r.pv.last_init_addr_bits,
              !.previous_finalize_addr_bits = r.pv.previous_finalize_addr_bits,
              !.last_finalize_addr_bits = r.pv.last_finalize_addr_bits]

\* One record without CPU events, made by split.
NumberDeferredRecord(s, r) ==
    [s EXCEPT !.shard = @ + 1,
              !.previous_init_addr_bits = r.pv.previous_init_addr_bits,
              !.last_init_addr_bits = r.pv.last_init_addr_bits,
              !.previous_finalize_addr_bits = r.pv.previous_finalize_addr_bits,
              !.last_finalize_addr_bits = r.pv.last_finalize_addr_bits,
              !.start_pc = s.next_pc]

NumberDeferredRecords(s, done, shards) ==
    LET first == IF done THEN s ELSE [s EXCEPT !.execution_shard = @ + 1]
        after[i \in 0 .. Len(shards)] ==
            IF i = 0 THEN first ELSE NumberDeferredRecord(after[i - 1], shards[i])
    IN [state |-> after[Len(shards)],
        records |-> [i \in DOMAIN shards |-> [shards[i] EXCEPT !.pv = after[i]]]]

-----------------------------------------------------------------------------
(* The threads. *)

VARIABLES
    unfit,         \* the record kinds for which fix_shape fails in this run
    genPc,         \* generator: "run", "ok" or "err"
    genIndex,      \* index of the batch the generator executes next
    checkpoints,   \* the checkpoint channel, as batch indices
    pc,            \* where each worker is
    index,         \* index[w]: the batch worker w received last
    records,       \* records[w]: the worker's records
    clone,         \* clone[w]: records_clone of the combined attempt
    chunks,        \* chunks[w]: what the worker still has to send
    recordTurn,    \* record_gen_sync.current_turn
    traceTurn,     \* trace_gen_sync.current_turn
    stateLock,     \* who holds the mutex around the public values
    deferredLock,  \* who holds the mutex around the deferred events
    poisoned,      \* a thread panicked while it held them
    state,         \* the shared public values
    deferred,      \* the shared record of deferred events
    output,        \* the channel to the prover: chunks [batch, records]
    proved,        \* the chunks the prover has proved, in order
    proverPc,      \* "run", "ok" or "panic"
    result         \* of prove_with_context: "running", "ok", "err" or "panic"

generator == <<genPc, genIndex>>
locals == <<pc, index, records, clone, chunks>>
turns == <<recordTurn, traceTurn>>
locks == <<stateLock, deferredLock, poisoned>>
shared == <<state, deferred>>
proving == <<output, proved, proverPc>>
vars == <<unfit, generator, checkpoints, locals, turns, locks, shared, proving, result>>

Ended == {"ok", "err", "panic"}
Critical == {"defer", "split", "dependencies1", "shape1", "splitPlain", "dependencies2",
             "shape2", "traces", "waitTrace", "send", "dropGuards"}
PCs == {"recv", "waitRecord", "number"} \cup Critical \cup Ended

Done(n) == n = NumBatches - 1

Init ==
    /\ unfit \in UnfitChoices
    /\ genPc = "run" /\ genIndex = 0
    /\ checkpoints = <<>>
    /\ pc = [w \in Workers |-> "recv"]
    /\ index = [w \in Workers |-> 0]
    /\ records = [w \in Workers |-> <<>>]
    /\ clone = [w \in Workers |-> <<>>]
    /\ chunks = [w \in Workers |-> <<>>]
    /\ recordTurn = 0 /\ traceTurn = 0
    /\ stateLock = NoWorker /\ deferredLock = NoWorker /\ poisoned = FALSE
    /\ state = PublicValuesDefault
    /\ deferred = NewRecord
    /\ output = <<>> /\ proved = <<>> /\ proverPc = "run"
    /\ result = "running"

-----------------------------------------------------------------------------
(* The checkpoint generator. *)

\* Mutant of GenerateCheckpoint: the channel has no bound.
BugUnboundedChannel ==
    /\ genPc = "run"
    /\ checkpoints' = Append(checkpoints, genIndex)
    /\ genIndex' = genIndex + 1
    /\ genPc' = IF Done(genIndex) THEN "ok" ELSE "run"
    /\ UNCHANGED <<unfit, locals, turns, locks, shared, proving, result>>

\* execute_state, save and send; the last checkpoint ends the loop.  Main keeps
\* the receiver alive, so that send never fails: it blocks on a full channel.
GenerateCheckpoint ==
    /\ genPc = "run"
    /\ Len(checkpoints) < CheckpointCapacity
    /\ checkpoints' = Append(checkpoints, genIndex)
    /\ genIndex' = genIndex + 1
    /\ genPc' = IF Done(genIndex) THEN "ok" ELSE "run"
    /\ UNCHANGED <<unfit, locals, turns, locks, shared, proving, result>>

\* An execution or I/O error: the thread returns Err and drops the sender.
GeneratorFails ==
    /\ "execution" \in Faults
    /\ genPc = "run"
    /\ genPc' = "err"
    /\ UNCHANGED <<unfit, genIndex, checkpoints, locals, turns, locks, shared, proving,
                   result>>

-----------------------------------------------------------------------------
(* The workers. *)

Goto(w, label) == pc' = [pc EXCEPT ![w] = label]

\* Receive a checkpoint and replay it (trace_checkpoint).
Receive(w) ==
    /\ pc[w] = "recv"
    /\ checkpoints # <<>>
    /\ index' = [index EXCEPT ![w] = Head(checkpoints)]
    /\ checkpoints' = Tail(checkpoints)
    /\ records' = [records EXCEPT ![w] = Batches[Head(checkpoints) + 1]]
    /\ Goto(w, "waitRecord")
    /\ UNCHANGED <<unfit, generator, clone, chunks, turns, locks, shared, proving, result>>

\* The channel is empty and the generator has dropped its end: the loop breaks.
ReceiveDisconnected(w) ==
    /\ pc[w] = "recv"
    /\ checkpoints = <<>>
    /\ genPc # "run"
    /\ Goto(w, "ok")
    /\ UNCHANGED <<unfit, generator, checkpoints, index, records, clone, chunks, turns,
                   locks, shared, proving, result>>

\* Mutant of WaitForRecordTurn: nobody waits.
BugNoRecordTurn(w) ==
    /\ pc[w] = "waitRecord"
    /\ Goto(w, "number")
    /\ UNCHANGED <<unfit, generator, checkpoints, index, records, clone, chunks, turns,
                   locks, shared, proving, result>>

\* record_gen_sync.wait_for_turn(index)
WaitForRecordTurn(w) ==
    /\ pc[w] = "waitRecord"
    /\ recordTurn = index[w]
    /\ Goto(w, "number")
    /\ UNCHANGED <<unfit, generator, checkpoints, index, records, clone, chunks, turns,
                   locks, shared, proving, result>>

\* state.lock(), and the loop over the records with CPU events.
NumberRecords(w) ==
    /\ pc[w] = "number"
    /\ stateLock = NoWorker /\ ~poisoned
    /\ LET numbered == NumberCpuRecords(state, records[w])
       IN /\ state' = numbered.state
          /\ records' = [records EXCEPT ![w] = numbered.records]
    /\ stateLock' = w
    /\ Goto(w, "defer")
    /\ UNCHANGED <<unfit, generator, checkpoints, index, clone, chunks, turns,
                   deferredLock, poisoned, deferred, proving, result>>

\* state.lock().unwrap() on a poisoned mutex.
NumberPanics(w) ==
    /\ pc[w] = "number"
    /\ stateLock = NoWorker /\ poisoned
    /\ Goto(w, "panic")
    /\ UNCHANGED <<unfit, generator, checkpoints, index, records, clone, chunks, turns,
                   locks, shared, proving, result>>

\* deferred.lock(), and the loop that defers the expensive events.
DeferEvents(w) ==
    /\ pc[w] = "defer"
    /\ deferredLock = NoWorker
    /\ deferredLock' = w
    /\ deferred' = DeferAll(deferred, records[w])
    /\ records' = [records EXCEPT ![w] = [i \in DOMAIN @ |-> AfterDefer(@[i])]]
    /\ Goto(w, "split")
    /\ UNCHANGED <<unfit, generator, checkpoints, index, clone, chunks, turns, stateLock,
                   poisoned, state, proving, result>>

\* The condition under which memory events may be packed into the last record.
Combine(n) ==
    /\ Done(n)
    /\ SmallProgram
    /\ Len(deferred.init) < CombineThreshold
    /\ Len(deferred.finalize) < CombineThreshold

\* The combined attempt: split(done, last_record) on a clone of the records.
SplitCombined(w) ==
    /\ pc[w] = "split"
    /\ Combine(index[w])
    /\ \E order \in IterationOrders :
         LET sp == Split(deferred, TRUE, <<Last(records[w])>>, order)
             numbered == NumberDeferredRecords(state, Done(index[w]), sp.shards)
         IN /\ deferred' = sp.deferred
            /\ state' = numbered.state
            /\ clone' = [clone EXCEPT ![w] =
                            Front(records[w]) \o sp.lastRecord \o numbered.records]
    /\ Goto(w, "dependencies1")
    /\ UNCHANGED <<unfit, generator, checkpoints, index, records, chunks, turns, locks,
                   proving, result>>

\* Not combined: go on to the plain split.
SkipCombined(w) ==
    /\ pc[w] = "split"
    /\ ~Combine(index[w])
    /\ Goto(w, "splitPlain")
    /\ UNCHANGED <<unfit, generator, checkpoints, index, records, clone, chunks, turns,
                   locks, shared, proving, result>>

\* Mutant of SplitPlain: the deferred events are not taken out of the shared record.
BugSplitTwice(w) ==
    /\ pc[w] = "splitPlain"
    /\ \E order \in IterationOrders :
         LET sp == Split(deferred, Done(index[w]), <<>>, order)
             numbered == NumberDeferredRecords(state, Done(index[w]), sp.shards)
         IN /\ state' = numbered.state
            /\ records' = [records EXCEPT ![w] = @ \o numbered.records]
    /\ Goto(w, "dependencies2")
    /\ UNCHANGED <<unfit, generator, checkpoints, index, clone, chunks, turns, locks,
                   deferred, proving, result>>

\* split(done, None), also after a combined attempt whose shapes did not fit.
SplitPlain(w) ==
    /\ pc[w] = "splitPlain"
    /\ \E order \in IterationOrders :
         LET sp == Split(deferred, Done(index[w]), <<>>, order)
             numbered == NumberDeferredRecords(state, Done(index[w]), sp.shards)
         IN /\ deferred' = sp.deferred
            /\ state' = numbered.state
            /\ records' = [records EXCEPT ![w] = @ \o numbered.records]
    /\ Goto(w, "dependencies2")
    /\ UNCHANGED <<unfit, generator, checkpoints, index, clone, chunks, turns, locks,
                   proving, result>>

\* Mutant of GenerateDependencies: the turn is not passed on.
BugKeepTurn(w) ==
    /\ pc[w] \in {"dependencies1", "dependencies2"}
    /\ Goto(w, IF pc[w] = "dependencies1" THEN "shape1" ELSE "shape2")
    /\ UNCHANGED <<unfit, generator, checkpoints, index, records, clone, chunks,
                   turns, locks, shared, proving, result>>

\* generate_dependencies, then record_gen_sync.advance_turn().
GenerateDependencies(w) ==
    /\ pc[w] \in {"dependencies1", "dependencies2"}
    /\ recordTurn' = recordTurn + 1
    /\ Goto(w, IF pc[w] = "dependencies1" THEN "shape1" ELSE "shape2")
    /\ UNCHANGED <<unfit, generator, checkpoints, index, records, clone, chunks,
                   traceTurn, locks, shared, proving, result>>

\* The guards go out of scope.
DropLocks == stateLock' = NoWorker /\ deferredLock' = NoWorker

\* Mutant of WorkerFails: the failed worker passes its trace turn on.
BugAdvanceOnError(w) ==
    /\ "traces" \in Faults /\ pc[w] = "traces"
    /\ DropLocks
    /\ Goto(w, "err")
    /\ traceTurn' = traceTurn + 1
    /\ UNCHANGED <<unfit, generator, checkpoints, index, records, clone, chunks,
                   recordTurn, poisoned, shared, proving, result>>

\* A dependency or trace generation error: the thread returns Err without
\* passing a turn on.
WorkerFails(w) ==
    /\ \/ "dependencies" \in Faults /\ pc[w] \in {"dependencies1", "dependencies2"}
       \/ "traces" \in Faults /\ pc[w] = "traces"
    /\ DropLocks
    /\ Goto(w, "err")
    /\ UNCHANGED <<unfit, generator, checkpoints, index, records, clone, chunks, turns,
                   poisoned, shared, proving, result>>

\* The class of record fix_shape sees.
Kind(r) ==
    LET memory == r.init # <<>> \/ r.finalize # <<>>
    IN CASE r.cpu /\ memory   -> "packed"
         [] r.cpu /\ ~memory  -> "cpu"
         [] ~r.cpu /\ memory  -> "memory"
         [] OTHER             -> "precompile"

ShapesFit(recs) == \A i \in DOMAIN recs : Kind(recs[i]) \notin unfit

\* fix_shape of the clones: if all fit they replace the records, else the
\* plain split is done.
FixShapesCombined(w) ==
    /\ pc[w] = "shape1"
    /\ IF ShapesFit(clone[w])
       THEN Goto(w, "traces") /\ records' = [records EXCEPT ![w] = clone[w]]
       ELSE Goto(w, "splitPlain") /\ UNCHANGED records
    /\ clone' = [clone EXCEPT ![w] = <<>>]
    /\ UNCHANGED <<unfit, generator, checkpoints, index, chunks, turns, locks, shared,
                   proving, result>>

FixShapesPlain(w) ==
    /\ pc[w] = "shape2"
    /\ ShapesFit(records[w])
    /\ Goto(w, "traces")
    /\ UNCHANGED <<unfit, generator, checkpoints, index, records, clone, chunks, turns,
                   locks, shared, proving, result>>

\* fix_shape(record).unwrap() panics; unwinding drops the guards and poisons.
FixShapesPanics(w) ==
    /\ pc[w] = "shape2"
    /\ ~ShapesFit(records[w])
    /\ DropLocks
    /\ poisoned' = TRUE
    /\ Goto(w, "panic")
    /\ UNCHANGED <<unfit, generator, checkpoints, index, records, clone, chunks, turns,
                   shared, proving, result>>

\* generate_traces for every record.
GenerateTraces(w) ==
    /\ pc[w] = "traces"
    /\ Goto(w, "waitTrace")
    /\ UNCHANGED <<unfit, generator, checkpoints, index, records, clone, chunks, turns,
                   locks, shared, proving, result>>

\* trace_gen_sync.wait_for_turn(index), then the records are cut into chunks.
WaitForTraceTurn(w) ==
    /\ pc[w] = "waitTrace"
    /\ traceTurn = index[w]
    /\ chunks' = [chunks EXCEPT ![w] = Chunks(records[w], ShardBatchSize)]
    /\ records' = [records EXCEPT ![w] = <<>>]
    /\ Goto(w, "send")
    /\ UNCHANGED <<unfit, generator, checkpoints, index, clone, turns, locks, shared,
                   proving, result>>

\* Send the next chunk; block while the channel is full.
SendChunk(w) ==
    /\ pc[w] = "send"
    /\ chunks[w] # <<>>
    /\ Len(output) < OutputCapacity
    /\ proverPc = "run"
    /\ output' = Append(output, [batch |-> index[w], records |-> Head(chunks[w])])
    /\ chunks' = [chunks EXCEPT ![w] = Tail(@)]
    /\ UNCHANGED <<unfit, generator, checkpoints, pc, index, records, clone, turns, locks,
                   shared, proved, proverPc, result>>

\* send(..).unwrap() when the prover is gone.
SendPanics(w) ==
    /\ pc[w] = "send"
    /\ chunks[w] # <<>>
    /\ proverPc = "panic"
    /\ DropLocks
    /\ poisoned' = TRUE
    /\ Goto(w, "panic")
    /\ UNCHANGED <<unfit, generator, checkpoints, index, records, clone, chunks, turns,
                   shared, proving, result>>

\* Everything is sent: trace_gen_sync.advance_turn().
AdvanceTraceTurn(w) ==
    /\ pc[w] = "send"
    /\ chunks[w] = <<>>
    /\ traceTurn' = traceTurn + 1
    /\ Goto(w, "dropGuards")
    /\ UNCHANGED <<unfit, generator, checkpoints, index, records, clone, chunks,
                   recordTurn, locks, shared, proving, result>>

\* The iteration ends and both guards are dropped.
DropGuards(w) ==
    /\ pc[w] = "dropGuards"
    /\ DropLocks
    /\ Goto(w, "recv")
    /\ UNCHANGED <<unfit, generator, checkpoints, index, records, clone, chunks, turns,
                   poisoned, shared, proving, result>>

-----------------------------------------------------------------------------
(* The prover thread and the caller. *)

\* Commit and open every record of a chunk; par_extend keeps their order.
ProveChunk ==
    /\ proverPc = "run"
    /\ output # <<>>
    /\ proved' = Append(proved, Head(output))
    /\ output' = Tail(output)
    /\ UNCHANGED <<unfit, generator, checkpoints, locals, turns, locks, shared, proverPc,
                   result>>

\* prover.open(..).unwrap() panics and the receiver is dropped: what is in the
\* channel is never read.
ProverPanics ==
    /\ "open" \in Faults
    /\ proverPc = "run"
    /\ output # <<>>
    /\ proverPc' = "panic"
    /\ UNCHANGED <<unfit, generator, checkpoints, locals, turns, locks, shared, output,
                   proved, result>>

\* The last sender is gone and the channel is empty: the for loop ends.
ProverEnds ==
    /\ proverPc = "run"
    /\ output = <<>>
    /\ \A w \in Workers : pc[w] \in Ended
    /\ proverPc' = "ok"
    /\ UNCHANGED <<unfit, generator, checkpoints, locals, turns, locks, shared, output,
                   proved, result>>

\* Mutant of Outcome: the workers' results are not looked at.
BugIgnoreWorkerError == IF genPc = "err" THEN "err" ELSE "ok"

\* The scope joins every thread before it returns. A panic is passed on; else
\* the first Err that was joined is returned.
Outcome ==
    CASE proverPc = "panic" \/ \E w \in Workers : pc[w] = "panic" -> "panic"
      [] OTHER -> IF genPc = "err" \/ \E w \in Workers : pc[w] = "err"
                  THEN "err" ELSE "ok"

Return ==
    /\ result = "running"
    /\ genPc # "run"
    /\ \A w \in Workers : pc[w] \in Ended
    /\ proverPc # "run"
    /\ result' = Outcome
    /\ UNCHANGED <<unfit, generator, checkpoints, locals, turns, locks, shared, proving>>

Returned == result # "running" /\ UNCHANGED vars

WorkerStep(w) ==
    \/ Receive(w) \/ ReceiveDisconnected(w) \/ WaitForRecordTurn(w)
    \/ NumberRecords(w) \/ NumberPanics(w) \/ DeferEvents(w)
    \/ SplitCombined(w) \/ SkipCombined(w) \/ SplitPlain(w) \/ GenerateDependencies(w)
    \/ FixShapesCombined(w) \/ FixShapesPlain(w) \/ FixShapesPanics(w)
    \/ GenerateTraces(w) \/ WaitForTraceTurn(w) \/ SendChunk(w) \/ SendPanics(w)
    \/ AdvanceTraceTurn(w) \/ DropGuards(w)

ProverStep == ProveChunk \/ ProverEnds

Next ==
    \/ GenerateCheckpoint \/ GeneratorFails
    \/ \E w \in Workers : WorkerStep(w) \/ WorkerFails(w)
    \/ ProverStep \/ ProverPanics
    \/ Return \/ Returned

Spec == Init /\ [][Next]_vars

(***************************************************************************)
(* Every thread that can take a step eventually takes one; failures are    *)
(* never obliged to happen.  Only one worker waits for a given turn and    *)
(* only the owner of the record turn asks for the mutexes, so that weak    *)
(* fairness is enough.                                                     *)
(***************************************************************************)
FairSpec ==
    /\ Spec
    /\ WF_vars(GenerateCheckpoint)
    /\ \A w \in Workers : WF_vars(WorkerStep(w))
    /\ WF_vars(ProverStep)
    /\ WF_vars(Return)

-----------------------------------------------------------------------------
(* Properties. *)

\* Control stays in its type: the checkpoint channel within its capacity, indices
\* and turns within the batches. A combined attempt that falls back passes the
\* record turn of the last batch on twice.
TypeOK ==
    /\ unfit \in UnfitChoices
    /\ genPc \in {"run", "ok", "err"}
    /\ genIndex \in 0 .. NumBatches
    /\ checkpoints \in Seq(Nat)
    /\ Len(checkpoints) <= CheckpointCapacity
    /\ pc \in [Workers -> PCs]
    /\ index \in [Workers -> 0 .. NumBatches - 1]
    /\ recordTurn \in 0 .. NumBatches + 1
    /\ traceTurn \in 0 .. NumBatches
    /\ stateLock \in Workers \cup {NoWorker}
    /\ deferredLock \in Workers \cup {NoWorker}
    /\ poisoned \in BOOLEAN
    /\ proverPc \in {"run", "ok", "panic"}
    /\ result \in {"running"} \cup Ended

\* The guards of `state` and `deferred` are held until the end of an iteration.
\* A worker that holds them never waits for the trace turn, so that turns and
\* guards cannot wait for each other, unless a worker has returned an error
\* or panicked in the middle of its batch.
GuardHolderHasTraceTurn ==
    \A w \in Workers :
        pc[w] = "waitTrace" =>
            \/ traceTurn = index[w]
            \/ \E v \in Workers : pc[v] \in {"err", "panic"}

\* The threads block each other for ever only after a worker has failed: the
\* generator's error, full channels and a panic of the prover alone do not do it.
HangNeedsFailedWorker ==
    result = "running" /\ ~ENABLED Next =>
        \E w \in Workers : pc[w] \in {"err", "panic"}

\* prove_with_context returns, unless a worker fails: the generator's error, the
\* prover's panic and full channels are always got over.
Returns == <>(result # "running" \/ \E w \in Workers : pc[w] \in {"err", "panic"})
=============================================================================
