-------------------------- MODULE CheckpointReplay --------------------------
(***************************************************************************)
(* The life of a program between the checkpoint generator and the workers: *)
(* the generator executes a batch in Checkpoint mode (execute_state) and   *)
(* hands over a checkpoint, a new executor recovers from it and executes   *)
(* the batch again in Trace mode (trace_checkpoint, execute_record).       *)
(*                                                                         *)
(* The program is any program: an instruction is chosen when it is first   *)
(* fetched.  A checkpoint is replayed as soon as it is made; nothing the   *)
(* generator does later can change a checkpoint, so that replaying it in   *)
(* another thread at another time gives the same records.                  *)
(***************************************************************************)
EXTENDS Executor, SequencesExt

CONSTANTS
    ProofStream,  \* the proofs written before the execution, each about a word
    Cases,        \* [instructions, opts]: programs of these instructions, with these options
    HintTouched   \* programs may hint into words they have touched before

ASSUME CasesAssumption ==
    \A c \in Cases :
        /\ c.opts.shard_clk \in Nat /\ c.opts.max_local_mem \in Nat
        /\ c.opts.shard_batch_size \in Nat \ {0}
        /\ None \notin c.instructions /\ \A i \in c.instructions : Instruction(i)

VARIABLES
    prog,     \* prog[pc]: the instruction, None until it is fetched
    gen,      \* the generator's executor
    saved,    \* the clone of its state made when the batch began
    rep,      \* the executor that replays the batch
    phase,    \* "generate", "replay" or "done"
    shards,   \* the records of the batches replayed so far, with public values
    before    \* history: the executor that entered the current unconstrained block

vars == <<prog, gen, saved, rep, phase, shards, before>>

\* The beginning of execute_state, up to the clone.
BeginBatch(ex) ==
    [ex EXCEPT !.mode = "Checkpoint", !.emit = FALSE, !.memory_checkpoint = Empty,
               !.records = <<>>, !.status = "run"]

\* Mutant of MakeCheckpoint: the last checkpoint keeps what the batch wrote.
BugDirtyLast(s, ex) ==
    [s EXCEPT
        !.memory = IF ex.status = "done" THEN ex.memory
                   ELSE Restrict(ex.memory_checkpoint,
                                 {a \in DOMAIN ex.memory_checkpoint :
                                     ex.memory_checkpoint[a] # None}),
        !.uninitialized_memory = ex.uninitialized_memory,
        !.proof_stream = <<>>,
        !.records_clk = ex.records_clk]

\* The end of execute_state: only what the batch looked at, or everything as it
\* was before the batch if it was the last.
MakeCheckpoint(s, ex) ==
    LET looked == {a \in DOMAIN ex.memory_checkpoint : ex.memory_checkpoint[a] # None}
        marked == ex.uninitialized_memory_checkpoint
        old == {a \in DOMAIN marked : marked[a]}
        hinted == DOMAIN ex.uninitialized_memory
    IN [s EXCEPT
          !.memory = IF ex.status = "done"
                     THEN Restore(ex.memory, ex.memory_checkpoint)
                     ELSE Restrict(ex.memory_checkpoint, looked),
          !.uninitialized_memory =
              Restrict(ex.uninitialized_memory,
                       IF ex.status = "done" THEN hinted \ (DOMAIN marked \ old)
                       ELSE old),
          !.proof_stream = <<>>,
          !.records_clk = ex.records_clk]

\* Mutant of VerifiesAgain: the recovered executor is like any other.
BugVerifiesAgain == TRUE

\* Executor::recover switches off the verification of deferred proofs, whose stream is
\* not in the checkpoint.
VerifiesAgain == FALSE

\* Executor::recover and execute_record up to the loop: a new executor with the
\* default hooks, and only the state of the old one.
Recover(checkpoint) ==
    Initialize([NewExecutor(DefaultHooks, checkpoint.opts) EXCEPT
        !.pc = checkpoint.pc, !.next_pc = checkpoint.next_pc, !.clk = checkpoint.clk,
        !.global_clk = checkpoint.global_clk,
        !.current_shard = checkpoint.current_shard,
        !.exited = checkpoint.exited,
        !.next_is_delayslot = checkpoint.next_is_delayslot,
        !.records_clk = checkpoint.records_clk,
        !.records_clk_index = checkpoint.records_clk_index,
        !.memory = checkpoint.memory,
        !.uninitialized_memory = checkpoint.uninitialized_memory,
        !.input_stream = checkpoint.input_stream,
        !.input_stream_ptr = checkpoint.input_stream_ptr,
        !.public_values_stream = checkpoint.public_values_stream,
        !.proof_stream = checkpoint.proof_stream,
        !.proof_stream_ptr = checkpoint.proof_stream_ptr, !.verify_deferred = VerifiesAgain,
        !.mode = "Trace", !.emit = TRUE])

\* Mutant of WithPublicValues: the first shard of a batch is counted twice.
BugShardOffByOne(ex, startShard) ==
    [i \in DOMAIN ex.records |->
        [local |-> ex.records[i].local, execution_shard |-> startShard + i,
         start_pc |-> Head(ex.records[i].cpu).pc,
         next_pc |-> Last(ex.records[i].cpu).next_pc,
         committed_value_digest |-> ex.digest, deferred_proofs_digest |-> ex.deferred_digest]]

\* The end of execute: the public values of the records of a batch. All of them
\* get the digests the batch ended with.
WithPublicValues(ex, startShard) ==
    [i \in DOMAIN ex.records |->
        [local |-> ex.records[i].local, execution_shard |-> startShard + i - 1,
         start_pc |-> Head(ex.records[i].cpu).pc,
         next_pc |-> Last(ex.records[i].cpu).next_pc,
         committed_value_digest |-> ex.digest, deferred_proofs_digest |-> ex.deferred_digest]]

Init ==
    \E c \in Cases :
    LET ex == [BeginBatch(NewExecutor(ContextHooks, c.opts)) EXCEPT
                 !.proof_stream = ProofStream]
    IN /\ prog = [i \in 1 .. ProgramLength |-> None]
       /\ gen = Initialize(ex)
       /\ saved = ex
       /\ rep = NewExecutor(DefaultHooks, c.opts)
       /\ phase = "generate"
       /\ shards = <<>>
       /\ before = NewExecutor(ContextHooks, c.opts)

Fetched == Range(prog) \ {None}

\* What the next instruction may be when it is fetched for the first time.
Fresh == UNION {c.instructions : c \in {c \in Cases : c.opts = gen.opts
                                                      /\ Fetched \subseteq c.instructions}}

\* The generator executes one instruction.
Generate ==
    /\ phase = "generate"
    /\ gen.status = "run"
    /\ \E i \in (IF prog[gen.pc] = None THEN Fresh ELSE {prog[gen.pc]}) :
         /\ i.op = "HINT_READ" => HintTouched \/ i.addr \notin DOMAIN gen.memory
         /\ prog' = [prog EXCEPT ![gen.pc] = i]
         /\ gen' = LoopTurn(gen, i, TRUE)
         /\ before' = IF i.op = "ENTER" /\ ~gen.unconstrained THEN gen ELSE before
    /\ UNCHANGED <<saved, rep, phase, shards>>

\* The batch is over: make the checkpoint, and recover from it.
Checkpoint ==
    /\ phase = "generate"
    /\ gen.status \in {"batch", "done"}
    /\ rep' = Recover(MakeCheckpoint(saved, gen))
    /\ phase' = "replay"
    /\ UNCHANGED <<prog, gen, saved, shards, before>>

\* The replay executes one instruction. One the generator never fetched is an error.
Replay ==
    /\ phase = "replay"
    /\ rep.status = "run"
    /\ rep.global_clk <= MaxCycles
    /\ LET i == prog[rep.pc]
       IN /\ rep' = IF i = None THEN Err(rep) ELSE LoopTurn(rep, i, FALSE)
          /\ before' = IF i # None /\ i.op = "ENTER" /\ ~rep.unconstrained
                       THEN rep ELSE before
    /\ UNCHANGED <<prog, gen, saved, phase, shards>>

\* The batch is replayed: keep its records and let the generator go on.
EndReplay ==
    /\ phase = "replay"
    /\ rep.status \in {"batch", "done"}
    /\ shards' = shards \o WithPublicValues(rep, saved.current_shard)
    /\ IF gen.status = "done"
       THEN phase' = "done" /\ UNCHANGED <<gen, saved>>
       ELSE LET ex == [BeginBatch(gen) EXCEPT !.records_clk = <<>>,
                                              !.uninitialized_memory_checkpoint = Empty]
            IN phase' = "generate" /\ gen' = ex /\ saved' = ex
    /\ UNCHANGED <<prog, rep, before>>

\* The program has ended, or the execution failed.
Stop ==
    /\ phase = "done" \/ gen.status = "err"
    /\ UNCHANGED vars

Next == Generate \/ Checkpoint \/ Replay \/ EndReplay \/ Stop

Spec == Init /\ [][Next]_vars

-----------------------------------------------------------------------------
(* Properties. *)

ReplayEnded == phase = "replay" /\ rep.status # "run"

\* A checkpoint holds all the replay needs: the replay does not fail, ends shards
\* and the batch where the generator did, and reaches the same state.
ReplayMatches ==
    ReplayEnded =>
        /\ rep.status = gen.status
        /\ Len(rep.records) = Len(gen.records)
        /\ rep.pc = gen.pc /\ rep.next_pc = gen.next_pc
        /\ rep.clk = gen.clk /\ rep.global_clk = gen.global_clk
        /\ rep.current_shard = gen.current_shard
        /\ rep.input_stream = gen.input_stream
        /\ rep.input_stream_ptr = gen.input_stream_ptr
        /\ rep.public_values_stream = gen.public_values_stream
        /\ \A a \in DOMAIN rep.memory :
             a \in DOMAIN gen.memory /\ rep.memory[a] = gen.memory[a]
        /\ rep.status = "done" =>
             /\ DOMAIN rep.memory = DOMAIN gen.memory
             /\ \A a \in DOMAIN gen.memory : InitialValue(rep, a) = InitialValue(gen, a)

At(a, r) == [addr |-> a, value |-> r.value, shard |-> r.shard, timestamp |-> r.timestamp]

LocalEvents == UNION {shards[i].local : i \in DOMAIN shards}

\* The memory argument balances: what the program image, the initialize events and
\* the local events send is what the local and the finalize events receive.
MemoryBalanced ==
    phase = "done" =>
        LET first(a) == [value |-> IF a \in DOMAIN Image THEN Image[a]
                                   ELSE InitialValue(rep, a),
                         shard |-> 0, timestamp |-> 0]
            sent == {At(a, first(a)) : a \in DOMAIN rep.memory}
                    \cup {At(e.addr, e.final) : e \in LocalEvents}
            received == {At(a, rep.memory[a]) : a \in DOMAIN rep.memory}
                        \cup {At(e.addr, e.initial) : e \in LocalEvents}
        IN /\ sent = received
           /\ Cardinality(sent) = Cardinality(DOMAIN rep.memory) + Cardinality(LocalEvents)

Earlier(r, s) == r.shard < s.shard \/ (r.shard = s.shard /\ r.timestamp < s.timestamp)

\* Every local memory event goes forward in (shard, timestamp), as the memory
\* chips demand, across shards and batches and after unconstrained blocks.
AccessesMoveForward == \A e \in LocalEvents : Earlier(e.initial, e.final)

\* What is left of an executor when input_stream and public_values_stream, which
\* unconstrained code may extend, and the generator's bookkeeping are set aside.
Visible(ex) ==
    [pc |-> ex.pc, next_pc |-> ex.next_pc, clk |-> ex.clk, global_clk |-> ex.global_clk,
     memory |-> ex.memory, uninitialized |-> ex.uninitialized_memory, mode |-> ex.mode,
     record |-> ex.record, records |-> ex.records, shard |-> ex.current_shard,
     local |-> ex.local_memory_access, ptr |-> ex.input_stream_ptr]

\* An unconstrained block leaves no trace: from ENTER to EXIT it is like one
\* EXIT_UNCONSTRAINED call outside a block, which only returns 0.
BlockIsOneCall ==
    [][\A ex \in {<<gen, gen', TRUE>>, <<rep, rep', FALSE>>} :
          ex[1].unconstrained /\ ~ex[2].unconstrained /\ ex[2].status # "err" =>
              Visible(ex[2]) = Visible(LoopTurn(before, [op |-> "EXIT"], ex[3]))]_vars

-----------------------------------------------------------------------------
(* The replayed shards before the verifier. *)

Verifier == INSTANCE ShardVerifier
    WITH PcStart <- 1, ZeroAddrBits <- <<>>, MaxCpuLogDegree <- 0, MaxShards <- 0

ShardProofs == [i \in DOMAIN shards |-> [cpu |-> TRUE, pv |-> shards[i]]]

\* The shards of a program that halts pass the verifier's checks on execution
\* shards and program counters, although each batch was traced by an executor
\* that saw nothing of the others.
ShardsChain ==
    phase = "done" /\ gen.exited =>
        /\ Verifier!ExecutionShardsCountUp(ShardProofs)
        /\ Verifier!ProgramCounterChain(ShardProofs)

\* ... and those on the committed digest.
DigestsChain == phase = "done" /\ gen.exited => Verifier!DigestChain(ShardProofs)
=============================================================================
