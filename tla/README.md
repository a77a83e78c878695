# TLA+ models of Ziren (zkMIPS)

Ziren proves the execution of MIPS programs.  A program is executed, its
execution is cut into *shards*, every shard is proved on its own, and the
shard proofs are aggregated.  What makes the result a proof of one execution is
the bookkeeping between shards: their public values chain, their memory
events balance, and every deferred event is proved exactly once.  That
bookkeeping is done by several threads that replay the execution from
checkpoints.  These modules
model that core, what stands on both sides of it (the chips and the STARK that
prove a shard; the circuits, the tree and the SDK that use the proofs), check
it with TLC and prove the parts that do not depend on the size of an instance
with TLAPS.

Run TLC with `tlc -config X.cfg M` (the table of runs names both) and the
proofs with `tlapm M.tla`.

## The system

| Part | State | Operations | Talks to |
|---|---|---|---|
| Executor (`core/executor`) | registers and memory with (shard, timestamp), hinted words, input and public-value streams, clock, shard, record of events, checkpoint maps | one cycle, syscalls, end of a shard, `execute_state`, `execute_record`, `recover` | called by the generator (Checkpoint mode) and the workers (Trace mode) |
| Unconstrained mode (`syscalls/unconstrained.rs`) | a fork of clocks, record and a memory diff | ENTER, EXIT | inside the executor |
| Execution records (`record.rs`) | events by kind, public values | `defer`, `append`, `split` | workers |
| Turn counter (`utils/concurrency.rs`) | counter, mutex, condition variable | `wait_for_turn`, `advance_turn` | two of them, shared by the workers |
| Core pipeline (`utils/prove.rs`) | two bounded channels, shared public values and shared deferred record behind mutexes | generator, workers, prover thread, joins | all of the above |
| Shape fixing (`shape/mod.rs`) | none | `fix_shape` chooses a shape or fails | workers |
| Core verification (`prover/src/verify.rs`) | none | the public-value rules, then the STARK proofs | consumer of the pipeline's result |
| Compress tree (`prover/src/lib.rs`) | three bounded channels, each with a turn counter; the tree thread's batch | leaf sender, workers, provers, tree thread, joins | consumer of shard proofs |
| Recursion circuits (`recursion/circuit`) | none | assert that a program's inputs are consecutive, aggregate their public values; core, deferred, compress, shrink, wrap | executed by the compress workers |
| STARK (`stark`) | the challenger's transcript, commitments, proofs | `setup`, `commit`, `open`, `verify_shard`, `verify` | the pipeline's prover thread; the verifier; the same verifier as a circuit |
| CPU and instruction chips (`core/machine`) | rows | constraints, lookups between chips | traces of the records, the STARK |
| Syscall and precompile chips (`core/machine/src/syscall`) | rows | decode a syscall, carry it to the shard of the precompiles, receive it, access its words | the CPU chip, the memory tables |
| SDK (`sdk`) and artifacts (`prover/build.rs`, `gnark-ffi`) | directories of circuit artifacts, keys cached in the process, jobs of the proving service | install, build, prove, verify, poll | users; the prover; the service |
| Recursion stack (`recursion/compiler`, `recursion/core`, `gnark-ffi/go`) | operations of a circuit, addresses with multiplicities, the machine's write-once memory, bounds of unreduced numbers | build, compile, run, prove; emit and define the gnark circuit | the circuits are written with it; the prover runs it |
| Memory tables, global lookups; standalone verifier; guest runtime; tools | | | not modelled |

What is hard to test here: workers finish in any order and share a running
state; guards live longer than the turn they belong to; a worker, the generator
or the prover fails in the middle; a combined attempt is undone half-way;
a checkpoint holds only what the batch looked at, so a forgotten access
shows only in a replay; an unconstrained block must leave no trace; shard
boundaries meet delay slots; chunks of events are exactly full, or empty; a
tree is built out of order; two implementations of a transcript must agree
byte for byte; a chip's carries leave room for a second result; the operands of a
precompile overlap; a process dies
half-way through an installation, or asks a service that never answers.
`PROJECT.json` lists each hazard at its line.

What makes the parts correct: turns are taken in order and none is lost;
the pipeline's result is that of one sequential loop, whatever the threads do;
an accepted proof is one of a single execution in which every event is proved
once; a replay gives what was executed; the tree's root stands for all
leaves in order; the circuits accept what the verifiers accept and nothing else;
the chips accept what the executor does and nothing else; a recursion program asserts what its
calls mean; every call of the SDK
ends, and a proof it made is rejected only for a reason.

## Modules

| Module | What it models |
|---|---|
| `TurnOrder` | what callers rely on when they share a turn counter (abstract) |
| `TurnBasedSync` | the counter with its mutex and condition variable; refines `TurnOrder` |
| `TurnBasedSyncProofs` | proofs for any number of threads and items |
| `RecordSplit` | records, `defer`, `append`, `split` as operators |
| `ShardVerifier` | one operator per rule of `verify` |
| `ProvePipeline` | `prove_with_context`: generator, workers, prover, caller; how a worker numbers its records |
| `SequentialProve` | what the pipeline promises: one loop over the batches (abstract) |
| `CoreProof` | composes pipeline, verifier and the abstract loop; what the loop makes of the batches (`Outcomes`) |
| `SequenceLemmas` | lemmas about concatenation, `FlattenSeq` and induction over numbers |
| `CoreProofProofs` | inductive invariant of the pipeline; it implements the loop and loses no event, for any workers, batches and failures |
| `CoreProofAccepts` | a proof that is returned is accepted by the verifier, and whatever is sent is well formed, likewise |
| `MCCoreProof` | small executions for `CoreProof` |
| `Executor` | the executor as operators on a record of its fields |
| `CheckpointReplay` | generator and replay of arbitrary small programs |
| `CheckpointReplayProofs` | accesses move forward, unconstrained blocks leave no trace, replays match and their shards form a chain, for any program, input and options |
| `MCCheckpointReplay` | instruction sets for `CheckpointReplay` |
| `CompressTree` | `compress`: leaf sender, workers, provers, tree thread, main |
| `CompressTreeProofs` | inductive invariant and proofs for any number of threads, shards, deferred proofs and failures |
| `MCCompressTree` | the provers' handles for `CompressTree` |
| `RecursionCircuits` | what each recursion program asserts of its inputs' public values, and what it commits to |
| `Aggregation` | a core proof and deferred proofs through the programs, in a tree of any shape, to a wrapped proof |
| `AggregationProofs` | what is verified obeys `verify`, and what `verify` accepts gets through, for any core proof and shape of the tree |
| `MCAggregation` | lists of deferred proofs for `Aggregation` |
| `ShardStark` | the STARK of a shard: keys, transcript, prover, verifier, verifier circuit |
| `MCShardStark` | a machine of four chips and its records |
| `Words` | words in limbs, the field, the range check, additions with carries |
| `AluChips` | ALU instructions as executed and as constrained |
| `MemoryChip` | loads and stores as executed and as constrained |
| `ControlChips` | branches, jumps, moves, multiply-add, EXT/INS/SEXT/WSBH, TEQ, likewise |
| `PrecompileChips` | the memory accesses of the precompiles, in the executor and in their chips |
| `SyscallChips` | syscall codes, the Linux calls, commitments and halts as executed and as constrained; the way of a call to its chip |
| `InstructionChips` | composes them: the executor's cycles beside the rows of the chips |
| `MCInstructionChips` | operands and programs for `InstructionChips` |
| `RecursionDsl` | the recursion machine's field and extension, as small fields of the same form; the builder: expressions, assertions, the operations they push |
| `RecursionGadgets` | bits, exponents, selections, hashes, transcripts and curve sums, in three configurations |
| `RecursionFri` | Merkle openings, FRI, the commitment's verifier, domains and the constraint check as circuits |
| `RecursionCompiler` | operations to instructions, with addresses and multiplicities |
| `RecursionMachine` | what the runtime computes and which rows each chip accepts; the memory lookups |
| `RecursionGnark` | operations to constraints, and what the gnark circuit makes of them |
| `RecursionMeaning` | what the builder's calls mean, on values (abstract) |
| `RecursionProgram` | a circuit built, compiled, run by an honest or by any prover, and proved |
| `MCRecursionProgram` | circuits for `RecursionProgram` |
| `CircuitArtifacts` | the directories of circuit artifacts and the keys a process has loaded |
| `NetworkProver` | one call to the proving service and its polling |
| `ProverClient` | composes both with `prove` and `verify` of the three provers |
| `ProverClientProofs` | inductive invariant and the cause of a rejection, for any processes, calls, builds and environments |

`CompressTree` and `Aggregation` are about the same code and split it: the
first has the threads and channels and keeps of a proof only the range it covers, the
second has no threads, lets any two neighbours be compressed next, and keeps the
public values.  `ProvePipeline` and `CheckpointReplay` split the core prover
likewise, and `ShardStark` takes one shard's traces as given while
`InstructionChips` asks which rows satisfy the constraints.

### TurnBasedSync

`wait_for_turn` takes the mutex (`WaitLock`), then either returns
(`WaitReturn`) or releases it and sleeps in one step (`WaitSleep`).
`advance_turn` takes the mutex (`AdvanceLock`), increments and notifies
(`Advance`), and releases (`Unlock`).  `SpuriousWakeup` is an early return of
`Condvar::wait`, bounded by `MaxSpurious`.  `Receive` is the caller: it hands
out indices in order.

### ProvePipeline, RecordSplit

One step is what a thread does between two points where others can see it.
The program counter of a worker follows the loop of `prove.rs`:

    recv -> waitRecord -> number -> defer -> split
         -> [dependencies1 -> shape1 ->] splitPlain -> dependencies2 -> shape2
         -> traces -> waitTrace -> send -> dropGuards -> recv

`stateLock` and `deferredLock` are the guards of `state` and `deferred`; they
are variables of the loop body, so they are released in `dropGuards` (or when
the thread returns or unwinds), not when the record turn is passed on.  The
combined attempt works on a clone of the records but on the shared deferred
record and the shared public values; if its shapes do not fit, `splitPlain`
goes on from there.

The two waits for a turn are single steps; theorem `Refinement` of
`TurnBasedSyncProofs` justifies this.  The replay of a checkpoint is the
constant `Batches`: the records a batch gives do not depend on what other
threads do, which is what `CheckpointReplay` is about.

Failures: an execution or I/O error of the generator, a dependency or trace
generation error of a worker, `fix_shape` failing for kinds of records (chosen
once, `unfit`), a panic while the prover opens a chunk.  A panic with the
guards held poisons both mutexes.

### Executor and CheckpointReplay

`Executor` keeps the fields that decide what is executed, checkpointed and
traced.  Registers and memory words share one address space; a word has two
bits so that a sub-word store has something to keep.  One ALU instruction, a
load, a full and a sub-word store and a branch stand for the instruction set;
of the syscalls, those that change executor state other than through memory
are there by name, and `PRECOMPILE` stands for all that read and write memory
through `SyscallContext`.

`CheckpointReplay` runs *every* program of `ProgramLength` instructions: an
instruction is chosen when it is first fetched.  `Generate` is one turn of
the loop of `execute` in Checkpoint mode, `Checkpoint` the end of
`execute_state` and `recover`, `Replay` one turn in Trace mode, `EndReplay` the
end of `execute` with the public values.

### CompressTree

The threads of `compress` have the same loop, so that `Send`, `SendPanics`,
`Receive`, `Disconnected` and `Advance` are written once, for a thread and the
channels it receives from and sends to.  Every send is made in turn; the turn
is passed on in a later step, so that a receiver can be ahead of the counter.
The tree thread and the leaf sender share the input channel and its counter.

A proof is the range it covers: shards, and how many deferred proofs have
been folded into the reconstructed digest.  `Accepts` is what the recursion
programs assert of consecutive inputs and of a complete one; a worker that
executes the program on other inputs panics (`ProgramRejects`).  `committed` is
the digest the program committed to, which the caller's deferred proofs may
or may not match.

Main keeps one receiver of each channel until its closure ends, so a sender
whose receivers are all gone blocks, and panics only once main has ended
(`NoReceiver`).  `thread::scope` then waits for everyone (`ScopeEnds`).
Failures are a worker that returns Err or panics and a prover that panics; the
history variable `faults` counts them.

### RecursionCircuits and Aggregation

A shard proof is the public values `verify` looks at, which chips it has, and
whether its STARK proof is valid.  `ShardVerifier`'s rules are reused for
the core proof, so that the two ways to accept a proof are compared rule by rule.
`ProveShard` appends the next shard of an honest execution; `DeviatingShard`
one that breaks any of the rules, at most `MaxDeviations` times.
`RunFirstLayer` cuts the shards and the deferred proofs into batches and runs
the core and deferred programs on them, `Compress` two neighbours of the
frontier, `Shrink` and `Wrap` the root programs.  A digest is a number that
`Hash` makes of its parts, injective on the values used.

### ShardStark

Cryptography is symbolic: a commitment names the batch of traces it binds, a
challenge is the transcript it was sampled from, an opened value names its
polynomial and the challenges that polynomial depends on, and the polynomial
commitment scheme accepts exactly what was opened with the same transcript.
What is left is what the code has to get right: what is observed when, by
`setup`, `open`, `verify_shard` and the circuit; the order of the chips; the
shapes of the openings; where a cumulative sum has to be zero; that a
prover clones its challenger for every shard.  A prover may claim other sums
(`OpenClaiming`), and a finished proof may be changed in one place (`Change`).
The `next` row of a chip that looks at one row is not among the places: it is
not opened, and nothing reads it.

### The chips

A chip is the set of results it can receive for given operands: those for which
some assignment of its other columns satisfies all constraints and byte
lookups.  Columns that constraints leave free are quantified.  A byte has
`ByteBits` = 4 bits and a word `WordSize` = 2 of them, with the field's order
2^7 - 2^4 + 1 = 113 in the place of 2^31 - 2^24 + 1, so that the range check, whose
constraints depend on this form, keeps its meaning; memory instructions, SEXT
and WSBH have words of four limbs.  `InstructionChips` runs the executor: a
cycle executes any instruction of its input, `CutShard` ends a shard where
`execute_cycle` may.  `Accepted` is all rows of the CPU chip and the
instruction's chip, with every lookup received by an ALU chip.

A syscall has the code of the program, whose bytes the chips take apart, and
arguments of four limbs.  `ExecuteCall` is what the executor leaves in V0 and in
the registers, `SyscallRows` what `SyscallInstrsChip`, `SyscallChip` and the receiving
chip allow.  The call passes through two rows of `SyscallChip`: in the core shard
(`SyscallBridge`, `SentRows`), where `is_linux` is bound to the code in V0, and in the
shard of the precompiles (`ReceivedRows`), where it is free, so that `SysLinuxChip` or
the chip of the identifier receives the call.  A page is 64 bytes and the largest heap
2^14: a byte and a half, and a quarter of the address space, as in the program.

A precompile is its accesses.  In the executor they are a sequence
(`CreateEcAddEvent`, `FpOp`, ...), and what one finds is what the last one
before it left; in a chip they are a set (`WeierstrassAddChip`, ...), and the
memory argument gives an access the value of the one with the clk before.
`ExecutorEffect` and `ChipEffect` are what comes out: which words go into the
computation, and the records of the memory argument.  What is computed is a function of
the former and stays uninterpreted, so that two effects are equal only if the
chip computes on the words that the executor computed on.  The event's key must be the
one under which the chip looks for it.

### Recursion programs

`RecursionCircuits` says what the recursion programs assert; the modules from
`RecursionDsl` to `RecursionProgram` say whether a program written with the
builder asserts what it seems to.  A circuit is a configuration and a sequence of
calls.  "inner" and "wrap" run on the recursion machine, "outer" becomes a gnark
circuit.  A call pushes operations (`RecursionDsl`, `RecursionGadgets`,
`RecursionFri`), these become instructions (`RecursionCompiler`) or constraints
(`RecursionGnark`), and `RecursionProgram` runs one of them at a time.  Compiling is
done once per circuit: the constant `Compiled(_)` stands for `CodeOf`, and
`CompiledAssumption` checks that it is.  An honest
prover has the runtime's values; any other has whatever the rows
(`RowOuts`) or the constraints (`DefineOuts`) allow, so that hints are free.
At the end the memory lookups must balance (`Balanced`): what each chip sends
and receives, with the multiplicities the compiler counted, for the chips the
machine of the configuration has.

Each call has a meaning on values (`RecursionMeaning`: `MayCall`, what its user
has to see to; `Asserts`; `Returns`), which is the native function's, or the
textbook's.  `MeantIsProvable` and `ProvableIsMeant` compare the two: the
first is completeness, the second soundness of the whole way from a call to the
lookups.  Poseidon2 is computed with its real structure of rounds, by the runtime
and by both chips, with fewer and smaller constants.

### CircuitArtifacts, NetworkProver, ProverClient

An artifact directory is absent, partial or whole.  An installation is four
steps (look, create, download, unpack) with other processes between them and
`Crash` possible at each; a development build replaces the circuit of its
directory with a new key.  `Wrap` proves with the key the process loaded first,
`SelfVerify` is the verification `wrap_*_bn254` unwraps.  A network call
connects, asks, sleeps `PollInterval` and gives up when its timeout is
over; the service answers, fails, breaks the connection, or computes for
ever.  Time is discrete and passes only while a call waits (`Tick`).

## Runs

All bounds are constants of the `.cfg` files.

| Run | Instance | What it shows |
|---|---|---|
| `turn_based_sync` | 3 threads, 5 items, 2 early returns | order, no lost wake-up, refinement, every turn taken |
| `core_proof` | 3 workers, 4 batches, precompile shards across batches, memory packed into the last record or not, all failures, fair | what is delivered is a prefix of the sequential loop's; Ok is always right; nothing is lost; the combined attempt and its fallback; only a failed worker can leave threads waiting, and otherwise the call returns |
| `checkpoint_replay` | all programs of 6 instructions out of 8 or 9, three instruction sets, 10 cycles | replay, memory balance, unconstrained blocks, proofs and hooks, delay slots, recorded shard ends |
| `compress_tree` | 1 to 5 leaves, 2 workers, 2 provers, channels of 1, up to 2 failures | Ok is the complete root; proofs in flight cover the leaves in order; the threads do not stop each other |
| `aggregation` | up to 4 shards, one of which may deviate, 7 lists of deferred proofs, batches of 1 and 2 | what is verified obeys the rules of `verify`; what `verify` accepts is refused by no program; the tree's shape does not matter |
| `shard_stark` | 4 chips, 2 shards, 10 kinds of records per program | honest proofs are accepted, accepted ones balance, changed ones are refused, circuit and verifier agree |
| `instruction_chips` | every opcode and every syscall on edge operands; precompiles on operands that are apart, equal, overlapping and at the last address; programs of 4 cycles | executed is provable, provable is executed, lookups are events, cuts are provable |
| `recursion_program` | some hundred circuits of up to 30 calls, over the field of 5 elements and its quadratic extension | a true circuit is compiled, run and proved; an accepted run means what the circuit says |
| `prover_client` | 2 processes, 3 calls each, timeout 2, three environments | calls end; rejections have a cause |

Why the bounds are enough.  Three workers are the least with which one can
hold the guards, one wait for the record turn and one receive.  Four batches let
a worker come back for a second one and let indices lie two apart.
Thresholds of two give remainders that wait for a later batch, and shards of two codes that
are made at the same time.  `core_proof` is a small program, whose memory may be packed,
because the fallback from a packed record and liveness are what the proofs leave out.
An execution whose memory is packed has no keccak call, no remainder at the end and one
memory chunk; large programs, keccak shards, remainders and several memory chunks are
covered by `LargeProgramsRefine`, `NoEventIsLostHolds`, `OkProofIsAcceptedHolds` and
`ShardsAreWellFormedHolds`, for every execution.  Programs of six instructions over
two words reach: hint, first access and reuse in three different batches; a
block that enters in one shard and is replayed in another executor; a branch
whose delay slot meets the end of a shard.  Five leaves are the least with two
odd layers above each other; two failures are the least after which a sender
can find all its receivers gone.  Four shards have a CPU shard and one without on
both sides of a compression and reach the bound on shard numbers; one
deviation is enough because every rule relates at most two neighbours.  The
operands of the chips are the ends of the signed and unsigned ranges, the order of
the field and the values next to them; a limb of four bits has the same carry
ranges, relative to its base, as one of eight.  Pointers that are a word, a
field element or a point apart, on either side, are all ways in which operands of
one precompile overlap; a sponge of three blocks has a first, a middle and a last one.
Pointers are aligned and outside the registers.  Two processes are the least with which
one uses a directory while the other installs it.  The recursion stack has the field of
2^3 - 2^2 + 1 = 5 elements, so that every value of a witness can be tried: it has KoalaBear's form,
elements that have no canonical bits within `NumBits`, and a two-adicity of 2, which gives FRI
two heights to fold and one to roll in.  `VarOrder` is large enough for numbers of `ReduceBits`
bits and small enough for a quotient to wrap around.

Three more runs are expected to fail.  Each states what a comment
or a document of the repository says and shows how the code differs; `PROJECT.json` quotes
the lines.

| Run | What the code does |
|---|---|
| `unfit_precompile_shard` | the fallback from a combined attempt loses precompile shards and skips shard numbers, with result Ok |
| `commit_across_batches` | a batch that ends between COMMIT and HALT gives shards whose digests do not chain |
| `misrouted_precompile` | `is_linux` of the second `SyscallChip` row is free (`syscall/chip.rs:331`), and `SysLinuxChip` takes an identifier it does not know for a call that does nothing (`sys_linux/air.rs:109`): a precompile call also has rows in which A3 becomes 0 and no word of the call is touched, although `linux-abi.md:268` says that this is prevented |

`ProvableIsExecuted` names the rows of the third one (`Misrouted`) as the only ones that a
precompile call has besides the executor's.

Other behaviours a reader of the code should know, which have no run of their
own:

Pipeline and executor:

* a worker's error (`prove.rs:443`) leaves the others waiting for its trace turn,
  and `prove_with_context` does not return; `HangNeedsFailedWorker` says that this is
  the only way to hang, and `Returns` excepts it;
* the guards of `state` and `deferred` are held after "Let another worker update
  the state." (`prove.rs:347`): traces of two batches are never generated at
  the same time;
* memory events packed into the last record must fit into one chunk
  (`record.rs:203`): `PipelineAssumption` says so;
* hooks of the caller's context are missing in the replay (`executor.rs:386`);
* bytes written to the public values in an unconstrained block persist (`write.rs:57`),
  although `executor.rs:72` says that only the input stream does
  (`BlockIsOneCall` sets both streams aside);
* a sub-word store, or WRITE, on a hinted word that has not been accessed uses 0
  and not the hint (`hint.rs:73`);
* a hint into a word that is already in memory is accepted (`hint.rs:76`), and its
  initialize event then has the hint's value: with `HintTouched = TRUE`,
  `MemoryBalanced` is violated;
* a syscall in the delay slot of a taken branch continues at pc + 4 (`context.rs:39`)
  while the chips continue at the target: `SyscallAfterBranch`. The comment at
  `syscall/instructions/air.rs:51` speaks of a constraint on `next_pc` that is not there.

Compression and verification:

* a compress worker's Err (`lib.rs:752`, `lib.rs:765`) is never read, and the
  turn it did not pass on can leave the others, and the caller, waiting for
  ever; it never leads to Ok (`FailureIsNotOk`);
* `verify` accepts 2^16 shards, the core program wants shard numbers below 2^16
  (`core.rs:505`);
* that digests do not change is asserted between the shards of one batch
  (`core.rs:480`); a proof in the tree keeps only its last shard's, so
  `VerifiedObeysCoreRules` leaves that rule out;
* with `batch_size` above 1, a first layer of one input with several shards is not
  marked complete (`compress` uses 1);
* the circuit does not check the chip ordering itself: `CircuitAgrees` says how far
  the two verifiers may differ.

Chips:

* i32::MIN / -1 panics in the executor (`executor.rs:1925`), the chip wraps;
* jump targets, return addresses and exit codes of at least the field's order, and
  memory accesses below the registers' addresses, are executed and have no proof
  (`Unprovable`);
* bounds are checked after the access (`executor.rs:1963`);
* a jump to 0 is refused by the executor only;
* `SysLinuxChip` tells 0, 1, 2 and 3 apart from other arguments by their value in the
  field (`sys_linux/air.rs:113`), so a0 or a1 of the field's order plus one of these is
  taken for it; `instructions/air.rs:168` calls such a collision impossible
  (`LinuxAlias`);
* a precompile whose operands need a word twice in one cycle runs and has no
  rows (`SameCycle`): SHA_COMPRESS with h inside w, KECCAK_SPONGE with its
  length word inside the input, U256XU2048_MUL with overlapping inputs or outputs;
* the executor ignores the second argument of the curve doublings, whose chip
  wants 0, and runs a sponge without blocks, which has no rows (`NoRowsForCall`);
* pointers past the last address are refused by the chips only (`PastField`), the
  limit of brk and the alignment of pointers by the executor only; the size of a mapping at a
  given address is checked by the executor only (`FreerRows`);
* an unknown syscall is refused by the executor only, and HINT_LEN may return
  any word;
* only the rows of a Keccak sponge that begins with a received call are modelled
  (`KeccakSpongeChip`).  The chip receives a call where `is_first_input_block` is set
  (`keccak_sponge/air.rs:306`), and no constraint sets this flag on the first row
  of the table or on the row behind `write_output`: the table may hold rows of sponges that
  no call asked for.  They belong to no instruction, and no property is about them.

Recursion:

* the felts of `ext2felt` are base elements only if some row reads them as such
  (`compiler/src/circuit/builder.rs:191`); its callers' all are;
* the result of `batch_fri` may be read exactly once (`batch_fri.rs:313`);
* a batch or an exponent of length 0 has an instruction and no rows;
* `add_curve_v2` accepts any sum of two points with the same x: that they differ is
  the callers' obligation (`MayCall`);
* the outer `exp_reverse_bits` overwrites the Felt it is given (`circuit/src/lib.rs:470`);
* 0/0 is any value in the machine and unsatisfiable in gnark;
* the outer `num2bits` gives the low bits where the inner one asserts that there are no
  others;
* in development mode every Groth16 proof rebuilds the artifacts (`build.go:236`) while
  the process keeps the circuit and key it read first (`prove.go:115`, `:131`): its second
  proof fails the verification that `wrap_groth16_bn254` unwraps (`SelfVerify` panics).

SDK:

* an existing directory counts as installed (`install.rs:51`) although it is created
  before the download (`:85`) and the exit status of tar is ignored: a crash
  leaves a directory that no later call repairs (a cause in `RejectionHasACause`);
* the Plonk directory is shared by both modes (`install.rs:35`, `:88`);
* `prove_impl` does not pass on the caller's timeout (`network/prover.rs:322`,
  `action.rs:223`), so such a call may wait for ever: `Endless` in `CallsEnd`;
* one failed `get_status` ends the wait (`network/prover.rs:204`);
* the mock prover uses the plain vk hash in imm mode;
* `verify` panics for DvSnark (`mod.rs:214`).

The passing runs of `CheckpointReplay` contain neither hints into touched words
nor custom hooks, and `core_proof` does not let precompile shapes fail,
because of these.

## Fairness

`TurnBasedSync!FairSpec`: weak fairness of each thread's step; early returns
are never obliged.  The mutex is held for a bounded number of steps, and in
this model no thread can be overtaken for ever because items are finite.
`ProvePipeline!FairSpec`: weak fairness of the generator, of each worker, of
the prover and of the return.  Only one worker waits for a given turn and only
the owner of the record turn asks for the mutexes, so that nobody competes
for a resource and strong fairness is not needed.  Failures are never
obliged.  `CompressTree!FairSpec` is the same for its threads and main: only
the owner of a turn waits for room, and it does not matter which thread
receives an item.  `ProverClient!Spec`: weak fairness of each process's own step
and of time.  That the service answers a request or the connection breaks is
an assumption about the environment: the client sets no timeout on a single
request.  A job need never end.

## Proofs

All theorems hold for every value of the constants that satisfies the named
assumptions.

`TurnBasedSyncProofs` (`IInv`): the holder of the mutex is exactly the thread
between an acquisition and a release; items in progress were handed out, are
different and not over; a thread in its ordered part has the turn; nobody
asleep has a turn that has come.  From these follow `NoWakeupIsLost`,
`PartsAreOrdered`, `TypeCorrect` and `Refinement`.

`CoreProofProofs`, first part (`IInv`, about `ProvePipeline` alone): that a guard holder never waits for its trace
turn is not inductive.  It needs

* `Tickets`: checkpoints in the channel are consecutive, and workers hold
  different batches below the first of them;
* `Guards`: the two mutexes are held exactly in the critical section;
* `RecordTurns`: where the record turn stands relative to the batch in the
  critical section. After a combined attempt that fell back it is one ahead,
  which is harmless because only the last batch is combined and no batch has
  that index;
* `Lockstep`: as long as no worker has failed, the batch in the critical
  section is the one whose trace turn it is, and when nobody is in it the two
  turns agree.

The argument: a worker enters with the record turn when the mutex is free, so
that nobody is at work and both turns are its own; the trace turn moves only
when it leaves.  The data operators (`Split`, `NumberCpuRecords`, ...) stay
unexpanded.

`CoreProofProofs`, second part: the threads implement the loop of `SequentialProve`
(`ImplementsSequential`).  `RefinesLoop` is the general statement; its hypothesis
`NeverFallsBack` excludes the runs in which the shapes of a combined attempt do not
fit.  There the code splits a second time what it has already split, and with
precompile shards that is not what the loop does: it is the finding of
`unfit_precompile_shard`, not a gap of the proof.  `LargeProgramsRefine`
(2^21 cycles or more) and
`FittingShapesRefine` (every record has a shape) have no such hypothesis.
`OkProvesLoop` adds that the chunks proved when the call returns Ok are those
shards, with nothing left in a channel or with a worker.  The invariant `LInv`,
besides `IInv` above:

* `Control`: after a failure nobody is left that could take the trace turn
  (`Blocked`), before one no batch is skipped (`Taken`), at most one worker has
  chunks to send (`OneSender`), and why a thread has ended (`Endings`);
* `SentLists`, `Fresh`: what the channels and the workers hold;
* `AsLoop`: as long as nothing has failed, the shared public values, the shared
  deferred events and the shards that are out are those of the loop after as many
  batches as there were trace turns, or, at each stage of the batch in progress,
  those from which the rest of the iteration gives an outcome of the loop.

`WaitForTraceTurn` is the step that delivers a batch; `Return` succeeds or fails;
every other step leaves what the loop sees unchanged.  Beneath this are lemmas on
data: chunks put together again are the list they were cut from, `split` and the
numbering return sequences whose lengths agree, and the recursive definition of
`Outcomes` has a solution.

`EveryEventIsProved` goes on from `OkProvesLoop` to `NoEventIsLost`, and
`NoEventIsLostHolds` states it without the hypothesis for programs of at least 2^21
cycles and for programs whose records all have a shape.  What is left is a fact about
the loop alone: `Kept(o, n)` holds of every outcome `o` of `n` batches.  It says

* of each syscall code (`KeepsCode`), that its events in the shards, followed by those
  still deferred, are those of the first `n` batches, in order, and that nothing is
  deferred after the last batch;
* of the memory events (`KeepsMemory`), that before the last batch all of them are
  deferred and none is in a shard, and that after it the shards have them all, sorted.

An iteration preserves it (`BatchKeeps`) because deferring moves the events out of the CPU
shards (`CpuSilent`, `DeferKeeps`), numbering changes only public values
(`NumberCpuKeeps`, `NumberDeferredKeeps`), and `split` gives out or keeps everything it
was given (`SplitKeeps`): the exact chunks of `chunks_exact` and their remainder, the
keccak shards cut by blocks (`KeccakType`), the memory chunks zipped to the longer of
the two lists (`PaddedFlatten`), and those packed into the last record (`PackMemoryPart`).

`CoreProofAccepts` goes on from `OkProvesLoop` to the verifier.  `ProofIsAccepted` says
`OkProofIsAccepted` of every run that does not fall back, `OkProofIsAcceptedHolds` of all
runs of the two settings above.  The hypotheses are what the executor gives
(`WellExecuted`: CPU shards that are numbered from 1, start where the one before
stopped, and keep a digest that is not zero), a program that is not too long
(`FewShards`) and a CPU chip that is not too high; TLC evaluates all three for the
executions of the runs (`ExecutionAssumption` of `MCCoreProof`).  Of the model of the executor,
`ShardsChainHolds` (below) proves the numbers and the program counters.  That digests stay is what
`commit_across_batches` refutes of the executor for some programs: the theorem is about the
others.  The argument is again one about the loop: `Accepted(o, n)` says that the shards of
`n` batches are a chain from the entry point (`Chain`, `Linked`: one rule of
`ShardVerifier` each), that as many CPU shards as the execution had so far are among
them (`CpuNumbered`), that the shared public values are those the next shard must
continue (`Ready`), and that memory addresses move only at the end (`NoAddress`).  Numbering
makes CPU records such a chain, and `split` with the numbering of deferred records
continues it: through the precompile shards, whose bits repeat, and the memory
chunks, whose bits are those of their last events, or of the chunk before when
one side has run out.

`ShardsAreWellFormedHolds` needs none of these hypotheses: it is about every record that
is sent, also in a run that falls back or fails later.  Its invariant `WInv` follows what
a worker holds at each label (`Held`: a numbered batch, a batch without deferred events, shards
that are fine), what is shared (`SharedFine`) and what is sent (`SentFine`).

`CheckpointReplayProofs`: programs of any length over the model's instructions, any memory
image, input, hooks and options, any limit on the cycles.  That accesses move forward is a
statement about records that are already closed; the invariant (`ReplayInv`) says of the
executors that are still at work, between two turns of the loop (`ExecInv`), that

* they have their types, and only hinted words are marked as hinted, so that a
  checkpoint's selection of them is defined (`Typed`);
* the checkpoint of the batch has everything that has changed since the batch began, and
  its entries are older than the beginning (`Recorded`);
* every memory record and the start of every open local event is older than the clock
  (`Bounded`).  Within a cycle the bound is the position the instruction has reached,
  for the locations it has touched, and the cycle's clock for the others: this is where
  the order of the access positions in `MemoryAccessPosition` is used;
* in an unconstrained block the same holds of what EXIT_UNCONSTRAINED would restore
  (`Back`), since the block's own writes may be undone at any moment.

Each instruction and syscall keeps `Fit`, the conjunction of these (`OperationSound`, from
`AccessFit`, `SyscallWriteFit`, `RetireFit` for the single accesses); so do the end of a cycle
and of a shard (`TurnSound`), which need that a shard is cut only outside of blocks.  A
recovered executor starts from the checkpoint alone (`RecoverSound`), whose records are
those from before the batch whatever the batch did to them (`OldMemory`, `OldHints`).

`BlockIsOneCallHolds` needs a second invariant, `BlockInv`: in a block, what
EXIT_UNCONSTRAINED would restore is the executor that entered, but for
`VolatileFields`, the streams and the checkpoint's maps.  `OperationBlock` shows that
ENTER alone begins a block and EXIT alone ends one, `BlockStep` that everything in between
leaves what would be restored alone.  The turn that ends the block is then compared with that of
the single call: the `...Agrees` lemmas show that an access, the end of a cycle and the cut of a
shard do the same in two executors that differ in those fields only.  Both theorems hold of the
generator and of the replay.

`ReplayMatchesHolds` compares the two.  The replay of a batch begins when the generator has
finished it, so that the invariant (`MatchInv`) has to speak of states the generator has left:
it says that there is a `Trail`, the states of the generator from the beginning of the
batch to its end, each one turn after the other, and that the replay is where one of
them was (`Follows`).  What the two have in common is `Sim`: program counter, clocks, shard,
streams, status, the kind of block they are in and what its end restores, and memory and
hints at the words the checkpoint knows (`KnownWords`, `KnownHints`).  Three facts make a turn
of the replay lead to the next state of the trail (`TrailReplay`, `TurnSim`):

* a turn looks only at words that it enters into the checkpoint, and what is once there stays
  there with what the batch found (`Extends`); so the checkpoint at the end knows all that
  any turn reads (`WithinBefore`), and the `...Steps` lemmas show for each
  instruction and syscall that both executors then do the same;
* the generator's clock never goes back within a shard and it adds a boundary only where it
  cuts (`Ahead`); so the replay, which compares its clock with the boundaries of the
  finished batch, cuts at the same turns (`Cuts`);
* the executor that `Recover` makes is where the generator was when it began
  (`RecoverSim`), both when the checkpoint is what the batch looked at and when it is the
  last one and is the memory with what the batch did undone (`CheckpointMaps`).

The theorem assumes `OnlyDefaultHooks`, that an instruction calls a hook of the context only if
`Executor::recover` installs it too; without it the code's replay fails, as the list of
deviations says.  It does not need that hints go to untouched words only: such a hint unbalances
the memory argument in both executors alike.

`ShardsChainHolds` rests on it.  Within a batch (`Chain`), a turn of the replay adds to the
open record an event from where the program was to where it is, or is in an unconstrained
block and adds nothing (`Traces`); EXIT_UNCONSTRAINED continues the record that
ENTER_UNCONSTRAINED put aside (`OuterPc`, `OuterCpu`), so that a closed record always begins
where the one before ends (`TurnChain`).  Between batches (`ChainInv`), `execute_record`
numbers its shards from the shard of the checkpoint, which the generator has counted: that
the two counts agree is `ReplayMatches`, and so is that the next batch begins where this
replay ended.

`AggregationProofs`: core proofs with any number of shards, of which any number deviates, any
batch size, deferred proofs that are acceptable or not, and neighbours compressed in
any order.  The invariant (`TreeInvariant`) says that the proofs still to be compressed
divide the shards and the deferred proofs among them, in order (`Divides`), and that
the public values of each are those of its range (`Covers`).  What is added up is said without
the tree: the sum of a range is a difference of two totals (`TotalTo`), the
deferred digest is that of a prefix (`DigestTo`), execution shards are counts of CPU
shards (`CpuUpTo`, `Executes`).  The first layer divides because its batches do
(`FirstLayerDivides`, `Cutting`), and compressing joins two ranges (`Merge`).

* `VerifiedObeysCoreRulesHolds` (soundness): at the root the range is everything and
  `assert_complete` closes it at both ends (`CompleteProof`).
* `AcceptedIsNeverRefusedHolds` (completeness) has a second invariant
  (`AcceptedInvariant`): for a core proof that `verify` accepts no program has refused
  its input and every proof is the prover's own.  Each program is shown to accept
  (`GoodLayer`, `GoodCompress`, `GoodRoot`); the digests need that one which is not zero stays
  over a whole range (`DigestsStay`).
* `OnlyNeighboursCompressHolds`: ranges move forward (`Forward`), so that two proofs that
  meet in shard number and deferred digest are neighbours.
* `AggregateIsBatchHolds`: the range of a proof determines its values
  (`CoversDetermines`), and the core program's output on the whole range has that range.

The last two need that the hash chain over the deferred proofs never repeats a digest
(`DigestsDiffer`), as a collision-resistant hash gives; the first two do not use it.

`ProverClientProofs` (`ClientInv`): what is known of a proof of the local prover from the
check of its digest on (`ProofsAreSound`), what a call about artifacts holds (`AtWork`), and
that a release directory of Groth16 never holds a circuit of the other mode or of another
setup (`ReleaseDirs`).  `RejectionsHaveCauses` follows for any processes that
install, build, prove, verify and crash.

`CompressTreeProofs`: the invariant (`CompressInvariant`) says that there is a
table `f` of all inputs of the tree by index, such that

* each channel holds, in order, the entries between the number of items received
  from it and the number sent (`Contents`), and every item between two channels is
  held by exactly one thread (`Crew`, `Inputs`, `Taken`);
* within a layer each entry takes up where the one before it ends, and a layer
  goes from the first shard to the last deferred proof (`Table`);
* the entries whose proofs are not used yet are the rest of one layer and the
  beginning of the next, and their number determines the height at which the root
  comes (`Layers`, with the lemmas on `Halvings`);
* nobody stops before the threads that send to it unless something fails
  (`Healthy`), and what main has joined (`Main`).

From it follow `OkIsComplete`, `FailureIsFatal`, `HealthyRunsAccept` and
`NothingIsLost`.

The provers cannot instantiate the library's induction theorems.  Induction over
numbers is done with sets instead: a set of naturals that is not empty has a least
element (`LeastNumber`, from `WFMin`), so that the set of counterexamples is empty.
That is how `Halvings`, `Outcomes`, `FlattenSeq`, the loops of `RecordSplit` and
`ProvePipeline`, and the sums and hash chains of `RecursionCircuits`, all recursive functions,
are reasoned about.

Assumptions.  Apart from the named hypotheses above, the proofs assume only the `ASSUME`s of
the modules, which TLC
evaluates in the runs: thresholds and capacities are positive, the syscall codes are
finitely many, `Batches` is a list of lists of records of which the last is not empty
(the executor pushes the record it is filling when the program ends), an instruction names an
address of the model or a place in the program (`Instruction`), `None` is neither a memory
record nor an instruction, and there is at
least one worker (with none, the generator could fill the channel, the prover thread would end
and the call would return an empty proof; `trace_gen_workers` is 1 by default and
nothing rejects 0).

Only model-checked:

* liveness (`Returns`, `AllTurnsTaken`, `Terminates`, `CallsEnd`) and
  `HangNeedsFailedWorker`, which uses ENABLED;
* the refinement when a combined attempt falls back with only memory events, which needs
  that sorting twice is sorting once;
* of `CheckpointReplay`, `MemoryBalanced`, which counts the local events of all shards;
* `ShardStark` (`HonestIsAccepted`, `AcceptedIsBalanced`, `ChangedIsRefused`, `CircuitAgrees`);
* the chips: `AluChips` uses `Bitwise`, and their soundness quantifies over the values of
  columns of a small field;
* the recursion stack, whose modules use RECURSIVE operators.

## Not modelled

Polynomials and the FRI prover; hashes other than Poseidon2, curves and pairings; the memory tables' and the global
lookups' chips, whose constraints need the full field; the
standalone verifier; the guest
runtime; the CLI, build and analysis tools.  Inside the modelled parts: reports,
`debug` features, what the precompiles compute, points that cannot be decompressed, EXIT_UNCONSTRAINED
outside of a block, the digest a COMMIT is compared with, the search of
shape fixing (its outcome is in `ProvePipeline`), the multi-field challenger of the outer circuit, the
evaluation of a chip's constraints (an argument of `verify_constraints`), the recursion
compiler's printing and cycle tracking, the caches of programs and keys,
padding rows, and timestamps other than those of the precompiles, DvSnark, and the CUDA prover, which
differs from the local one in who computes.

The repository has about 108000 lines, most of them chips over the full field, the
compilers and arithmetic libraries; the modules map those in which state, order or
agreement between parts can go wrong.

## Plan

What is worth doing next:

1. `MemoryBalanced` for every program without hints into touched words: the local events
   of a word, over all shards, follow each other from its first record to its last.
2. The transcript of `ShardStark` for any number of chips and shards (`HonestIsAccepted`).
3. The guest's allocators on brk and mmap; the search of shape fixing; the
   memory tables; the outer circuit's multi-field challenger.
