------------------------------ MODULE Executor ------------------------------
(***************************************************************************)
(* The executor of core/executor/src/executor.rs, as operators on a record *)
(* ex that holds the fields of Executor and of its ExecutionState that     *)
(* decide what is executed, checkpointed and traced:                       *)
(*                                                                         *)
(*   pc, next_pc, clk, global_clk, current_shard, exited,                  *)
(*   next_is_delayslot, records_clk, records_clk_index                     *)
(*   memory                 addr |-> [value, shard, timestamp]             *)
(*   uninitialized_memory   addr |-> the word a hint put there             *)
(*   input_stream, input_stream_ptr, public_values_stream                  *)
(*   memory_checkpoint      addr |-> what memory held before the batch     *)
(*   uninitialized_memory_checkpoint  addr |-> was it there before?        *)
(*   mode, unconstrained, fork (unconstrained_state), local_mem (counts),  *)
(*   local_memory_access, record, records, hooks, digest, deferred_digest  *)
(*   proof_stream, proof_stream_ptr, verify_deferred                       *)
(*                          (deferred_proof_verification is enabled)       *)
(*   status: "run", "done" or "err"; emit: emit_global_memory_events       *)
(*   opts: shard_clk (shard_size - max_syscall_cycles), shard_batch_size,  *)
(*   max_local_mem (local memory events that fit the largest shape)        *)
(*                                                                         *)
(* Registers and memory words share one address space here; Registers says *)
(* which is which.  A word is two bits, so that a sub-word store has       *)
(* something to keep.  Program counters count instructions from 1; 0 is    *)
(* where HALT jumps to.  An instruction names its memory operand; reading  *)
(* base registers, and the second argument of a syscall, are left out, as  *)
(* one register read is like another.                                      *)
(***************************************************************************)
EXTENDS Naturals, Sequences, FiniteSets, Functions

CONSTANTS
    R, V0,              \* the general register and the syscall register
    Addrs,              \* word addresses
    None,               \* Option::None
    Image,              \* program.image: address |-> word
    ProgramLength,      \* program.instructions.len()
    ShapeCheckFrequency,
    MaxCycles,          \* max_cycles
    DefaultHooks,       \* file descriptors of the default registry
    ContextHooks        \* those of the registry in the ZKMContext

Registers == {R, V0}
Word == 0 .. 3

ASSUME ExecutorAssumption ==
    /\ R # V0 /\ Registers \cap Addrs = {}
    /\ \A a \in DOMAIN Image : a \in Addrs /\ Image[a] \in Word
    /\ ProgramLength \in Nat \ {0} /\ MaxCycles \in Nat
    /\ ShapeCheckFrequency \in Nat \ {0}
    /\ DefaultHooks \subseteq ContextHooks
    /\ None \notin [value : Nat, shard : Nat, timestamp : Nat]

\* The instructions by the operands they name.
AddressOps == {"LW", "SW", "SB", "VERIFY", "WRITE_HINT", "WRITE_PV", "WRITE_HOOK", "HINT_READ",
               "PRECOMPILE"}
OtherOps == {"ADDI", "HALT", "COMMIT", "COMMIT_DEFERRED", "HINT_LEN", "ENTER", "EXIT"}

Instruction(i) == \/ i.op \in OtherOps
                  \/ i.op \in AddressOps /\ i.addr \in Addrs
                  \/ i.op = "BLEZ" /\ i.target \in Nat

\* MemoryAccessPosition
PosMemory == 0
PosC == 1
PosB == 2
PosA == 3

Empty == [a \in {} |-> None]
NoFork == [global_clk |-> 0, clk |-> 0, pc |-> 0, memory_diff |-> Empty,
           mode |-> "Simple", record |-> None]

\* A record: [pc, next_pc] of its CPU events and the local memory events.
NewExecRecord == [cpu |-> <<>>, local |-> {}]

\* Executor::with_context on a new state: nothing has been executed yet.
NewExecutor(hooks, opts) ==
    [opts |-> opts, pc |-> 1, next_pc |-> 2, clk |-> 0, global_clk |-> 0, current_shard |-> 1,
     exited |-> FALSE, next_is_delayslot |-> FALSE,
     records_clk |-> <<>>, records_clk_index |-> 0,
     memory |-> Empty, uninitialized_memory |-> Empty,
     input_stream |-> <<>>, input_stream_ptr |-> 0, public_values_stream |-> <<>>,
     memory_checkpoint |-> Empty, uninitialized_memory_checkpoint |-> Empty,
     mode |-> "Trace", unconstrained |-> FALSE, fork |-> NoFork, local_mem |-> 0,
     local_memory_access |-> Empty, record |-> NewExecRecord, records |-> <<>>,
     proof_stream |-> <<>>, proof_stream_ptr |-> 0, verify_deferred |-> TRUE,
     hooks |-> hooks, digest |-> 0, deferred_digest |-> 0, status |-> "run", emit |-> FALSE]

\* hash_map.entry(k).or_insert(v)
OrInsert(m, k, v) ==
    IF k \in DOMAIN m THEN m ELSE [x \in DOMAIN m \cup {k} |-> IF x = k THEN v ELSE m[x]]
\* hash_map.insert(k, v)
Insert(m, k, v) == [x \in DOMAIN m \cup {k} |-> IF x = k THEN v ELSE m[x]]
RemoveKey(m, k) == Restrict(m, DOMAIN m \ {k})
Get(m, k) == IF k \in DOMAIN m THEN m[k] ELSE None

-----------------------------------------------------------------------------
(* Memory. *)

\* What an address not yet in memory holds: the hinted word, or 0.
InitialValue(ex, a) ==
    IF a \in DOMAIN ex.uninitialized_memory THEN ex.uninitialized_memory[a] ELSE 0

\* The memory record of an address, initialized on the first access.
RecordOf(ex, a) ==
    IF a \in DOMAIN ex.memory THEN ex.memory[a]
    ELSE [value |-> InitialValue(ex, a), shard |-> 0, timestamp |-> 0]

\* Mutant of Peek: what unconstrained code looks at is not in the checkpoint.
BugForgetUnconstrained(ex, a) ==
    IF ex.mode = "Checkpoint"
    THEN [ex EXCEPT !.memory_checkpoint = OrInsert(@, a, Get(ex.memory, a))]
    ELSE ex

\* register(), word() and the first lines of every access: remember what the
\* batch started from.
Peek(ex, a) ==
    IF ex.mode = "Checkpoint" \/ ex.unconstrained
    THEN [ex EXCEPT !.memory_checkpoint = OrInsert(@, a, Get(ex.memory, a))]
    ELSE ex

\* register(), word(): an address not in memory reads as 0.
PeekValue(ex, a) == IF a \in DOMAIN ex.memory THEN ex.memory[a].value ELSE 0

\* Mutant of SaveDiff: the diff keeps the latest value, not the first.
BugOverwriteDiff(ex, a) ==
    IF ex.unconstrained
    THEN [ex EXCEPT !.fork.memory_diff = Insert(@, a, Get(ex.memory, a))]
    ELSE ex

\* What EXIT_UNCONSTRAINED will restore.
SaveDiff(ex, a) ==
    IF ex.unconstrained
    THEN [ex EXCEPT !.fork.memory_diff = OrInsert(@, a, Get(ex.memory, a))]
    ELSE ex

\* On the first access: does the word come from a hint?
MarkUninitialized(ex, a) ==
    IF a \in DOMAIN ex.memory THEN ex
    ELSE [ex EXCEPT !.uninitialized_memory_checkpoint =
                        OrInsert(@, a, InitialValue(ex, a) # 0)]

\* The local memory event of an access goes into map lm.
LocalEvent(lm, a, prev, new) ==
    IF a \in DOMAIN lm
    THEN [lm EXCEPT ![a].final = new]
    ELSE Insert(lm, a, [addr |-> a, initial |-> prev, final |-> new])

\* Only accesses to memory are counted, when a shard touches a word for the
\* first time or a syscall accesses it.
CountLocal(ex, a, inSyscall) ==
    IF ~ex.unconstrained /\ a \in Addrs
       /\ (RecordOf(ex, a).shard # ex.current_shard \/ inSyscall)
    THEN [ex EXCEPT !.local_mem = @ + 1] ELSE ex

\* The part mr, rr, rr_traced, mw, rw and rw_traced have in common: set word a to
\* v at time ts.
Touch(ex, a, v, ts, inSyscall) ==
    LET e == CountLocal(MarkUninitialized(SaveDiff(Peek(ex, a), a), a), a, inSyscall)
    IN [e EXCEPT !.memory = Insert(@, a, [value |-> v, shard |-> ex.current_shard,
                                          timestamp |-> ts])]

Tracing(ex) == ex.mode = "Trace" /\ ~ex.unconstrained

\* The local memory event of the CPU's access to a that led from ex to e.
WithLocalEvent(ex, e, a) ==
    IF Tracing(ex)
    THEN [e EXCEPT !.local_memory_access =
                       LocalEvent(@, a, RecordOf(ex, a), e.memory[a])]
    ELSE e

\* An access by the CPU.
Access(ex, a, v, pos) == WithLocalEvent(ex, Touch(ex, a, v, ex.clk + pos, FALSE), a)

Read(ex, a, pos) == Access(ex, a, RecordOf(ex, a).value, pos)
Write(ex, a, v, pos) == Access(ex, a, v, pos)

\* Mutant of WithSyscallEvent: the CPU's own event of the word is not closed.
BugKeepCpuEvent(ex, e, a) ==
    LET event == [addr |-> a, initial |-> RecordOf(ex, a), final |-> e.memory[a]]
    IN IF Tracing(ex) THEN [e EXCEPT !.record.local = @ \cup {event}] ELSE e

\* SyscallContext::postprocess after an access to a that led from ex to e: the
\* CPU's event of that word ends, and the precompile has an event of its own.
WithSyscallEvent(ex, e, a) ==
    LET event == [addr |-> a, initial |-> RecordOf(ex, a), final |-> e.memory[a]]
        cpu == {ex.local_memory_access[b] : b \in {a} \cap DOMAIN ex.local_memory_access}
    IN IF Tracing(ex)
       THEN [e EXCEPT !.record.local = @ \cup cpu \cup {event},
                      !.local_memory_access = RemoveKey(@, a)]
       ELSE e

\* A precompile's access to one word.
SyscallWrite(ex, a, v) == WithSyscallEvent(ex, Touch(ex, a, v, ex.clk, TRUE), a)

-----------------------------------------------------------------------------
(* Instructions.  Each operator returns ex with the operands accessed, the    *)
(* effect made and next_pc, next_next_pc decided; Retire does the rest.       *)

Err(ex) == [ex EXCEPT !.status = "err"]

\* Mutant of Retire: the event has the successor of pc as its next_pc.
BugEventNextPc(ex, pc, next, nextNext) ==
    LET e == IF ex.mode = "Trace"
             THEN [ex EXCEPT !.record.cpu = Append(@, [pc |-> pc, next_pc |-> pc + 1])]
             ELSE ex
    IN [e EXCEPT !.pc = next, !.next_pc = nextNext, !.clk = @ + 5]

\* The CPU event, in Trace mode, then the program counters and the clock.
Retire(ex, pc, next, nextNext) ==
    LET e == IF ex.mode = "Trace"
             THEN [ex EXCEPT !.record.cpu = Append(@, [pc |-> pc, next_pc |-> next])]
             ELSE ex
    IN [e EXCEPT !.pc = next, !.next_pc = nextNext, !.clk = @ + 5]

Sequential(ex) == Retire(ex, ex.pc, ex.next_pc, ex.next_pc + 1)

ADDI(ex) ==
    Sequential(Write(Read(ex, R, PosB), R, (RecordOf(ex, R).value + 1) % 4, PosA))

LW(ex, a) ==
    Sequential(Write(Read(Peek(ex, R), a, PosMemory), R, RecordOf(ex, a).value, PosA))

\* Every store looks at the old word with word() before it writes.
SW(ex, a) ==
    Sequential(Write(Peek(Read(ex, R, PosA), a), a, RecordOf(ex, R).value, PosMemory))

\* A sub-word store keeps the other bits of word().
SB(ex, a) ==
    Sequential(Write(Peek(Read(ex, R, PosA), a), a,
                     2 * (PeekValue(ex, a) \div 2) + (RecordOf(ex, R).value % 2),
                     PosMemory))

\* BLEZ $v0: taken when it is 0; the next instruction is the delay slot.
BLEZ(ex, target) ==
    Retire([Read(ex, V0, PosA) EXCEPT !.next_is_delayslot = TRUE], ex.pc, ex.next_pc,
           IF RecordOf(ex, V0).value = 0 THEN target ELSE ex.next_pc + 1)

-----------------------------------------------------------------------------
(* Syscalls: [ex |-> the executor afterwards, ret |-> the returned word or    *)
(* None, next |-> the next program counter, cycles |-> num_extra_cycles].     *)

Ret(ex, ret) == [ex |-> ex, ret |-> ret, next |-> ex.pc + 1, cycles |-> 0]

\* HALT with exit code 0; any other code is an execution error.
HALT(ex) == [Ret([ex EXCEPT !.exited = TRUE], None) EXCEPT !.next = 0]

\* The first word of a committed digest; 0 is never the digest of anything.
COMMIT(ex, word) == Ret([ex EXCEPT !.digest = word], None)

COMMIT_DEFERRED_PROOFS(ex, word) == Ret([ex EXCEPT !.deferred_digest = word], None)

\* VERIFY_ZKM_PROOF of what the word at a says about the next proof of the stream: the
\* proof is about one word. A missing proof is a panic.
VERIFY_ZKM_PROOF(ex, a) ==
    LET index == ex.proof_stream_ptr + 1
    IN IF ~ex.verify_deferred THEN Ret(ex, None)
       ELSE IF \/ index > Len(ex.proof_stream)
               \/ ex.proof_stream[index] # PeekValue(ex, a) THEN Ret(Err(ex), None)
       ELSE Ret([Peek(ex, a) EXCEPT !.proof_stream_ptr = index], None)

\* WRITE, by file descriptor: the bytes are read with word().
WRITE_HINT(ex, a) ==
    LET e == Peek(ex, a)
    IN Ret([e EXCEPT !.input_stream = Append(@, PeekValue(ex, a))], None)

WRITE_PUBLIC_VALUES(ex, a) ==
    LET e == Peek(ex, a)
    IN Ret([e EXCEPT !.public_values_stream = Append(@, PeekValue(ex, a))], None)

\* A hook's answer is put where the next HINT_READ reads; a descriptor without a
\* hook is ignored with a warning.
WRITE_HOOK(ex, a, fd) ==
    LET e == Peek(ex, a)
        n == ex.input_stream_ptr
    IN Ret(IF fd \in ex.hooks
           THEN [e EXCEPT !.input_stream = SubSeq(@, 1, n) \o <<3>>
                                           \o SubSeq(@, n + 1, Len(@))]
           ELSE e, None)

\* The length of the next hint, which is one word.
HINT_LEN(ex) ==
    IF ex.input_stream_ptr >= Len(ex.input_stream) THEN Ret(Err(ex), None) ELSE Ret(ex, 1)

HINT_READ(ex, a) ==
    LET word == ex.input_stream[ex.input_stream_ptr + 1]
    IN IF \/ ex.input_stream_ptr >= Len(ex.input_stream)
          \/ a \in DOMAIN ex.uninitialized_memory
       THEN Ret(Err(ex), None)
       ELSE Ret([ex EXCEPT
                   !.input_stream_ptr = @ + 1,
                   !.uninitialized_memory_checkpoint = OrInsert(@, a, FALSE),
                   !.uninitialized_memory = Insert(@, a, word)], None)

\* A precompile that replaces one word, and takes an extra cycle.
PRECOMPILE(ex, a) ==
    [Ret(SyscallWrite(ex, a, (RecordOf(ex, a).value + 1) % 4), None)
        EXCEPT !.cycles = 1]

ENTER_UNCONSTRAINED(ex) ==
    Ret([ex EXCEPT
           !.unconstrained = TRUE,
           !.fork = [global_clk |-> ex.global_clk, clk |-> ex.clk, pc |-> ex.pc,
                     memory_diff |-> Empty, mode |-> ex.mode, record |-> ex.record],
           !.record = NewExecRecord,
           !.mode = "Simple"], 1)

\* memory_diff.drain(): insert what was there, remove what was not.
Restore(memory, diff) ==
    LET added == {a \in DOMAIN diff : diff[a] = None}
    IN [a \in (DOMAIN memory \cup DOMAIN diff) \ added |->
           IF a \in DOMAIN diff THEN diff[a] ELSE memory[a]]

\* Mutant of EXIT_UNCONSTRAINED: the clock is not set back.
BugKeepClk(ex) ==
    IF ~ex.unconstrained THEN Ret([ex EXCEPT !.fork = NoFork], 0)
    ELSE [ex |-> [ex EXCEPT
                    !.global_clk = ex.fork.global_clk, !.pc = ex.fork.pc,
                    !.memory = Restore(@, ex.fork.memory_diff),
                    !.record = ex.fork.record, !.mode = ex.fork.mode,
                    !.unconstrained = FALSE, !.fork = NoFork],
          ret |-> 0, next |-> ex.fork.pc + 1, cycles |-> 0]

EXIT_UNCONSTRAINED(ex) ==
    IF ~ex.unconstrained THEN Ret([ex EXCEPT !.fork = NoFork], 0)
    ELSE [ex |-> [ex EXCEPT
                    !.global_clk = ex.fork.global_clk, !.clk = ex.fork.clk,
                    !.pc = ex.fork.pc,
                    !.memory = Restore(@, ex.fork.memory_diff),
                    !.record = ex.fork.record, !.mode = ex.fork.mode,
                    !.unconstrained = FALSE, !.fork = NoFork],
          ret |-> 0, next |-> ex.fork.pc + 1, cycles |-> 0]

\* The word $v0 keeps when a syscall returns nothing: its own code.
SyscallId == 2

Syscall(ex, i) ==
    CASE i.op = "HALT"       -> HALT(ex)
      [] i.op = "COMMIT"     -> COMMIT(ex, ex.memory[R].value)
      [] i.op = "COMMIT_DEFERRED" -> COMMIT_DEFERRED_PROOFS(ex, ex.memory[R].value)
      [] i.op = "VERIFY"     -> VERIFY_ZKM_PROOF(ex, i.addr)
      [] i.op = "HINT_LEN"   -> HINT_LEN(ex)
      [] i.op = "WRITE_HINT" -> WRITE_HINT(ex, i.addr)
      [] i.op = "WRITE_PV"   -> WRITE_PUBLIC_VALUES(ex, i.addr)
      [] i.op = "WRITE_HOOK" -> WRITE_HOOK(ex, i.addr, i.fd)
      [] i.op = "HINT_READ"  -> HINT_READ(ex, i.addr)
      [] i.op = "PRECOMPILE" -> PRECOMPILE(ex, i.addr)
      [] i.op = "ENTER"      -> ENTER_UNCONSTRAINED(ex)
      [] i.op = "EXIT"       -> EXIT_UNCONSTRAINED(ex)

AllowedUnconstrained == {"EXIT", "WRITE_HINT", "WRITE_PV", "WRITE_HOOK"}

\* After the effect of a syscall $v0 is written, in the mode the syscall leaves.
EndSyscall(s) ==
    LET v0 == IF s.ret = None THEN SyscallId ELSE s.ret
    IN IF s.ex.status = "err" THEN s.ex
       ELSE Retire([Write(s.ex, V0, v0, PosA) EXCEPT !.clk = @ + s.cycles],
                   s.ex.pc, s.next, s.next + 1)

\* The SYSCALL branch of execute_operation.
SYSCALL(ex, i) ==
    IF ex.unconstrained /\ i.op \notin AllowedUnconstrained THEN Err(ex)
    ELSE EndSyscall(Syscall(Read(Peek(ex, V0), R, PosB), i))

\* execute_operation
ExecuteOperation(ex, i) ==
    LET e == [ex EXCEPT !.next_is_delayslot = FALSE]
    IN CASE i.op = "ADDI" -> ADDI(e)
         [] i.op = "LW"   -> LW(e, i.addr)
         [] i.op = "SW"   -> SW(e, i.addr)
         [] i.op = "SB"   -> SB(e, i.addr)
         [] i.op = "BLEZ" -> BLEZ(e, i.target)
         [] OTHER         -> SYSCALL(e, i)

-----------------------------------------------------------------------------
(* Cycles, shards and batches. *)

\* The end of execute_cycle: the cycle limit and the end of the program.
EndCycle(e, limit) ==
    LET done == e.pc = 0 \/ e.exited \/ e.pc > ProgramLength
    IN IF e.status = "err" THEN e
       ELSE IF \/ limit /\ e.global_clk >= MaxCycles
               \/ done /\ e.unconstrained THEN Err(e)
       ELSE IF done THEN [e EXCEPT !.status = "done"]
       ELSE e

\* execute_cycle
ExecuteCycle(ex, i, limit) ==
    EndCycle([ExecuteOperation(ex, i) EXCEPT !.global_clk = @ + 1], limit)

\* The checks of inc_shard_if_need outside a replay: the cycles left in the
\* shard and, from time to time, the shapes.
ShardIsFull(ex) ==
    \/ ex.clk >= ex.opts.shard_clk
    \/ ex.global_clk % ShapeCheckFrequency = 0 /\ ex.local_mem >= ex.opts.max_local_mem

\* Mutant of NextShard: the clock starts again but the shard stays.
BugSameShard(ex) == [ex EXCEPT !.clk = 0]

NextShard(ex) == [ex EXCEPT !.current_shard = @ + 1, !.clk = 0]

\* Mutant of IncShardIfNeed: a replay only looks at the cycles left.
BugIgnoreRecordsClk(ex) ==
    LET cut == IF ex.mode = "Trace" THEN ex.clk >= ex.opts.shard_clk ELSE ShardIsFull(ex)
    IN [cut |-> cut,
        ex |-> IF cut THEN [NextShard(ex) EXCEPT !.records_clk = Append(@, ex.clk)]
                      ELSE ex]

\* inc_shard_if_need: [cut |-> a shard ended, ex |-> ...].
IncShardIfNeed(ex) ==
    LET next == ex.records_clk_index + 1
        replayCut == next <= Len(ex.records_clk) /\ ex.clk >= ex.records_clk[next]
    IN IF ex.mode = "Trace" /\ ex.records_clk # <<>>
       THEN [cut |-> replayCut,
             ex |-> IF replayCut
                    THEN [NextShard(ex) EXCEPT !.records_clk_index = next] ELSE ex]
       ELSE [cut |-> ShardIsFull(ex),
             ex |-> IF ShardIsFull(ex)
                    THEN IF ex.mode = "Checkpoint"
                         THEN [NextShard(ex) EXCEPT !.records_clk = Append(@, ex.clk)]
                         ELSE NextShard(ex)
                    ELSE ex]

\* bump_record
BumpRecord(ex) ==
    LET local == {ex.local_memory_access[a] : a \in DOMAIN ex.local_memory_access}
        closed == IF ex.mode = "Trace" THEN [ex.record EXCEPT !.local = @ \cup local]
                                       ELSE ex.record
    IN [ex EXCEPT !.local_mem = 0,
                  !.local_memory_access = IF ex.mode = "Trace" THEN Empty ELSE @,
                  !.record = NewExecRecord,
                  !.records = Append(@, closed)]

\* The loop of execute looks for a shard boundary only here.
MayCut(ex) == ~ex.unconstrained /\ ~ex.next_is_delayslot

\* A batch ends (status "batch") with its last shard.
EndShard(ex) ==
    IF Len(ex.records) >= ex.opts.shard_batch_size THEN [ex EXCEPT !.status = "batch"] ELSE ex

\* After a cycle: the end of the program, or possibly the end of a shard.
EndTurn(ex) ==
    LET inc == IncShardIfNeed(ex)
    IN IF ex.status = "done" THEN BumpRecord(ex)
       ELSE IF ex.status = "err" \/ ~MayCut(ex) \/ ~inc.cut THEN ex
       ELSE EndShard(BumpRecord(inc.ex))

\* One turn of the loop of execute.
LoopTurn(ex, i, limit) == EndTurn(ExecuteCycle(ex, i, limit))

\* initialize
Initialize(ex) ==
    IF ex.global_clk # 0 THEN ex
    ELSE [ex EXCEPT
            !.clk = 0, !.records_clk_index = 0,
            !.memory = [a \in DOMAIN Image \cup DOMAIN ex.memory |->
                           IF a \in DOMAIN Image
                           THEN [value |-> Image[a], shard |-> 0, timestamp |-> 0]
                           ELSE ex.memory[a]]]
=============================================================================
