-------------------------- MODULE InstructionChips --------------------------
(***************************************************************************)
(* The executor running instructions, shard by shard, beside the rows that *)
(* the CPU chip and the instruction chips accept for what it ran.  The     *)
(* program is its inputs: every cycle executes any instruction of the      *)
(* chosen set, with the operands it comes with.  pc and next_pc are the    *)
(* executor's; prev is the CPU row before in the same shard; ran is the    *)
(* last cycle.                                                             *)
(*                                                                         *)
(* A syscall is one cycle too; what crosses cycles (the streams, the       *)
(* unconstrained blocks) belongs to Executor.                              *)
(***************************************************************************)
EXTENDS SyscallChips

\* Inputs maps a name to the instructions, the number of cycles and the
\* start addresses of a program.
CONSTANT Inputs

ASSUME InputsAssumption ==
    \A n \in DOMAIN Inputs : /\ Inputs[n].cycles \in Nat \ {0}
                             /\ Inputs[n].starts \subseteq {4 * k : k \in Word}

VARIABLES input, cycles, pc, next_pc, next_is_delayslot, prev, ran, status

vars == <<input, cycles, pc, next_pc, next_is_delayslot, prev, ran, status>>

NoRow == [next_pc |-> -1, next_next_pc |-> -1, halt |-> FALSE, extra |-> 0, sequential |-> TRUE]
NoStep == [outcome |-> "none"]

-----------------------------------------------------------------------------
(* The executor.                                                           *)

Init ==
    /\ input \in DOMAIN Inputs
    /\ pc \in Inputs[input].starts
    /\ next_pc = pc + 4
    /\ cycles = 0
    /\ next_is_delayslot = FALSE
    /\ prev = NoRow
    /\ ran = NoStep
    /\ status = "running"

Running == status = "running" /\ cycles < Inputs[input].cycles

Fetch(Ops) ==
    IF Running THEN {i \in Inputs[input].instrs : i.op \in Ops} ELSE {}

\* The end of execute_operation, and of execute_cycle: a next_next_pc of 0
\* is an error; the CPU event is emitted and the program counters move.  A
\* write to register 0 is dropped.  r has the outcome, the result, HI, the
\* memory, the two program counters, the extra cycles of a syscall and the
\* ALU events.
Retire(i, r) ==
    LET outcome == IF r.outcome = "ok" /\ r.next_next_pc = 0 THEN "null" ELSE r.outcome
        done    == outcome # "ok" \/ r.next_pc = 0
        row     == [next_pc |-> r.next_pc, next_next_pc |-> r.next_next_pc,
                    halt |-> i.op \in HaltOps, extra |-> r.extra,
                    sequential |-> i.op \notin HaltOps \union BranchOps \union JumpOps]
    IN  /\ ran' = [instr |-> i, pc |-> pc, scheduled |-> next_pc, prev |-> prev,
                   outcome |-> outcome, row |-> row,
                   written |-> IF i.rz THEN 0 ELSE r.a,
                   hi |-> r.hi, mem |-> r.mem, events |-> r.events]
        /\ cycles' = cycles + 1
        /\ status' = IF done THEN outcome ELSE status
        /\ next_is_delayslot' = (i.op \in BranchOps \union JumpOps)
        /\ IF outcome = "ok"
           THEN /\ pc' = r.next_pc
                /\ next_pc' = r.next_next_pc
                /\ prev' = row
           ELSE UNCHANGED <<pc, next_pc, prev>>
        /\ UNCHANGED input

\* A cycle that leaves memory alone and falls through.
Result(outcome, a, hi, mem, events) ==
    [outcome |-> outcome, a |-> a, hi |-> hi, mem |-> mem, next_pc |-> next_pc,
     next_next_pc |-> Wrap(next_pc + 4), extra |-> 0, events |-> events]

ExecuteAluInstruction == \E i \in Fetch(AluOps) :
    IF AluOutcome(i.op, i.b, i.c) = "ok"
    THEN LET r == ExecuteAlu(i.op, i.b, i.c)
         IN  Retire(i, Result("ok", r[1], IF UsesHi(i.op) THEN r[2] ELSE i.hi, i.mem,
                              EmitAluDependencies(i.op, i.b, i.c, r[1])))
    ELSE Retire(i, Result(AluOutcome(i.op, i.b, i.c), i.a, i.hi, i.mem, <<>>))

ExecuteMemoryInstruction == \E i \in Fetch(LoadOps \union StoreOps) :
    LET addr == M!Wrap(i.b + i.c)
        a    == IF i.op \in LoadOps THEN ExecuteLoad(i.op, addr, i.mem, i.a)
                ELSE IF i.op = "SC" THEN 1 ELSE i.a
        mem  == IF i.op \in StoreOps THEN ExecuteStore(i.op, addr, i.mem, i.a) ELSE i.mem
    IN  IF MemoryOutcome(i.op, i.b, i.c) = "ok"
        THEN Retire(i, Result("ok", a, i.hi, mem,
                              EmitMemoryDependencies(i.op, i.b, i.c, a, mem)))
        ELSE Retire(i, Result(MemoryOutcome(i.op, i.b, i.c), i.a, i.hi, i.mem, <<>>))

ExecuteBranch == \E i \in Fetch(BranchOps) :
    LET target == BranchTarget(i, next_pc)
    IN  Retire(i, [Result("ok", i.a, i.hi, i.mem, EmitBranchDependencies(i, next_pc, target))
                     EXCEPT !.next_next_pc = target])

ExecuteJump == \E i \in Fetch(JumpOps) :
    Retire(i, [Result("ok", Wrap(next_pc + 4), i.hi, i.mem, EmitJumpDependencies(i, next_pc))
                 EXCEPT !.next_next_pc = JumpTarget(i, next_pc)])

ExecuteMovCondInstruction == \E i \in Fetch(MovCondOps) :
    Retire(i, Result("ok", ExecuteMovCond(i), i.hi, i.mem, <<>>))

ExecuteMiscInstruction == \E i \in Fetch(MiscOps) :
    IF MiscOutcome(i) = "ok"
    THEN LET r == ExecuteMisc(i)
         IN  Retire(i, Result("ok", r[1], r[2], i.mem, EmitMiscDependencies(i, r[1])))
    ELSE Retire(i, Result("trap", i.a, i.hi, i.mem, <<>>))

\* A syscall continues at pc + 4, whatever next_pc was; HALT and exit_group
\* continue at 0.
ExecuteSyscall == \E i \in Fetch(SyscallOps) :
    LET to == IF i.op \in HaltOps THEN 0 ELSE Wrap(pc + 4)
        At(r) == [r EXCEPT !.next_pc = to, !.next_next_pc = to + 4,
                           !.extra = NumExtraCycles(i.op)]
    IN  IF SyscallOutcome(i) = "ok"
        THEN LET r == ExecuteCall(i)
             IN  Retire(i, At(Result("ok", r.a, i.hi, r.mem, <<>>)))
        ELSE Retire(i, At(Result(SyscallOutcome(i), i.a, i.hi, i.mem, <<>>)))

\* A cut wherever the shard is full.
BugCutShard ==
    /\ Running
    /\ prev # NoRow
    /\ prev' = NoRow
    /\ UNCHANGED <<input, cycles, pc, next_pc, next_is_delayslot, ran, status>>

\* inc_shard_if_need and bump_record, when the shard is full.
CutShard ==
    /\ Running
    /\ ~next_is_delayslot
    /\ prev # NoRow
    /\ prev' = NoRow
    /\ UNCHANGED <<input, cycles, pc, next_pc, next_is_delayslot, ran, status>>

Next ==
    \/ ExecuteAluInstruction
    \/ ExecuteMemoryInstruction
    \/ ExecuteBranch
    \/ ExecuteJump
    \/ ExecuteMovCondInstruction
    \/ ExecuteMiscInstruction
    \/ ExecuteSyscall
    \/ CutShard

Spec == Init /\ [][Next]_vars

-----------------------------------------------------------------------------
(* The rows.                                                               *)

\* eval_pc and eval_is_real: the next_pc that a row may have after prev.
\* The first row of a shard starts at pc + 4; a row that halts is free.
NextPcs(i, at, before) ==
    IF before # NoRow /\ (before.next_pc # at \/ before.halt) THEN {}
    ELSE IF i.op \in HaltOps THEN {0}
    ELSE IF before = NoRow THEN {Reduce(at + 4)} ELSE {before.next_next_pc}

\* A row for which op_a_value is whatever is sent when op_a is register 0.
BugOperands(i) == IF i.rz THEN Byte ELSE {i.a}

\* eval_registers: op_a_value of an instruction that does not change op_a.
Operands(i) == IF i.rz THEN {0} ELSE {i.a}

\* The rows of the chip that receives the instruction.  Every chip but the
\* branch and jump chips is sequential: next_next_pc is next_pc + 4.
ChipRows(i, to) ==
    LET Sequential(rows) == {[a |-> r.a, hi |-> r.hi, mem |-> i.mem, sends |-> r.sends,
                              next_next_pc |-> Reduce(to + 4)] : r \in rows}
    IN  CASE i.op \in AluOps ->
               Sequential({[a |-> r.a, hi |-> IF UsesHi(i.op) THEN r.hi ELSE i.hi,
                            sends |-> r.sends] : r \in AluRows(i.op, i.b, i.c)})
          [] i.op \in LoadOps \union StoreOps ->
               {[a |-> r.a, hi |-> i.hi, mem |-> r.mem, sends |-> r.sends,
                 next_next_pc |-> Reduce(to + 4)]
                  : r \in MemoryRows(i.op, i.b, i.c, i.mem, i.a, Operands(i))}
          [] i.op \in BranchOps -> UNION {BranchRows(i, x, to) : x \in Operands(i)}
          [] i.op \in JumpOps -> JumpRows(i, to)
          [] i.op \in MovCondOps ->
               Sequential({[a |-> a, hi |-> i.hi, sends |-> <<>>] : a \in MovCondValues(i)})
          [] i.op \in MiscOps -> Sequential(UNION {MiscRows(i, x) : x \in Operands(i)})
          [] i.op \in SyscallOps ->
               {[a |-> r.a, hi |-> i.hi, mem |-> r.mem, sends |-> <<>>,
                 next_next_pc |-> Reduce(to + 4)] : r \in SyscallRows(i, to)}

\* get_num_extra_syscall_cycles: byte 3 of the code.
ExtraCycles(i) == IF i.op \in SyscallOps THEN CodeByte(i.a, 3) ELSE 0

\* Every lookup of a row is received by a row of the chip it is sent to.
Served(i, row) ==
    \A k \in DOMAIN row.sends :
        IF i.op \in LoadOps \union StoreOps THEN MemoryLookupReceived(row.sends[k])
        ELSE Received(row.sends[k])

\* Every row a proof may have for instruction i at address `at', as the CPU
\* row, the registers and the memory it leaves behind.
AcceptedRows(i, at, before) ==
    UNION {{[row |-> [next_pc |-> to, next_next_pc |-> r.next_next_pc,
                      halt |-> i.op \in HaltOps, extra |-> ExtraCycles(i),
                      sequential |-> i.op \notin HaltOps \union BranchOps \union JumpOps],
             written |-> IF i.rz THEN 0 ELSE r.a, hi |-> r.hi, mem |-> r.mem,
             sends |-> r.sends]
               : r \in {x \in ChipRows(i, to) : Served(i, x)}}
            : to \in NextPcs(i, at, before)}

Accepted == AcceptedRows(ran.instr, ran.pc, ran.prev)

Agrees(r) == /\ r.row = ran.row
             /\ r.written = ran.written
             /\ r.hi = ran.hi
             /\ r.mem = ran.mem

\* The last real row of a shard may not carry a target.
LastRowAllowed == ran.row.sequential \/ ran.row.halt

-----------------------------------------------------------------------------
(* Properties.                                                             *)

\* A syscall in the delay slot of a taken branch or jump: the executor goes
\* on at pc + 4, the chips at the target.
SyscallAfterBranch ==
    ran.instr.op \in SyscallOps \ HaltOps /\ ran.scheduled # ran.pc + 4

\* What the executor runs although it has no proof: program counters, return
\* addresses, exit codes and deferred digests that are no field elements,
\* memory accesses to the addresses of the registers, and the syscalls named
\* at the end of SyscallChips.
Unprovable ==
    LET i == ran.instr
    IN  \/ ran.row.next_pc >= FieldOrder
        \/ ran.row.next_next_pc >= FieldOrder
        \/ i.op \in JumpOps /\ ran.row.next_pc + 4 >= FieldOrder
        \/ i.op \in HaltOps /\ i.b >= M!FieldOrder
        \/ i.op = "COMMIT_DEFERRED_PROOFS" /\ i.c >= M!FieldOrder
        \/ i.op \in LoadOps \union StoreOps /\ M!Wrap(i.b + i.c) < NumRegisters
        \/ SyscallAfterBranch
        \/ LinuxAlias(i) \/ PastField(i) \/ SameCycle(i) \/ NoRowsForCall(i)

\* Calls for which the rows are freer than the executor: arguments that the
\* chips only know as field elements, and a mapping at a given address, for
\* which the executor checks a size that is not used.
FreerRows ==
    LET i == ran.instr
    IN  LinuxAlias(i) \/ PastField(i) \/ (i.op \in MmapOps /\ i.b # 0 /\ ran.outcome = "trap")

\* Completeness: whatever the executor runs has rows in the CPU chip and in
\* the chip of the instruction that agree with it, and every lookup of them
\* has a row of an ALU chip to receive it.  A syscall takes the same extra
\* cycles, and its words are read and written at the same clk with the same
\* values before and after, however its operands overlap.
ExecutedIsProvable ==
    (ran.outcome = "ok" /\ ~Unprovable) => \E r \in Accepted : Agrees(r)

\* Soundness: for the same operands no other result, register HI, word in
\* memory or next program counter has rows, and none has where the program
\* traps (a division by 0, TEQ, EXT and INS out of range, an address that is
\* not aligned, a commitment, a precompile or a mapping out of range).  Two
\* things are the prover's: the value of HINT_LEN, and whether SysLinuxChip
\* receives a precompile call, in which case V0, HI, the program counters and
\* the extra cycles are still the executor's (NoCallIsMisrouted).
ProvableIsExecuted ==
    (ran.outcome \in {"ok", "trap"} /\ ~SyscallAfterBranch /\ ~FreerRows)
        => \A r \in Accepted :
               \/ ran.outcome = "ok" /\ Agrees(r)
               \/ /\ ran.outcome = "ok" /\ ran.instr.op = "SYSHINTLEN"
                  /\ Agrees([r EXCEPT !.written = ran.written])
               \/ Misrouted(ran.instr, r) /\ Agrees([r EXCEPT !.mem = ran.mem])

\* A precompile call is never proved as a Linux syscall: what the prover
\* chooses for is_linux in SyscallChip does not take the call away from the
\* chip of its identifier.  (That no Linux syscall is received by a precompile
\* chip is part of ProvableIsExecuted.)
NoCallIsMisrouted ==
    ran.outcome = "ok" => \A r \in Accepted : ~Misrouted(ran.instr, r)

Count(s, x) == Cardinality({k \in DOMAIN s : s[k] = x})

\* The lookups that the rows send are, with their multiplicities, the ALU
\* events that the executor emitted for them: the tables balance.
LookupsMatchEvents ==
    (ran.outcome = "ok" /\ ~SyscallAfterBranch) =>
        \A r \in Accepted : \A x \in {r.sends[k] : k \in DOMAIN r.sends}
                                       \union {ran.events[k] : k \in DOMAIN ran.events} :
            Count(r.sends, x) = Count(ran.events, x)

\* A shard is only cut behind a row that the CPU chip lets be the last one,
\* and the next shard starts where the executor is: its first row has
\* next_pc = pc + 4.
CutsAreProvable ==
    [][prev # NoRow /\ prev' = NoRow => LastRowAllowed /\ next_pc = pc + 4]_vars
=============================================================================
