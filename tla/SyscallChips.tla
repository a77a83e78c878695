---------------------------- MODULE SyscallChips ----------------------------
(***************************************************************************)
(* Syscalls.  The executor decodes the code in V0, runs the call and       *)
(* writes V0; SyscallInstrsChip decodes the bytes of the code, SyscallChip *)
(* carries the arguments from the core shard to the shard of the           *)
(* precompiles, and SysLinuxChip or a precompile chip receives them.       *)
(*                                                                         *)
(* Here i.a is the syscall code, with the bytes it has in the program; i.b *)
(* (A0) and i.c (A1) are four-limb words of the small field.  i.mem holds  *)
(* the registers A2, A3, BRK and HEAP, the BRK of the program image, and   *)
(* the length that HINT_LEN finds or that the Keccak sponge is given.      *)
(*                                                                         *)
(* The streams behind HINT_LEN, HINT_READ, WRITE and VERIFY and the        *)
(* unconstrained blocks belong to Executor.  Outside of a block,           *)
(* EXIT_UNCONSTRAINED is left out.                                         *)
(***************************************************************************)
EXTENDS ControlChips, PrecompileChips

\* SyscallCode, as numbers: 16842752 is 16#01_01_00_00, 65536 16#00_01_00_00
\* and 805371904 16#30_01_00_00.
SyscallCode ==
    [HALT |-> 0, WRITE |-> 2, ENTER_UNCONSTRAINED |-> 3, COMMIT |-> 16,
     COMMIT_DEFERRED_PROOFS |-> 26, VERIFY_ZKM_PROOF |-> 27,
     SYSHINTLEN |-> 240, SYSHINTREAD |-> 241, SYSVERIFY |-> 242,
     SHA_EXTEND |-> 805371904 + 5, SHA_COMPRESS |-> 16842752 + 6,
     ED_ADD |-> 16842752 + 7, ED_DECOMPRESS |-> 65536 + 8, KECCAK_SPONGE |-> 16842752 + 9,
     SECP256K1_ADD |-> 16842752 + 10, SECP256K1_DOUBLE |-> 65536 + 11,
     SECP256K1_DECOMPRESS |-> 65536 + 12, BN254_ADD |-> 16842752 + 14,
     BN254_DOUBLE |-> 65536 + 15, BLS12381_DECOMPRESS |-> 65536 + 28,
     UINT256_MUL |-> 16842752 + 29, BLS12381_ADD |-> 16842752 + 30,
     BLS12381_DOUBLE |-> 65536 + 31, BLS12381_FP_ADD |-> 16842752 + 32,
     BLS12381_FP_SUB |-> 16842752 + 33, BLS12381_FP_MUL |-> 16842752 + 34,
     BLS12381_FP2_ADD |-> 16842752 + 35, BLS12381_FP2_SUB |-> 16842752 + 36,
     BLS12381_FP2_MUL |-> 16842752 + 37, BN254_FP_ADD |-> 16842752 + 38,
     BN254_FP_SUB |-> 16842752 + 39, BN254_FP_MUL |-> 16842752 + 40,
     BN254_FP2_ADD |-> 16842752 + 41, BN254_FP2_SUB |-> 16842752 + 42,
     BN254_FP2_MUL |-> 16842752 + 43, SECP256R1_ADD |-> 16842752 + 44,
     SECP256R1_DOUBLE |-> 65536 + 45, SECP256R1_DECOMPRESS |-> 65536 + 46,
     U256XU2048_MUL |-> 16842752 + 47, POSEIDON2_PERMUTE |-> 65536 + 48,
     SYS_READ |-> 4003, SYS_WRITE |-> 4004, SYS_OPEN |-> 4005, SYS_CLOSE |-> 4006,
     SYS_BRK |-> 4045, SYS_FCNTL |-> 4055, SYS_MMAP2 |-> 4090, SYS_MUNMAP |-> 4091,
     SYS_CLONE |-> 4120, SYS_NANOSLEEP |-> 4166, SYS_RT_SIGACTION |-> 4194,
     SYS_RT_SIGPROCMASK |-> 4195, SYS_SIGALTSTACK |-> 4206, SYS_MMAP |-> 4210,
     SYS_FSTAT64 |-> 4215, SYS_MADVISE |-> 4218, SYS_GETTID |-> 4222,
     SYS_SCHED_GETAFFINITY |-> 4240, SYS_EXT_GROUP |-> 4246, SYS_CLOCK_GETTIME |-> 4263,
     SYS_OPENAT |-> 4288, SYS_PRLIMIT64 |-> 4338]

\* A code that from_u32 does not know.
UnknownCode == 4001

SyscallOps == DOMAIN SyscallCode \union {"UNIMPLEMENTED"}
HaltOps == {"HALT", "SYS_EXT_GROUP"}
MmapOps == {"SYS_MMAP", "SYS_MMAP2"}
NopOps == {"SYS_OPEN", "SYS_CLOSE", "SYS_MUNMAP", "SYS_RT_SIGACTION", "SYS_RT_SIGPROCMASK",
           "SYS_SIGALTSTACK", "SYS_FSTAT64", "SYS_MADVISE", "SYS_GETTID",
           "SYS_SCHED_GETAFFINITY", "SYS_CLOCK_GETTIME", "SYS_NANOSLEEP", "SYS_OPENAT",
           "SYS_PRLIMIT64"}
LinuxOps == NopOps \union MmapOps \union {"SYS_BRK", "SYS_CLONE", "SYS_EXT_GROUP", "SYS_READ",
                                          "SYS_WRITE", "SYS_FCNTL"}

CodeOf(op) == IF op = "UNIMPLEMENTED" THEN UnknownCode ELSE SyscallCode[op]

\* The bytes of a code.
SyscallId(code) == code % 65536
CodeByte(code, k) == (code \div 256 ^ k) % 256

-----------------------------------------------------------------------------
(* The executor.                                                           *)

\* num_extra_cycles of the implementation of a syscall.
NumExtraCycles(op) ==
    CASE op = "SHA_EXTEND" -> 48
      [] op \in EcAddOps \union FpOps \union Fp2AddSubOps \union Fp2MulOps
                  \union {"SHA_COMPRESS", "KECCAK_SPONGE", "UINT256_MUL", "U256XU2048_MUL"} -> 1
      [] OTHER -> 0

\* EBADF, and the value of a call that fails.
MIPS_EBADF == 9
Failed == 2 ^ M!Bits - 1

\* 0x4000_0000 in the small word.
MAX_HEAP_SIZE == 2 ^ (M!Bits - 2)

\* resolve_brk and max_brk
BrkAllowed(a0, r) ==
    LET limit == r.image_brk + MAX_HEAP_SIZE
        v0    == IF a0 > r.brk THEN a0 ELSE r.brk
    IN  limit \in M!Word /\ v0 <= limit /\ v0 <= MAX_MEMORY

\* The page has one and a half bytes of address, as in the program.
PAGE_SIZE == 2 ^ (ByteBits + ByteBits \div 2)

\* align_size before the check for overflow
AlignSize(size) ==
    IF size % PAGE_SIZE = 0 THEN size ELSE size + PAGE_SIZE - (size % PAGE_SIZE)

SysFcntl(a0, a1) ==
    IF a1 = 3 /\ a0 \in 0 .. 2 THEN <<IF a0 = 0 THEN 0 ELSE 1, 0>>
    ELSE IF a1 = 1 /\ a0 \in 0 .. 2 THEN <<a0, 0>>
    ELSE <<Failed, MIPS_EBADF>>

\* V0 and the registers after a Linux syscall.
ExecuteLinux(op, a0, a1, r) ==
    LET Leaves(v0, a3) == [a |-> v0, mem |-> [r EXCEPT !.a3 = a3]]
    IN  CASE op = "SYS_BRK" -> Leaves(IF a0 > r.brk THEN a0 ELSE r.brk, 0)
          [] op \in MmapOps ->
               IF a0 = 0
               THEN [a |-> r.heap,
                     mem |-> [r EXCEPT !.a3 = 0, !.heap = M!Wrap(r.heap + AlignSize(a1))]]
               ELSE Leaves(a0, 0)
          [] op = "SYS_CLONE" -> Leaves(1, 0)
          [] op = "SYS_FCNTL" -> Leaves(SysFcntl(a0, a1)[1], SysFcntl(a0, a1)[2])
          [] op = "SYS_READ" -> IF a0 = 0 THEN Leaves(0, 0) ELSE Leaves(Failed, MIPS_EBADF)
          [] op = "SYS_WRITE" -> Leaves(r.a2, 0)
          [] op \in NopOps \union {"SYS_EXT_GROUP"} -> Leaves(0, 0)

\* Words of a digest in the public values.
PV_DIGEST_NUM_WORDS == 8

\* A HALT with a nonzero exit code is an error; a heap that is too large is
\* refused by the executor alone ("limit").
SyscallOutcome(i) ==
    CASE i.op = "UNIMPLEMENTED" -> "unsupported"
      [] i.op = "HALT" -> IF i.b # 0 THEN "exit" ELSE "ok"
      [] i.op \in {"COMMIT", "COMMIT_DEFERRED_PROOFS"} ->
           IF i.b >= PV_DIGEST_NUM_WORDS THEN "trap" ELSE "ok"
      [] i.op = "SYS_BRK" -> IF BrkAllowed(i.b, i.mem) THEN "ok" ELSE "limit"
      [] i.op \in MmapOps -> IF AlignSize(i.c) \in M!Word THEN "ok" ELSE "trap"
      [] i.op \in PrecompileOps -> PrecompileOutcome(i.op, i.b, i.c, i.mem)
      [] OTHER -> "ok"

\* What the call leaves in V0 and in memory.  The row of a block that was
\* entered is written when it is left, with 0 in V0.
ExecuteCall(i) ==
    CASE i.op \in LinuxOps -> ExecuteLinux(i.op, i.b, i.c, i.mem)
      [] i.op \in PrecompileOps ->
           [a |-> i.a,
            mem |-> ExecutorEffect(i.op, ExecuteAccesses(i.op, i.b, i.c, i.mem))]
      [] i.op = "SYSHINTLEN" -> [a |-> i.mem.len, mem |-> i.mem]
      [] i.op = "ENTER_UNCONSTRAINED" -> [a |-> 0, mem |-> i.mem]
      [] OTHER -> [a |-> i.a, mem |-> i.mem]

-----------------------------------------------------------------------------
(* The chips.                                                              *)

\* Sizes that are rounded up even when they are whole pages.
BugMmapSizes(a1) ==
    {size \in {a1 - (a1 % PAGE_SIZE) + PAGE_SIZE} : size \in M!Word}

\* eval_mmap: the bytes of mmap_size, of which the first is 0, with the two
\* boolean carries.
MmapSizes(a1) ==
    LET half == 2 ^ (ByteBits \div 2)
        low  == M!Limb(a1, 1) % half
        up   == IF M!Limb(a1, 0) + low * Base = 0 THEN 0 ELSE half
        Bytes(k) == <<M!Limb(a1, 1) - low + up - k[1] * Base,
                      M!Limb(a1, 2) + k[1] - k[2] * Base,
                      M!Limb(a1, 3) + k[2]>>
    IN  {Joined(<<0>> \o Bytes(k))
           : k \in {l \in {0, 1} \X {0, 1} : \A n \in 1 .. 3 : Bytes(l)[n] \in Byte}}

\* What SysLinuxChip leaves in V0 and in A3.
LinuxRow(v0, a3, r) == [a |-> v0, mem |-> [r EXCEPT !.a3 = a3]]

\* eval_fnctl.  a0 and a1 are told apart as field elements.
FnctlRows(a0, a1, r) ==
    LET x == M!Reduce(a0)
        y == M!Reduce(a1)
        Value == CASE y = 1 -> x
                   [] y = 3 -> IF x = 0 THEN 0 ELSE 1
    IN  {IF x \in 0 .. 2 /\ y \in {1, 3} THEN LinuxRow(Value, 0, r)
         ELSE LinuxRow(Failed, MIPS_EBADF, r)}

\* The heap is moved by the bytes of the size, a mapping at an address is
\* left where it is.
MmapRows(a0, a1, r) ==
    IF M!Reduce(a0) = 0
    THEN {[a |-> r.heap, mem |-> [r EXCEPT !.a3 = 0, !.heap = h]]
            : h \in UNION {M!AddOperation(r.heap, size) : size \in MmapSizes(a1)}}
    ELSE {LinuxRow(a0, 0, r)}

SysLinuxRows(id, a0, a1, r) ==
    LET Is(op) == id = SyscallCode[op]
    IN  CASE Is("SYS_BRK") -> {LinuxRow(IF a0 > r.brk THEN a0 ELSE r.brk, 0, r)}
          [] Is("SYS_MMAP") \/ Is("SYS_MMAP2") -> MmapRows(a0, a1, r)
          [] Is("SYS_CLONE") -> {LinuxRow(1, 0, r)}
          [] Is("SYS_FCNTL") -> FnctlRows(a0, a1, r)
          [] Is("SYS_READ") -> {IF M!Reduce(a0) = 0 THEN LinuxRow(0, 0, r)
                                ELSE LinuxRow(Failed, MIPS_EBADF, r)}
          [] Is("SYS_WRITE") -> {LinuxRow(r.a2, 0, r)}
          \* exit_group, and every other code
          [] OTHER -> {LinuxRow(0, 0, r)}

\* SyscallChip in the core shard: the two halves of an argument are bound to
\* the word itself for a Linux syscall, and to its value in the field for any
\* other.
SyscallBridge(w, is_linux) ==
    IF is_linux THEN {w}
    ELSE {x \in {M!Reduce(w) + k * M!FieldOrder : k \in 0 .. 2} : x \in M!Word}

\* The calls that the precompile chips receive under an identifier.
Receivers(id) == {op \in PrecompileOps : SyscallId(SyscallCode[op]) = id}

\* SyscallChip in the shard of the precompiles: the halves of the arguments
\* are those of the core shard.  is_linux of this row is in neither of the
\* two global messages, and free.  When it is set, SysLinuxChip receives the
\* call, whatever its identifier; when it is not, the result is 0 and the
\* chip of the identifier receives it.
ReceivedRows(id, arg1, arg2, r) ==
    SysLinuxRows(id, arg1, arg2, r)
      \union {[a |-> 0, mem |-> m]
                : m \in UNION {PrecompileRows(op, M!Reduce(arg1), M!Reduce(arg2), r)
                                 : op \in Receivers(id)}}

\* What a call leaves behind that is sent to a table.  The shards agree on
\* the result: it is V0 after a Linux syscall; after any other it is 0 and V0
\* keeps the code.
SentRows(i, is_linux) ==
    LET Rows == UNION {ReceivedRows(SyscallId(i.a), x, y, i.mem)
                         : x \in SyscallBridge(i.b, is_linux),
                           y \in SyscallBridge(i.c, is_linux)}
    IN  IF is_linux THEN Rows
        ELSE {[r EXCEPT !.a = i.a] : r \in {q \in Rows : q.a = 0}}

\* Rules that look at the first byte of the index of a commitment only.
BugSyscallInstrsRules(i, to) ==
    LET id == SyscallId(i.a)
        send_table == CodeByte(i.a, 2)
        is_halt == id \in {SyscallId(SyscallCode[op]) : op \in HaltOps}
    IN  /\ send_table \in {0, 1}
        /\ send_table = 1 \/ is_halt => M!RangeChecked(i.b)
        /\ send_table = 1 => M!RangeChecked(i.c)
        /\ id = SyscallCode["COMMIT"] => M!Limb(i.b, 0) \in 0 .. PV_DIGEST_NUM_WORDS - 1
        /\ is_halt => to = 0

\* The rules of SyscallInstrsChip on a row: byte 2 of the code says that a
\* table is to receive the call, byte 1 that it is a Linux syscall; the
\* arguments that are used as field elements are range checked; the index
\* of a commitment is one of eight.
SyscallInstrsRules(i, to) ==
    LET id == SyscallId(i.a)
        send_table == CodeByte(i.a, 2)
        is_halt == id \in {SyscallId(SyscallCode[op]) : op \in HaltOps}
        is_commit == id = SyscallCode["COMMIT"]
        is_commit_deferred == id = SyscallCode["COMMIT_DEFERRED_PROOFS"]
    IN  /\ send_table \in {0, 1}
        /\ CodeByte(i.a, 1) # 0 => send_table = 0
        /\ send_table = 1 \/ is_halt => M!RangeChecked(i.b)
        /\ send_table = 1 \/ is_commit_deferred => M!RangeChecked(i.c)
        /\ is_commit \/ is_commit_deferred =>
             /\ M!Limb(i.b, 0) \in 0 .. PV_DIGEST_NUM_WORDS - 1
             /\ \A k \in 1 .. 3 : M!Limb(i.b, k) = 0
        /\ is_halt => to = 0

\* V0 and the memory that a row may leave: V0 changes in a Linux syscall, at
\* the start of an unconstrained block and, to any word, in HINT_LEN (the
\* length and the two ends of the words stand for all of them).
SyscallRows(i, to) ==
    LET id == SyscallId(i.a)
        is_linux == CodeByte(i.a, 1) # 0
        Rows ==
            CASE is_linux \/ CodeByte(i.a, 2) = 1 -> SentRows(i, is_linux)
              [] id = SyscallCode["ENTER_UNCONSTRAINED"] -> {[a |-> 0, mem |-> i.mem]}
              [] id = SyscallCode["SYSHINTLEN"] ->
                   {[a |-> x, mem |-> i.mem] : x \in {i.mem.len, 0, Failed}}
              [] OTHER -> {[a |-> i.a, mem |-> i.mem]}
    IN  IF SyscallInstrsRules(i, to)
        THEN {[a |-> r.a, hi |-> i.hi, mem |-> r.mem, sends |-> <<>>] : r \in Rows}
        ELSE {}

-----------------------------------------------------------------------------
(* Calls that the executor runs and that have no rows, or others.          *)

\* An argument that SysLinuxChip takes for another one, equal to it in the
\* field.
LinuxAlias(i) ==
    LET Aliases(w, S) == w >= M!FieldOrder /\ M!Reduce(w) \in S
    IN  \/ i.op \in MmapOps \union {"SYS_READ"} /\ Aliases(i.b, {0})
        \/ i.op = "SYS_FCNTL" /\ (Aliases(i.b, 0 .. 2) \/ Aliases(i.c, {1, 3}))

\* A precompile that reaches past the last address.
PastField(i) ==
    /\ i.op \in PrecompileOps
    /\ LET s == ExecuteAccesses(i.op, i.b, i.c, i.mem)
       IN  \/ i.b >= M!FieldOrder \/ i.c >= M!FieldOrder
           \/ \E k \in DOMAIN s : s[k].addr >= M!FieldOrder

\* A word that is needed twice in one cycle, because two operands overlap.
SameCycle(i) ==
    /\ i.op \in PrecompileOps
    /\ LET s == ExecuteAccesses(i.op, i.b, i.c, i.mem)
           D == {k \in DOMAIN s : s[k].at # Peek}
       IN  Cardinality({<<s[k].addr, s[k].at>> : k \in D}) # Cardinality(D)

\* A second argument that the executor ignores, and a sponge without blocks.
NoRowsForCall(i) ==
    \/ i.op \in EcDoubleOps /\ i.c # 0
    \/ i.op = "KECCAK_SPONGE" /\ i.mem.len = 0

\* A precompile call that SysLinuxChip has received, as a syscall that it does
\* not recognise: A3 is cleared and no word of the call is touched.
Misrouted(i, r) == i.op \in PrecompileOps /\ r.mem = [i.mem EXCEPT !.a3 = 0]
=============================================================================
