----------------------------- MODULE MemoryChip -----------------------------
(***************************************************************************)
(* Loads and stores: what the executor does to the loaded or stored word   *)
(* (execute_load, execute_store), and what MemoryInstructionsChip accepts. *)
(* Words have four limbs here, as in the program, because every            *)
(* instruction is about the byte of the word that the address selects.     *)
(***************************************************************************)
EXTENDS Words, Sequences

CONSTANT NumRegisters

M == INSTANCE Words WITH WordSize <- 4

ASSUME MemoryAssumption == NumRegisters \in Byte /\ NumRegisters % 4 = 0

\* executor/src/memory.rs: the last address is the order of the field less 1.
MAX_MEMORY == M!FieldOrder - 1

LoadOps == {"LB", "LBU", "LH", "LHU", "LW", "LWL", "LWR", "LL"}
StoreOps == {"SB", "SH", "SW", "SWL", "SWR", "SC"}

Alignment(op) == IF op \in {"LW", "LL", "SW", "SC"} THEN 4
                 ELSE IF op \in {"LH", "LHU", "SH"} THEN 2 ELSE 1

-----------------------------------------------------------------------------
(* The executor.  A load has read the word before the bounds are checked;  *)
(* the two errors end the execution in either order.                       *)

MemoryOutcome(op, b, c) ==
    LET addr == M!Wrap(b + c)
    IN  IF (addr % Alignment(op)) # 0 THEN "trap"
        ELSE IF addr - (addr % 4) + 3 > MAX_MEMORY THEN "bounds" ELSE "ok"

SignExtend(value, n) ==
    IF value >= Base ^ n \div 2 THEN value + 2 ^ M!Bits - Base ^ n ELSE value

ExecuteLoad(op, addr, mem, rt) ==
    LET i == addr % 4
        h == i - (i % 2)
    IN  CASE op = "LB"  -> SignExtend(M!Limb(mem, i), 1)
          [] op = "LBU" -> M!Limb(mem, i)
          [] op = "LH"  -> SignExtend((mem \div Base ^ h) % Base ^ 2, 2)
          [] op = "LHU" -> (mem \div Base ^ h) % Base ^ 2
          [] op \in {"LW", "LL"} -> mem
          [] op = "LWL" -> (rt % Base ^ (3 - i)) + M!Wrap(mem * Base ^ (3 - i))
          [] op = "LWR" -> rt - (rt % Base ^ (4 - i)) + mem \div Base ^ i

ExecuteStore(op, addr, mem, rt) ==
    LET i == addr % 4
        h == i - (i % 2)
        Replace(k, n) == mem - ((mem \div Base ^ k) % Base ^ n) * Base ^ k
                             + (rt % Base ^ n) * Base ^ k
    IN  CASE op = "SB"  -> Replace(i, 1)
          [] op = "SH"  -> Replace(h, 2)
          [] op \in {"SW", "SC"} -> rt
          [] op = "SWL" -> mem - (mem % Base ^ (i + 1)) + rt \div Base ^ (3 - i)
          [] op = "SWR" -> (mem % Base ^ i) + M!Wrap(rt * Base ^ i)

\* emit_memory_dependencies: the address, and the sign of a negative LB or LH.
EmitMemoryDependencies(op, b, c, a, mem) ==
    LET addr  == M!Wrap(b + c)
        size  == IF op = "LB" THEN 1 ELSE 2
        first == IF op = "LB" THEN addr % 4 ELSE (addr % 4) - (addr % 2)
        value == (mem \div Base ^ first) % Base ^ size
        Event(name, x, y, z) == [op |-> name, a |-> x, b |-> y, c |-> z, hi |-> 0]
    IN  <<Event("ADD", addr, b, c)>>
          \o (IF op \in {"LB", "LH"} /\ MsbOfByte(M!Limb(value, size - 1)) = 1
              THEN <<Event("SUB", a, value, Base ^ size)>> ELSE <<>>)

-----------------------------------------------------------------------------
(* The chip.  The offset flags are the offset they stand for.              *)

Joined(l) == l[1] + l[2] * Base + l[3] * Base ^ 2 + l[4] * Base ^ 3

\* The first address behind the registers taken for a register.
BugAddressRules(addr) == M!RangeChecked(addr) /\ (addr < Base => NumRegisters < addr)

\* eval_memory_address_and_access: a field element that is no register.
AddressRules(addr) ==
    /\ M!RangeChecked(addr)
    /\ addr < Base => NumRegisters - 1 < addr

\* eval_unsigned_mem_value: v the word in memory, p the register before.
UnsignedMemVal(op, o, v, p) ==
    LET Pick(x) == x[o + 1]
        V(i) == M!Limb(v, i)
        P(i) == M!Limb(p, i)
    IN  CASE op \in {"LB", "LBU"} -> <<Pick(<<V(0), V(1), V(2), V(3)>>), 0, 0, 0>>
          [] op \in {"LH", "LHU"} -> <<IF o = 0 THEN V(0) ELSE V(2),
                                       IF o = 0 THEN V(1) ELSE V(3), 0, 0>>
          [] op \in {"LW", "LL"}  -> <<V(0), V(1), V(2), V(3)>>
          [] op = "LWR" -> <<Pick(<<V(0), V(1), V(2), V(3)>>), Pick(<<V(1), V(2), V(3), P(1)>>),
                             Pick(<<V(2), V(3), P(2), P(2)>>), Pick(<<V(3), P(3), P(3), P(3)>>)>>
          [] op = "LWL" -> <<Pick(<<P(0), P(0), P(0), V(0)>>), Pick(<<P(1), P(1), V(0), V(1)>>),
                             Pick(<<P(2), V(0), V(1), V(2)>>), Pick(<<V(0), V(1), V(2), V(3)>>)>>

\* eval_memory_store: the word that ends up in memory; a is op_a_value, p
\* the register before, v the word before.
StoredVal(op, o, v, a, p) ==
    LET Pick(x) == x[o + 1]
        V(i) == M!Limb(v, i)
        A(i) == M!Limb(a, i)
        At(j) == IF o = j THEN A(0) ELSE V(j)
    IN  CASE op = "SB"  -> <<At(0), At(1), At(2), At(3)>>
          [] op = "SH"  -> IF o = 0 THEN <<A(0), A(1), V(2), V(3)>>
                           ELSE <<V(0), V(1), A(0), A(1)>>
          [] op = "SW"  -> <<A(0), A(1), A(2), A(3)>>
          [] op = "SC"  -> <<M!Limb(p, 0), M!Limb(p, 1), M!Limb(p, 2), M!Limb(p, 3)>>
          [] op = "SWL" -> <<Pick(<<A(3), A(2), A(1), A(0)>>), Pick(<<V(1), A(3), A(2), A(1)>>),
                             Pick(<<V(2), V(2), A(3), A(2)>>), Pick(<<V(3), V(3), V(3), A(3)>>)>>
          [] op = "SWR" -> <<Pick(<<A(0), V(0), V(0), V(0)>>), Pick(<<A(1), A(0), V(1), V(1)>>),
                             Pick(<<A(2), A(1), A(0), V(2)>>), Pick(<<A(3), A(2), A(1), A(0)>>)>>

\* The rows of the chip: p is the value of the register before, v of memory,
\* and Operand the values the CPU chip allows op_a_value to take in a store.
MemoryRows(op, b, c, v, p, Operand) ==
    LET Lookup(name, x, y, z) == [op |-> name, a |-> x, b |-> y, c |-> z, hi |-> 0]
        Aligned(o) == o % Alignment(op) = 0
        Address(x) == Lookup("ADD", x, b, c)
        Loads(x) ==
            LET u == UnsignedMemVal(op, x % 4, v, p)
                top == IF op = "LB" THEN u[1] ELSE u[2]
                sign == IF op = "LB" THEN Base ELSE Base ^ 2
            IN  IF op \in {"LB", "LH"} /\ MsbOfByte(top) = 1
                THEN {[a |-> y[1], mem |-> v,
                       sends |-> <<Address(x), Lookup("SUB", y[1], Joined(u), sign)>>]
                        : y \in M!AddSubRows("SUB", Joined(u), sign)}
                ELSE {[a |-> Joined(u), mem |-> v, sends |-> <<Address(x)>>]}
        Stores(x) == {[a |-> y, mem |-> Joined(StoredVal(op, x % 4, v, y, p)),
                       sends |-> <<Address(x)>>] : y \in IF op = "SC" THEN {1} ELSE Operand}
    IN  UNION {IF op \in LoadOps THEN Loads(x) ELSE Stores(x)
                : x \in {y \in M!AddOperation(b, c) : AddressRules(y) /\ Aligned(y % 4)}}

\* Lookups of four-limb words go to the AddSub chip only.
MemoryLookupReceived(l) == <<l.a, 0>> \in M!AddSubRows(l.op, l.b, l.c)
=============================================================================
