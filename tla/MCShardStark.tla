---------------------------- MODULE MCShardStark ----------------------------
(***************************************************************************)
(* ShardStark with four chips that differ in what the verifier asks of a   *)
(* chip: preprocessed or not, one row or two, local or global scope, with  *)
(* or without local lookups, one quotient chunk or two.                    *)
(***************************************************************************)
EXTENDS ShardStark

\* The machine's order is not the order of the names.
ChipsOfMachine == <<"Program", "Cpu", "Global", "Byte">>

Chip(rank, prep, global, local_lookups, local_only, quotients, byte_sends) ==
    [rank |-> rank, prep |-> prep, global |-> global, local_lookups |-> local_lookups,
     local_only |-> local_only, quotients |-> quotients, byte_sends |-> byte_sends]

ChipInfo ==
    [c \in Range(ChipsOfMachine) |->
        CASE c = "Program" -> Chip(4, TRUE, FALSE, TRUE, TRUE, 1, 0)
          [] c = "Byte"    -> Chip(1, TRUE, FALSE, TRUE, FALSE, 1, 0)
          [] c = "Cpu"     -> Chip(2, FALSE, FALSE, TRUE, TRUE, 2, 1)
          [] c = "Global"  -> Chip(3, FALSE, TRUE, FALSE, FALSE, 2, 1)]

\* The program's table is higher or lower than the byte table.
TwoPrograms == {[Program |-> 0, Byte |-> 1], [Program |-> 2, Byte |-> 1]}

\* The lookups of the Cpu chip are received by the byte table.
Record(logs, sent, received, global, ok) ==
    [logs |-> logs, ok |-> ok,
     local |-> [c \in DOMAIN logs |-> CASE c = "Cpu" -> sent [] c = "Byte" -> -received
                                        [] OTHER -> 0],
     global |-> [c \in DOMAIN logs |-> global]]

\* Shards with the Cpu chip, as high as the program's table, lower, or so high that the
\* byte lookups overflow, and shards with the Global chip only; sums that balance and sums
\* that do not; constraints that do not hold.
SomeRecords ==
    UNION {LET tables == [Program |-> p, Byte |-> 1, Global |-> 1]
               WithCpu(log) == [Program |-> p, Byte |-> 1, Global |-> 1, Cpu |-> log]
           IN {Record(WithCpu(log), 1, 1, g, TRUE) : log \in {0, 2, 3}, g \in {-1, 0}}
              \cup {Record(WithCpu(2), 0, 1, -1, TRUE), Record(WithCpu(2), 1, 1, -1, FALSE)}
              \cup {Record(tables, 0, r, 0, TRUE) : r \in {0, 1}} : p \in {0, 2}}
=============================================================================
