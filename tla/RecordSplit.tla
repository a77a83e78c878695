---------------------------- MODULE RecordSplit ----------------------------
(***************************************************************************)
(* Execution records and what the prover does with the events it does not  *)
(* want in every shard: ExecutionRecord::defer, append and split of        *)
(* core/executor/src/record.rs.                                            *)
(*                                                                         *)
(* A record keeps whether it has CPU events, its precompile events by      *)
(* syscall code, its global memory initialize and finalize events (the     *)
(* address is all that matters here) and its public values.  A precompile  *)
(* event is an identity and, for the keccak sponge, a number of blocks.    *)
(***************************************************************************)
EXTENDS Naturals, Sequences, SequencesExt, FiniteSets

CONSTANTS
    Codes,              \* syscall codes with precompile events
    KECCAK_SPONGE,      \* the code whose events are weighed by their blocks
    Threshold,          \* SplitOpts: events (blocks) per precompile shard
    MemoryChunk,        \* SplitOpts::memory
    AddrWidth           \* bits of an address (32 in the code)

ASSUME SplitAssumption ==
    /\ IsFiniteSet(Codes) /\ KECCAK_SPONGE \in Codes
    /\ Threshold \in [Codes -> Nat \ {0}]
    /\ MemoryChunk \in Nat \ {0}
    /\ AddrWidth \in Nat

\* core::array::from_fn(|i| (addr >> i) & 1)
AddrBits(a) == [i \in 0 .. AddrWidth - 1 |-> (a \div 2^i) % 2]

ZeroBits == AddrBits(0)

\* PublicValues::default(). A digest is 0 when no word of it was committed.
PublicValuesDefault ==
    [shard |-> 0, execution_shard |-> 0, start_pc |-> 0, next_pc |-> 0,
     exit_code |-> 0, committed_value_digest |-> 0, deferred_proofs_digest |-> 0,
     previous_init_addr_bits |-> ZeroBits, last_init_addr_bits |-> ZeroBits,
     previous_finalize_addr_bits |-> ZeroBits, last_finalize_addr_bits |-> ZeroBits]

NoEvents == [c \in Codes |-> <<>>]

PublicValues ==
    LET Bits == [0 .. AddrWidth - 1 -> {0, 1}]
    IN [shard : Nat, execution_shard : Nat, start_pc : Nat, next_pc : Nat, exit_code : Nat,
        committed_value_digest : Nat, deferred_proofs_digest : Nat,
        previous_init_addr_bits : Bits, last_init_addr_bits : Bits,
        previous_finalize_addr_bits : Bits, last_finalize_addr_bits : Bits]

Event == [id : Nat, blocks : Nat]

Record ==
    [cpu : BOOLEAN, precompile : [Codes -> Seq(Event)], init : Seq(Nat),
     finalize : Seq(Nat), pv : PublicValues]

\* ExecutionRecord::new(program)
NewRecord ==
    [cpu |-> FALSE, precompile |-> NoEvents, init |-> <<>>, finalize |-> <<>>,
     pv |-> PublicValuesDefault]

-----------------------------------------------------------------------------
(* defer and append. *)

\* The events of several records, in their order.
PrecompileEvents(recs, c) == FlattenSeq([i \in DOMAIN recs |-> recs[i].precompile[c]])
InitEvents(recs) == FlattenSeq([i \in DOMAIN recs |-> recs[i].init])
FinalizeEvents(recs) == FlattenSeq([i \in DOMAIN recs |-> recs[i].finalize])

\* What ExecutionRecord::defer takes out of all the records of a batch ...
Deferred(recs) ==
    [NewRecord EXCEPT !.precompile = [c \in Codes |-> PrecompileEvents(recs, c)],
                      !.init = InitEvents(recs), !.finalize = FinalizeEvents(recs)]

\* ... and what is left of one of them.
AfterDefer(r) == [r EXCEPT !.precompile = NoEvents, !.init = <<>>, !.finalize = <<>>]

\* ExecutionRecord::append, on the events that are deferred.
Append2(d, r) ==
    [d EXCEPT !.precompile = [c \in Codes |-> d.precompile[c] \o r.precompile[c]],
              !.init = d.init \o r.init,
              !.finalize = d.finalize \o r.finalize]

\* The loop that appends the events of one record after the other.
DeferAll(d, recs) == Append2(d, Deferred(recs))

-----------------------------------------------------------------------------
(* Chunks. *)

\* slice::chunks(n), utils::chunk_vec(v, n): pieces of n, the last one shorter.
Chunks(s, n) ==
    [k \in 1 .. (Len(s) + n - 1) \div n |->
        SubSeq(s, (k - 1) * n + 1, IF k * n < Len(s) THEN k * n ELSE Len(s))]

\* Mutant of ChunksExact: the remainder goes with the first shard.
BugLongChunk(s, n) ==
    [full |-> IF Len(s) < n THEN <<>> ELSE <<s>>,
     rest |-> IF Len(s) < n THEN s ELSE <<>>]

\* slice::chunks_exact(n) and its remainder.
ChunksExact(s, n) ==
    [full |-> [k \in 1 .. Len(s) \div n |-> SubSeq(s, (k - 1) * n + 1, k * n)],
     rest |-> SubSeq(s, (Len(s) \div n) * n + 1, Len(s))]

\* The next event goes to the current shard, or to a new one when its blocks would
\* exceed the threshold; an event larger than the threshold has its own shard.
KeccakStep(acc, e, n) ==
    IF acc.len + e.blocks > n /\ acc.rest # <<>>
    THEN [full |-> Append(acc.full, acc.rest), rest |-> <<e>>, len |-> e.blocks]
    ELSE [acc EXCEPT !.rest = Append(@, e), !.len = @ + e.blocks]

\* The keccak branch: the shards after i events.
KeccakChunks(s, n) ==
    LET after[i \in 0 .. Len(s)] ==
            IF i = 0 THEN [full |-> <<>>, rest |-> <<>>, len |-> 0]
                     ELSE KeccakStep(after[i - 1], s[i], n)
    IN after[Len(s)]

ChunksOf(code, s) ==
    IF code = KECCAK_SPONGE
    THEN KeccakChunks(s, Threshold[code])
    ELSE ChunksExact(s, Threshold[code])

-----------------------------------------------------------------------------
(* split. *)

PrecompileShard(code, events) ==
    [NewRecord EXCEPT !.precompile[code] = events]

\* The shards of one syscall code; a remainder becomes a shard only at the end.
CodeShards(d, code, last) ==
    LET ch == ChunksOf(code, d.precompile[code])
        full == [k \in DOMAIN ch.full |-> PrecompileShard(code, ch.full[k])]
    IN IF last /\ ch.rest # <<>>
       THEN Append(full, PrecompileShard(code, ch.rest))
       ELSE full

\* The shards of all codes, in the order the hash map iterates over them.
PrecompileShards(d, last, order) ==
    FlattenSeq([i \in DOMAIN order |-> CodeShards(d, order[i], last)])

\* Mutant of Remainders: the events are taken out although they filled no shard.
BugDropRemainders(d, last) == [c \in Codes |-> <<>>]

\* What stays deferred: the remainders, unless this is the last call.
Remainders(d, last) ==
    [c \in Codes |->
        IF last THEN <<>> ELSE ChunksOf(c, d.precompile[c]).rest]

\* sort_by_key(|event| event.addr), a stable sort: the i-th event has i - 1 before it.
SortByAddr(s) ==
    LET Before(k) == {j \in DOMAIN s : s[j] < s[k] \/ (s[j] = s[k] /\ j < k)}
    IN [i \in 1 .. Len(s) |-> s[CHOOSE k \in DOMAIN s : Cardinality(Before(k)) = i - 1]]

\* Chunk k of a list of chunks, empty past its end (zip_longest).
ChunkAt(chunks, k) == IF k \in DOMAIN chunks THEN chunks[k] ELSE <<>>

\* The largest address of the chunks 1..k of a sorted list: 0 before the first.
\* A chunk that is missing on one side repeats the bits of the last one.
LastAddr(chunks, k) ==
    LET m == IF k < Len(chunks) THEN k ELSE Len(chunks)
    IN IF m = 0 THEN 0 ELSE Last(chunks[m])

\* Mutant of WithMemory: previous bits are those of the shard's own last address.
BugPreviousIsLast(r, inits, finalizes, k) ==
    [r EXCEPT !.init = @ \o ChunkAt(inits, k),
              !.finalize = @ \o ChunkAt(finalizes, k),
              !.pv.previous_init_addr_bits = AddrBits(LastAddr(inits, k)),
              !.pv.last_init_addr_bits = AddrBits(LastAddr(inits, k)),
              !.pv.previous_finalize_addr_bits = AddrBits(LastAddr(finalizes, k - 1)),
              !.pv.last_finalize_addr_bits = AddrBits(LastAddr(finalizes, k))]

\* Memory chunk k put into record r, with the address bits it starts and ends at.
WithMemory(r, inits, finalizes, k) ==
    [r EXCEPT !.init = @ \o ChunkAt(inits, k),
              !.finalize = @ \o ChunkAt(finalizes, k),
              !.pv.previous_init_addr_bits = AddrBits(LastAddr(inits, k - 1)),
              !.pv.last_init_addr_bits = AddrBits(LastAddr(inits, k)),
              !.pv.previous_finalize_addr_bits = AddrBits(LastAddr(finalizes, k - 1)),
              !.pv.last_finalize_addr_bits = AddrBits(LastAddr(finalizes, k))]

\* All of the first n memory chunks put into record r.
PackMemory(r, inits, finalizes, n) ==
    LET after[k \in 0 .. n] ==
            IF k = 0 THEN r ELSE WithMemory(after[k - 1], inits, finalizes, k)
    IN after[n]

NumMemoryChunks(inits, finalizes) ==
    IF Len(inits) > Len(finalizes) THEN Len(inits) ELSE Len(finalizes)

(***************************************************************************)
(* ExecutionRecord::split(last, last_record, opts) on the deferred record. *)
(* lastRecord is a sequence of zero or one records, the Option argument.   *)
(* The result is the new shards, the deferred record afterwards, and the   *)
(* last record, into which the memory events are packed when it was given  *)
(* and there are no precompile shards.  The memory events are sorted but   *)
(* stay in the deferred record.                                            *)
(***************************************************************************)
Split(d, last, lastRecord, order) ==
    LET pre == PrecompileShards(d, last, order)
        sorted == [d EXCEPT !.precompile = Remainders(d, last),
                            !.init = IF last THEN SortByAddr(@) ELSE @,
                            !.finalize = IF last THEN SortByAddr(@) ELSE @]
        inits == Chunks(sorted.init, MemoryChunk)
        finalizes == Chunks(sorted.finalize, MemoryChunk)
        n == IF last THEN NumMemoryChunks(inits, finalizes) ELSE 0
        pack == last /\ lastRecord # <<>> /\ pre = <<>>
    IN IF pack
       THEN [shards |-> <<>>,
             deferred |-> sorted,
             lastRecord |-> <<PackMemory(lastRecord[1], inits, finalizes, n)>>]
       ELSE [shards |-> pre \o [k \in 1 .. n |->
                                  WithMemory(NewRecord, inits, finalizes, k)],
             deferred |-> sorted,
             lastRecord |-> lastRecord]

\* The orders in which the hash map of events may be iterated over.
IterationOrders == SetToSeqs(Codes)
=============================================================================
