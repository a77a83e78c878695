----------------------- MODULE CheckpointReplayProofs -----------------------
(***************************************************************************)
(* CheckpointReplay, for every program of every length, every memory       *)
(* image, input, hook and option that CasesAssumption and                  *)
(* ExecutorAssumption allow, and every limit on the cycles.                *)
(*                                                                         *)
(* The inductive invariant, ReplayInv, holds between two turns of an       *)
(* executor's loop.  Its core is Fit: the executor has its types (Typed),  *)
(* the checkpoint of the batch has all that has changed since the batch    *)
(* began (Recorded), and every memory record and every open local event is *)
(* older than the clock (Bounded).  Within a cycle Bounded carries the     *)
(* locations that the instruction has touched and the position it has      *)
(* reached.  Inside an unconstrained block the records that count are      *)
(* those EXIT_UNCONSTRAINED would bring back (Back), so Bounded is asked   *)
(* of Back(ex) too (Sound).                                                *)
(*                                                                         *)
(* A recovered executor starts from the checkpoint alone.  That its        *)
(* records are old enough is OldMemory: an entry of the checkpoint is a    *)
(* record from before the batch, whatever the batch has done since.        *)
(*                                                                         *)
(* Blocks need a second invariant, BlockInv: EXIT_UNCONSTRAINED would lead *)
(* back to the executor that entered, but for the fields unconstrained     *)
(* code may write (VolatileFields).  The lemmas ...Agrees show that those  *)
(* fields have no effect on what the rest of the turn does.                *)
(*                                                                         *)
(* That a replay matches is a simulation, Sim, between the generator when  *)
(* it has taken some number of turns and the replay when it has taken as   *)
(* many.  MatchInv keeps the generator's states since the batch began as a *)
(* Trail: the lemmas ...Steps show that what one instruction does keeps    *)
(* Sim, as long as the checkpoint at the end has all that it reads.        *)
(*                                                                         *)
(* That the shards form a chain, ChainInv, follows what a replay traces:   *)
(* its open record begins where the closed ones end.  From one batch to    *)
(* the next it needs that the replay ended where the generator goes on.    *)
(***************************************************************************)
EXTENDS CheckpointReplay, FiniteSetTheorems, TLAPS

-----------------------------------------------------------------------------
(* What an executor is between and within cycles. *)

Fields ==
    {"opts", "pc", "next_pc", "clk", "global_clk", "current_shard", "exited",
     "next_is_delayslot", "records_clk", "records_clk_index", "memory",
     "uninitialized_memory", "input_stream", "input_stream_ptr", "public_values_stream",
     "memory_checkpoint", "uninitialized_memory_checkpoint", "mode", "unconstrained",
     "fork", "local_mem", "local_memory_access", "record", "records", "proof_stream",
     "proof_stream_ptr", "verify_deferred", "hooks", "digest", "deferred_digest",
     "status", "emit"}
ForkFields == {"global_clk", "clk", "pc", "memory_diff", "mode", "record"}

Locations == Addrs \cup Registers
Stamp == [value : Nat, shard : Nat, timestamp : Nat]
OptionalStamp == Stamp \cup {None}
ForwardEvent == {e \in [addr : Locations, initial : Stamp, final : Stamp] :
                    Earlier(e.initial, e.final)}
CpuEvent == [pc : Nat, next_pc : Nat]
TraceRecord == [cpu : Seq(CpuEvent), local : SUBSET ForwardEvent]

\* m maps some locations to members of S.
IsMap(m, S) == DOMAIN m \subseteq Locations /\ m \in [DOMAIN m -> S]

\* e is ex but for the fields of F.
Keeps(ex, e, F) == DOMAIN e = Fields /\ \A f \in Fields \ F : e[f] = ex[f]

ForkTyped(fork) ==
    /\ DOMAIN fork = ForkFields
    /\ fork.clk \in Nat /\ fork.global_clk \in Nat /\ fork.pc \in Nat
    /\ fork.record \in TraceRecord
    /\ IsMap(fork.memory_diff, OptionalStamp)

\* Only hinted words are marked as hinted.
Marks(marked, words) == \A a \in DOMAIN marked : marked[a] => a \in DOMAIN words

Typed(ex) ==
    /\ DOMAIN ex = Fields
    /\ Marks(ex.uninitialized_memory_checkpoint, ex.uninitialized_memory)
    /\ ex.pc \in Nat /\ ex.next_pc \in Nat /\ ex.clk \in Nat /\ ex.global_clk \in Nat
    /\ ex.current_shard \in Nat \ {0}
    /\ IsMap(ex.memory, Stamp)
    /\ IsMap(ex.uninitialized_memory, Nat)
    /\ IsMap(ex.memory_checkpoint, OptionalStamp)
    /\ ex.input_stream \in Seq(Nat)
    /\ ex.input_stream_ptr \in 0 .. Len(ex.input_stream)
    /\ ex.unconstrained \in BOOLEAN
    /\ IsMap(ex.local_memory_access, ForwardEvent)
    /\ ex.record \in TraceRecord /\ ex.records \in Seq(TraceRecord)
    /\ ex.unconstrained => ForkTyped(ex.fork)

\* Record r is older than (shard, t).
Before(r, shard, t) == r.shard < shard \/ (r.shard = shard /\ r.timestamp < t)

\* When location b was last touched, at most: the locations of X in this cycle, at a
\* position below n, the others before it.
Limit(ex, X, n, b) == IF b \in X THEN ex.clk + n ELSE ex.clk

Bounded(ex, X, n) ==
    /\ \A b \in DOMAIN ex.memory :
          Before(ex.memory[b], ex.current_shard, Limit(ex, X, n, b))
    /\ \A b \in DOMAIN ex.local_memory_access :
          Before(ex.local_memory_access[b].initial, ex.current_shard, Limit(ex, X, n, b))

\* The mode outside unconstrained blocks.
OuterMode(ex) == IF ex.unconstrained THEN ex.fork.mode ELSE ex.mode

\* The checkpoint of a batch that began as s has everything that has changed since.
Recorded(ex, s) ==
    /\ \A b \in DOMAIN ex.memory_checkpoint :
          ex.memory_checkpoint[b] = None
          \/ Before(ex.memory_checkpoint[b], s.current_shard, s.clk)
    /\ \A b \in DOMAIN ex.memory \ DOMAIN ex.memory_checkpoint :
          Before(ex.memory[b], s.current_shard, s.clk)
    /\ ex.unconstrained => DOMAIN ex.fork.memory_diff \subseteq DOMAIN ex.memory_checkpoint

Fit(ex, m, s, X, n) ==
    /\ Typed(ex)
    /\ OuterMode(ex) = m
    /\ m = "Checkpoint" => Recorded(ex, s)
    /\ ~ex.unconstrained => Bounded(ex, X, n)

-----------------------------------------------------------------------------
(* What an access leaves alone, and what it does to the rest. *)

LEMMA NewIsWhole ==
  ASSUME NEW h, NEW o
  PROVE  DOMAIN NewExecutor(h, o) = Fields
BY DEF NewExecutor, Fields

LEMMA KeepsAlso ==
  ASSUME NEW ex, NEW e, NEW d, NEW F, NEW G, NEW H, Keeps(ex, e, F), Keeps(e, d, G),
         F \cup G \subseteq H
  PROVE  Keeps(ex, d, H)
BY DEF Keeps

LEMMA PeekFacts ==
  ASSUME NEW ex, NEW a, DOMAIN ex = Fields
  PROVE  /\ Keeps(ex, Peek(ex, a), {"memory_checkpoint"})
         /\ Peek(ex, a).memory_checkpoint =
               IF ex.mode = "Checkpoint" \/ ex.unconstrained
               THEN OrInsert(ex.memory_checkpoint, a, Get(ex.memory, a))
               ELSE ex.memory_checkpoint
BY DEF Keeps, Peek, Fields

LEMMA SaveDiffFacts ==
  ASSUME NEW ex, NEW a, DOMAIN ex = Fields
  PROVE  /\ Keeps(ex, SaveDiff(ex, a), {"fork"})
         /\ SaveDiff(ex, a).fork =
               IF ex.unconstrained
               THEN [ex.fork EXCEPT !.memory_diff = OrInsert(@, a, Get(ex.memory, a))]
               ELSE ex.fork
BY DEF Keeps, SaveDiff, Fields

LEMMA MarkFacts ==
  ASSUME NEW ex, NEW a, DOMAIN ex = Fields
  PROVE  /\ Keeps(ex, MarkUninitialized(ex, a), {"uninitialized_memory_checkpoint"})
         /\ MarkUninitialized(ex, a).uninitialized_memory_checkpoint
               \in {ex.uninitialized_memory_checkpoint,
                    OrInsert(ex.uninitialized_memory_checkpoint, a, InitialValue(ex, a) # 0)}
BY DEF Keeps, MarkUninitialized, Fields

LEMMA CountFacts ==
  ASSUME NEW ex, NEW a, NEW b, DOMAIN ex = Fields
  PROVE  /\ Keeps(ex, CountLocal(ex, a, b), {"local_mem"})
         /\ ex.unconstrained \/ a \notin Addrs => CountLocal(ex, a, b) = ex
BY DEF Keeps, CountLocal, Fields

TouchedFields == {"memory_checkpoint", "fork", "uninitialized_memory_checkpoint", "local_mem",
                  "memory"}

Touches(ex, e, a, v, ts) ==
    /\ Keeps(ex, e, TouchedFields)
    /\ e.memory = Insert(ex.memory, a, [value |-> v, shard |-> ex.current_shard,
                                        timestamp |-> ts])
    /\ e.memory_checkpoint = Peek(ex, a).memory_checkpoint
    /\ e.fork = SaveDiff(ex, a).fork
    /\ e.uninitialized_memory_checkpoint
         \in {ex.uninitialized_memory_checkpoint,
              OrInsert(ex.uninitialized_memory_checkpoint, a, InitialValue(ex, a) # 0)}
    /\ ex.unconstrained \/ a \notin Addrs => e.local_mem = ex.local_mem

LEMMA TouchFacts ==
  ASSUME NEW ex, NEW a, NEW v, NEW ts, NEW b, DOMAIN ex = Fields
  PROVE  Touches(ex, Touch(ex, a, v, ts, b), a, v, ts)
<1> DEFINE e1 == Peek(ex, a)
           e2 == SaveDiff(e1, a)
           e3 == MarkUninitialized(e2, a)
           e4 == CountLocal(e3, a, b)
           r == [value |-> v, shard |-> ex.current_shard, timestamp |-> ts]
           e5 == [e4 EXCEPT !.memory = Insert(@, a, r)]
<1>1. Keeps(ex, e1, {"memory_checkpoint"})
  BY PeekFacts
<1>2. /\ DOMAIN e1 = Fields /\ e1.unconstrained = ex.unconstrained /\ e1.fork = ex.fork
      /\ e1.memory = ex.memory
  BY <1>1 DEF Keeps, Fields
<1>3. Keeps(e1, e2, {"fork"}) /\ e2.fork = SaveDiff(ex, a).fork
  <2> HIDE DEF e1
  <2>1. /\ Keeps(e1, e2, {"fork"})
        /\ e2.fork = IF e1.unconstrained
                     THEN [e1.fork EXCEPT !.memory_diff = OrInsert(@, a, Get(e1.memory, a))]
                     ELSE e1.fork
    BY <1>2, SaveDiffFacts
  <2>2. SaveDiff(ex, a).fork =
            IF ex.unconstrained
            THEN [ex.fork EXCEPT !.memory_diff = OrInsert(@, a, Get(ex.memory, a))]
            ELSE ex.fork
    BY SaveDiffFacts
  <2> QED
    BY <2>1, <2>2, <1>2
<1>4. /\ Keeps(e2, e3, {"uninitialized_memory_checkpoint"})
      /\ e3.uninitialized_memory_checkpoint
           \in {e2.uninitialized_memory_checkpoint,
                OrInsert(e2.uninitialized_memory_checkpoint, a, InitialValue(e2, a) # 0)}
  <2>1. DOMAIN e2 = Fields
    BY <1>3 DEF Keeps
  <2> HIDE DEF e2
  <2> QED
    BY <2>1, MarkFacts
<1>5. Keeps(e3, e4, {"local_mem"}) /\ (e3.unconstrained \/ a \notin Addrs => e4 = e3)
  BY <1>4, CountFacts DEF Keeps
<1> HIDE DEF e1, e2, e3, e4
<1>6. Keeps(ex, e4, {"memory_checkpoint", "fork", "uninitialized_memory_checkpoint",
                      "local_mem"})
  BY <1>1, <1>3, <1>4, <1>5 DEF Keeps
<1>7. /\ e4.memory_checkpoint = e1.memory_checkpoint /\ e4.fork = e2.fork
      /\ e4.memory = ex.memory /\ e3.unconstrained = ex.unconstrained
      /\ e3.local_mem = ex.local_mem
  BY <1>1, <1>3, <1>4, <1>5, <1>6 DEF Keeps, Fields
<1>8. e4.uninitialized_memory_checkpoint
           \in {ex.uninitialized_memory_checkpoint,
                OrInsert(ex.uninitialized_memory_checkpoint, a, InitialValue(ex, a) # 0)}
  <2>1. /\ e2.uninitialized_memory_checkpoint = ex.uninitialized_memory_checkpoint
        /\ e2.uninitialized_memory = ex.uninitialized_memory
        /\ e4.uninitialized_memory_checkpoint = e3.uninitialized_memory_checkpoint
    BY <1>1, <1>3, <1>5 DEF Keeps, Fields
  <2> QED
    BY <1>4, <2>1 DEF InitialValue
<1>9. Keeps(e4, e5, {"memory"}) /\ e5.memory = Insert(e4.memory, a, r)
  BY <1>6 DEF Keeps, Fields
<1> HIDE DEF e5
<1>10. Keeps(ex, e5, TouchedFields)
  BY <1>6, <1>9 DEF Keeps, TouchedFields
<1>11. /\ e5.memory_checkpoint = e4.memory_checkpoint /\ e5.fork = e4.fork
       /\ e5.local_mem = e4.local_mem
       /\ e5.uninitialized_memory_checkpoint = e4.uninitialized_memory_checkpoint
  BY <1>9 DEF Keeps, Fields
<1>12. Touch(ex, a, v, ts, b) = e5
  BY DEF Touch, e5, e4, e3, e2, e1
<1> QED
  BY <1>3, <1>5, <1>7, <1>9, <1>10, <1>11, <1>12, <1>8 DEF e1, Touches

-----------------------------------------------------------------------------
(* Maps. *)

LEMMA RemoveMap ==
  ASSUME NEW S, NEW m, NEW a, IsMap(m, S)
  PROVE  /\ IsMap(RemoveKey(m, a), S)
         /\ DOMAIN RemoveKey(m, a) = DOMAIN m \ {a}
         /\ \A b \in DOMAIN m \ {a} : RemoveKey(m, a)[b] = m[b]
BY DEF IsMap, RemoveKey, Restrict

LEMMA GetMap ==
  ASSUME NEW S, NEW m, NEW a, IsMap(m, S)
  PROVE  /\ Get(m, a) \in S \cup {None}
         /\ a \in DOMAIN m => Get(m, a) = m[a] /\ m[a] \in S
         /\ a \notin DOMAIN m => Get(m, a) = None
BY DEF IsMap, Get

LEMMA GetCases ==
  ASSUME NEW m, NEW a
  PROVE  \/ Get(m, a) = None
         \/ a \in DOMAIN m /\ Get(m, a) = m[a]
BY DEF Get

LEMMA RecordOfStamp ==
  ASSUME NEW ex, NEW a, Typed(ex)
  PROVE  /\ RecordOf(ex, a) \in Stamp
         /\ RecordOf(ex, a).value \in Nat /\ PeekValue(ex, a) \in Nat
         /\ InitialValue(ex, a) \in Nat
<1>1. InitialValue(ex, a) \in Nat
  BY DEF Typed, IsMap, InitialValue
<1>2. a \in DOMAIN ex.memory => ex.memory[a] \in Stamp
  BY DEF Typed, IsMap
<1>3. RecordOf(ex, a) \in Stamp
  BY <1>1, <1>2 DEF RecordOf, Stamp
<1> QED
  BY <1>1, <1>2, <1>3 DEF PeekValue, Stamp

-----------------------------------------------------------------------------
(* An access keeps the types and the checkpoint complete. *)

\* Checkpoint c is that of ex after a look at a.
CheckpointAfter(ex, c, a) ==
    /\ IsMap(c, OptionalStamp)
    /\ DOMAIN ex.memory_checkpoint \subseteq DOMAIN c
    /\ DOMAIN c \subseteq DOMAIN ex.memory_checkpoint \cup {a}
    /\ ex.mode = "Checkpoint" \/ ex.unconstrained => a \in DOMAIN c
    /\ \A b \in DOMAIN ex.memory_checkpoint : c[b] = ex.memory_checkpoint[b]
    /\ a \in DOMAIN c \ DOMAIN ex.memory_checkpoint => c[a] = Get(ex.memory, a)

LEMMA PeekTyped ==
  ASSUME NEW ex, NEW a \in Locations, Typed(ex)
  PROVE  CheckpointAfter(ex, Peek(ex, a).memory_checkpoint, a)
<1>1. DOMAIN ex = Fields /\ IsMap(ex.memory, Stamp)
      /\ IsMap(ex.memory_checkpoint, OptionalStamp)
  BY DEF Typed
<1>2. Get(ex.memory, a) \in OptionalStamp
  BY <1>1, GetMap DEF OptionalStamp
<1>3. \/ /\ ex.mode = "Checkpoint" \/ ex.unconstrained
         /\ Peek(ex, a).memory_checkpoint =
                OrInsert(ex.memory_checkpoint, a, Get(ex.memory, a))
      \/ /\ ~(ex.mode = "Checkpoint" \/ ex.unconstrained)
         /\ Peek(ex, a).memory_checkpoint = ex.memory_checkpoint
  BY <1>1, PeekFacts
<1> DEFINE v == Get(ex.memory, a)
           o == OrInsert(ex.memory_checkpoint, a, v)
<1>4. /\ IsMap(o, OptionalStamp)
      /\ DOMAIN o = DOMAIN ex.memory_checkpoint \cup {a}
      /\ a \notin DOMAIN ex.memory_checkpoint => o[a] = v
      /\ \A b \in DOMAIN ex.memory_checkpoint : o[b] = ex.memory_checkpoint[b]
  <2> DEFINE c == ex.memory_checkpoint
             p == OrInsert(c, a, v)
  <2>1. v \in OptionalStamp /\ IsMap(c, OptionalStamp)
    BY <1>1, <1>2
  <2> HIDE DEF v, c
  <2> QED
    BY <2>1 DEF OrInsert, IsMap, c
<1> HIDE DEF v, o
<1> QED
  BY <1>1, <1>3, <1>4 DEF o, v, CheckpointAfter

\* f is the fork of ex after an access to a.
DiffAfter(ex, f, a) ==
    /\ ~ex.unconstrained => f = ex.fork
    /\ ex.unconstrained =>
          /\ ForkTyped(f)
          /\ f.clk = ex.fork.clk /\ f.global_clk = ex.fork.global_clk
          /\ f.pc = ex.fork.pc /\ f.mode = ex.fork.mode
          /\ f.record = ex.fork.record
          /\ f.memory_diff = OrInsert(ex.fork.memory_diff, a, Get(ex.memory, a))
          /\ DOMAIN f.memory_diff = DOMAIN ex.fork.memory_diff \cup {a}
          /\ a \notin DOMAIN ex.fork.memory_diff => f.memory_diff[a] = Get(ex.memory, a)
          /\ \A b \in DOMAIN ex.fork.memory_diff :
                f.memory_diff[b] = ex.fork.memory_diff[b]

LEMMA DiffTyped ==
  ASSUME NEW ex, NEW a \in Locations, Typed(ex)
  PROVE  DiffAfter(ex, SaveDiff(ex, a).fork, a)
<1> DEFINE v == Get(ex.memory, a)
           f == SaveDiff(ex, a).fork
<1>1. DOMAIN ex = Fields /\ IsMap(ex.memory, Stamp)
  BY DEF Typed
<1>2. v \in OptionalStamp
  BY <1>1, GetMap DEF OptionalStamp
<1>3. f = IF ex.unconstrained
          THEN [ex.fork EXCEPT !.memory_diff = OrInsert(@, a, v)] ELSE ex.fork
  BY <1>1, SaveDiffFacts
<1> HIDE DEF v, f
<1>4. ASSUME ex.unconstrained
      PROVE  /\ ForkTyped(f)
             /\ f.clk = ex.fork.clk /\ f.global_clk = ex.fork.global_clk
             /\ f.pc = ex.fork.pc /\ f.mode = ex.fork.mode
             /\ f.record = ex.fork.record
             /\ f.memory_diff = OrInsert(ex.fork.memory_diff, a, v)
             /\ DOMAIN f.memory_diff = DOMAIN ex.fork.memory_diff \cup {a}
             /\ a \notin DOMAIN ex.fork.memory_diff => f.memory_diff[a] = v
             /\ \A b \in DOMAIN ex.fork.memory_diff :
                   f.memory_diff[b] = ex.fork.memory_diff[b]
  <2>1. ForkTyped(ex.fork)
    BY <1>4 DEF Typed
  <2>2. f = [ex.fork EXCEPT !.memory_diff = OrInsert(@, a, v)]
    BY <1>3, <1>4
  <2>3. /\ DOMAIN f = ForkFields
        /\ f.clk = ex.fork.clk /\ f.global_clk = ex.fork.global_clk
        /\ f.pc = ex.fork.pc /\ f.mode = ex.fork.mode
        /\ f.record = ex.fork.record
        /\ f.memory_diff = OrInsert(ex.fork.memory_diff, a, v)
    BY <2>1, <2>2 DEF ForkTyped, ForkFields
  <2>4. IsMap(ex.fork.memory_diff, OptionalStamp)
    BY <2>1 DEF ForkTyped
  <2>5. /\ IsMap(f.memory_diff, OptionalStamp)
        /\ DOMAIN f.memory_diff = DOMAIN ex.fork.memory_diff \cup {a}
        /\ a \notin DOMAIN ex.fork.memory_diff => f.memory_diff[a] = v
        /\ \A b \in DOMAIN ex.fork.memory_diff :
              f.memory_diff[b] = ex.fork.memory_diff[b]
    BY <1>2, <2>3, <2>4 DEF OrInsert, IsMap
  <2> QED
    BY <2>1, <2>3, <2>5 DEF ForkTyped
<1> QED
  BY <1>3, <1>4 DEF v, f, DiffAfter

\* The memory of e is that of ex but for location a, now touched at ts.
MemoryAfter(ex, e, a, ts) ==
    /\ e.memory[a] \in Stamp
    /\ e.memory[a].shard = ex.current_shard /\ e.memory[a].timestamp = ts
    /\ DOMAIN e.memory = DOMAIN ex.memory \cup {a}
    /\ \A c \in DOMAIN ex.memory \ {a} : e.memory[c] = ex.memory[c]

LEMMA TouchTyped ==
  ASSUME NEW ex, NEW a \in Locations, NEW v \in Nat, NEW ts \in Nat, NEW b, Typed(ex)
  PROVE  /\ Typed(Touch(ex, a, v, ts, b))
         /\ MemoryAfter(ex, Touch(ex, a, v, ts, b), a, ts)
         /\ CheckpointAfter(ex, Touch(ex, a, v, ts, b).memory_checkpoint, a)
         /\ DiffAfter(ex, Touch(ex, a, v, ts, b).fork, a)
<1> DEFINE e == Touch(ex, a, v, ts, b)
           r == [value |-> v, shard |-> ex.current_shard, timestamp |-> ts]
<1>1. /\ Keeps(ex, e, TouchedFields)
      /\ e.memory = Insert(ex.memory, a, r)
      /\ e.memory_checkpoint = Peek(ex, a).memory_checkpoint
      /\ e.fork = SaveDiff(ex, a).fork
      /\ e.uninitialized_memory_checkpoint
           \in {ex.uninitialized_memory_checkpoint,
                OrInsert(ex.uninitialized_memory_checkpoint, a, InitialValue(ex, a) # 0)}
  <2>1. DOMAIN ex = Fields
    BY DEF Typed
  <2>2. Touches(ex, e, a, v, ts)
    BY <2>1, TouchFacts
  <2> QED
    BY <2>2 DEF Touches
<1> HIDE DEF e
<1>2. r \in Stamp /\ r.shard = ex.current_shard /\ r.timestamp = ts
  BY DEF Typed, Stamp
<1>3. IsMap(ex.memory, Stamp)
  BY DEF Typed
<1> HIDE DEF r
<1>4. /\ IsMap(e.memory, Stamp)
      /\ e.memory[a] = r
      /\ DOMAIN e.memory = DOMAIN ex.memory \cup {a}
      /\ \A c \in DOMAIN ex.memory \ {a} : e.memory[c] = ex.memory[c]
  BY <1>1, <1>2, <1>3 DEF Insert, IsMap
<1>5. CheckpointAfter(ex, e.memory_checkpoint, a)
  BY <1>1, PeekTyped
<1>6. DiffAfter(ex, e.fork, a)
  BY <1>1, DiffTyped
<1>7. IsMap(e.memory_checkpoint, OptionalStamp) /\ (ex.unconstrained => ForkTyped(e.fork))
  BY <1>5, <1>6 DEF CheckpointAfter, DiffAfter
<1>8. Marks(e.uninitialized_memory_checkpoint, e.uninitialized_memory)
  <2> DEFINE c == ex.uninitialized_memory_checkpoint
             u == ex.uninitialized_memory
             v0 == InitialValue(ex, a) # 0
  <2>1. /\ Marks(c, u) /\ e.uninitialized_memory = u
        /\ e.uninitialized_memory_checkpoint \in {c, OrInsert(c, a, v0)}
    BY <1>1 DEF Typed, Keeps, TouchedFields, Fields
  <2>2. v0 => a \in DOMAIN u
    BY DEF InitialValue
  <2> HIDE DEF v0, c, u
  <2>3. Marks(OrInsert(c, a, v0), u)
    BY <2>1, <2>2 DEF Marks, OrInsert
  <2> QED
    BY <2>1, <2>3
<1>9. Typed(e)
  BY <1>1, <1>4, <1>7, <1>8 DEF Typed, Keeps, TouchedFields, Fields
<1>10. MemoryAfter(ex, e, a, ts)
  BY <1>2, <1>4 DEF MemoryAfter
<1> QED
  BY <1>5, <1>6, <1>9, <1>10 DEF e

LEMMA TouchRecorded ==
  ASSUME NEW ex, NEW e, NEW a, NEW ts, NEW s,
         Typed(ex), MemoryAfter(ex, e, a, ts), CheckpointAfter(ex, e.memory_checkpoint, a),
         DiffAfter(ex, e.fork, a), e.unconstrained = ex.unconstrained,
         ex.mode = "Checkpoint" \/ ex.unconstrained, Recorded(ex, s)
  PROVE  Recorded(e, s)
<1> DEFINE c == e.memory_checkpoint
<1>1. \/ Get(ex.memory, a) = None
      \/ a \in DOMAIN ex.memory /\ Get(ex.memory, a) = ex.memory[a]
  BY GetCases
<1>2. ASSUME NEW b \in DOMAIN c
      PROVE  c[b] = None \/ Before(c[b], s.current_shard, s.clk)
  <2>1. CASE b \in DOMAIN ex.memory_checkpoint
    BY <2>1 DEF CheckpointAfter, Recorded
  <2>2. CASE b \notin DOMAIN ex.memory_checkpoint
    <3>1. b = a /\ c[b] = Get(ex.memory, a)
      BY <1>2, <2>2 DEF CheckpointAfter
    <3> QED
      BY <1>1, <2>2, <3>1 DEF Recorded
  <2> QED
    BY <2>1, <2>2
<1>3. ASSUME NEW b \in DOMAIN e.memory \ DOMAIN c
      PROVE  Before(e.memory[b], s.current_shard, s.clk)
  <2>1. b # a /\ b \in DOMAIN ex.memory /\ b \notin DOMAIN ex.memory_checkpoint
    BY <1>3 DEF CheckpointAfter, MemoryAfter
  <2> QED
    BY <2>1 DEF MemoryAfter, Recorded
<1>4. e.unconstrained => DOMAIN e.fork.memory_diff \subseteq DOMAIN c
  BY DEF CheckpointAfter, DiffAfter, Recorded
<1> QED
  BY <1>2, <1>3, <1>4 DEF Recorded

-----------------------------------------------------------------------------
(* Peek, Access, SyscallWrite and Retire, one by one. *)

\* e is as good as ex: the same block, the same outer mode, the same clock.
Along(ex, e) ==
    /\ e.unconstrained = ex.unconstrained /\ e.clk = ex.clk
    /\ e.pc = ex.pc /\ e.next_pc = ex.next_pc /\ e.global_clk = ex.global_clk
    /\ e.status = ex.status /\ e.current_shard = ex.current_shard

LEMMA PeekFit ==
  ASSUME NEW ex, NEW m, NEW s, NEW X, NEW n, NEW a \in Locations, Fit(ex, m, s, X, n)
  PROVE  Fit(Peek(ex, a), m, s, X, n) /\ Along(ex, Peek(ex, a))
<1> DEFINE e == Peek(ex, a)
<1>1. Typed(ex) /\ DOMAIN ex = Fields
  BY DEF Fit, Typed
<1>2. Keeps(ex, e, {"memory_checkpoint"})
  BY <1>1, PeekFacts
<1>3. CheckpointAfter(ex, e.memory_checkpoint, a)
  BY <1>1, PeekTyped
<1> HIDE DEF e
<1>4. Typed(e)
  BY <1>1, <1>2, <1>3 DEF Typed, Keeps, Fields, CheckpointAfter
<1>5. /\ e.unconstrained = ex.unconstrained /\ e.mode = ex.mode /\ e.fork = ex.fork
      /\ e.memory = ex.memory /\ e.clk = ex.clk /\ e.current_shard = ex.current_shard
      /\ e.local_memory_access = ex.local_memory_access
  BY <1>2 DEF Keeps, Fields
<1>6. OuterMode(e) = m
  BY <1>5 DEF Fit, OuterMode
<1>7. ~e.unconstrained => Bounded(e, X, n)
  BY <1>5 DEF Fit, Bounded, Limit
<1>8. ASSUME m = "Checkpoint" PROVE Recorded(e, s)
  <2>1. Recorded(ex, s)
    BY <1>8 DEF Fit
  <2>2. \/ Get(ex.memory, a) = None
        \/ a \in DOMAIN ex.memory /\ Get(ex.memory, a) = ex.memory[a]
    BY GetCases
  <2> DEFINE c == e.memory_checkpoint
  <2>3. ASSUME NEW b \in DOMAIN c
        PROVE  c[b] = None \/ Before(c[b], s.current_shard, s.clk)
    <3>1. CASE b \in DOMAIN ex.memory_checkpoint
      BY <3>1, <1>3, <2>1 DEF CheckpointAfter, Recorded
    <3>2. CASE b \notin DOMAIN ex.memory_checkpoint
      <4>1. b = a /\ c[b] = Get(ex.memory, a)
        BY <2>3, <3>2, <1>3 DEF CheckpointAfter
      <4> QED
        BY <2>1, <2>2, <3>2, <4>1 DEF Recorded
    <3> QED
      BY <3>1, <3>2
  <2>4. DOMAIN ex.memory_checkpoint \subseteq DOMAIN c
    BY <1>3 DEF CheckpointAfter
  <2> QED
    BY <1>5, <2>1, <2>3, <2>4 DEF Recorded
<1>9. Along(ex, e)
  BY <1>2 DEF Along, Keeps, Fields
<1> QED
  BY <1>4, <1>6, <1>7, <1>8, <1>9 DEF Fit, e

LEMMA BeforeMono ==
  ASSUME NEW r \in Stamp, NEW c \in Nat, NEW t \in Nat, NEW u \in Nat, t <= u, Before(r, c, t)
  PROVE  Before(r, c, u)
BY DEF Before, Stamp

LEMMA BeforeEarlier ==
  ASSUME NEW r \in Stamp, NEW q \in Stamp, Before(r, q.shard, q.timestamp)
  PROVE  Earlier(r, q)
BY DEF Before, Earlier, Stamp

LEMMA EventFacts ==
  ASSUME NEW lm, IsMap(lm, ForwardEvent)
  PROVE  \A b \in DOMAIN lm :
            /\ lm[b] \in ForwardEvent /\ lm[b].addr \in Locations
            /\ lm[b].initial \in Stamp /\ lm[b].final \in Stamp
BY DEF IsMap, ForwardEvent

LocalEventsAfter(lm, l, a, p) ==
    /\ IsMap(l, ForwardEvent)
    /\ DOMAIN l = DOMAIN lm \cup {a}
    /\ \A b \in DOMAIN lm \ {a} : l[b] = lm[b]
    /\ a \in DOMAIN lm => l[a].initial = lm[a].initial
    /\ a \notin DOMAIN lm => l[a].initial = p

LEMMA LocalEventFit ==
  ASSUME NEW lm, IsMap(lm, ForwardEvent), NEW a \in Locations, NEW p \in Stamp,
         NEW q \in Stamp, Earlier(p, q), a \in DOMAIN lm => Earlier(lm[a].initial, q)
  PROVE  LocalEventsAfter(lm, LocalEvent(lm, a, p, q), a, p)
<1>1. CASE a \in DOMAIN lm
  <2> DEFINE d == [lm[a] EXCEPT !.final = q]
             l == [lm EXCEPT ![a] = d]
  <2>1. LocalEvent(lm, a, p, q) = l
    BY <1>1 DEF LocalEvent
  <2>2. lm[a] \in [addr : Locations, initial : Stamp, final : Stamp]
    BY <1>1 DEF IsMap, ForwardEvent
  <2>3. /\ d \in [addr : Locations, initial : Stamp, final : Stamp]
        /\ d.initial = lm[a].initial /\ d.final = q
    BY <2>2
  <2>4. d \in ForwardEvent
    BY <1>1, <2>3 DEF ForwardEvent
  <2> HIDE DEF d
  <2>5. l \in [DOMAIN lm -> ForwardEvent] /\ l[a] = d
    BY <1>1, <2>4 DEF IsMap
  <2> QED
    BY <1>1, <2>1, <2>3, <2>5 DEF IsMap, LocalEventsAfter
<1>2. CASE a \notin DOMAIN lm
  <2> DEFINE d == [addr |-> a, initial |-> p, final |-> q]
             l == Insert(lm, a, d)
  <2>1. LocalEvent(lm, a, p, q) = l
    BY <1>2 DEF LocalEvent
  <2>2. d \in ForwardEvent /\ d.initial = p
    BY DEF ForwardEvent
  <2> HIDE DEF d
  <2>3. IsMap(l, ForwardEvent) /\ DOMAIN l = DOMAIN lm \cup {a} /\ l[a] = d
    BY <2>2 DEF IsMap, Insert
  <2>4. \A b \in DOMAIN lm \ {a} : l[b] = lm[b]
    BY DEF Insert
  <2> HIDE DEF l
  <2> QED
    BY <1>2, <2>1, <2>2, <2>3, <2>4 DEF LocalEventsAfter
<1> QED
  BY <1>1, <1>2

\* A touch of location a in order.
LEMMA TouchBounded ==
  ASSUME NEW ex, NEW e, NEW X, NEW n \in Nat, NEW k \in Nat, NEW a \in Locations,
         NEW pos \in Nat, Typed(ex), Typed(e), MemoryAfter(ex, e, a, ex.clk + pos),
         Bounded(ex, X, n), n <= k, pos < k, e.clk = ex.clk,
         e.current_shard = ex.current_shard
  PROVE  /\ \A b \in DOMAIN e.memory :
               Before(e.memory[b], e.current_shard, Limit(e, X \cup {a}, k, b))
         /\ \A b : /\ Limit(ex, X, n, b) \in Nat /\ Limit(e, X \cup {a}, k, b) \in Nat
                   /\ Limit(ex, X, n, b) <= Limit(e, X \cup {a}, k, b)
<1>1. /\ ex.clk \in Nat /\ ex.current_shard \in Nat
      /\ IsMap(ex.memory, Stamp) /\ IsMap(e.memory, Stamp)
  BY DEF Typed
<1>2. \A b : /\ Limit(ex, X, n, b) \in Nat /\ Limit(e, X \cup {a}, k, b) \in Nat
             /\ Limit(ex, X, n, b) <= Limit(e, X \cup {a}, k, b)
  BY <1>1 DEF Limit
<1>3. ASSUME NEW b \in DOMAIN e.memory
      PROVE  Before(e.memory[b], e.current_shard, Limit(e, X \cup {a}, k, b))
  <2>1. CASE b = a
    <3>1. /\ e.memory[b].shard = ex.current_shard /\ e.memory[b].timestamp = ex.clk + pos
      BY <2>1 DEF MemoryAfter
    <3>2. Limit(e, X \cup {a}, k, b) = ex.clk + k
      BY <2>1 DEF Limit
    <3> QED
      BY <1>1, <3>1, <3>2 DEF Before
  <2>2. CASE b # a
    <3>1. b \in DOMAIN ex.memory /\ e.memory[b] = ex.memory[b]
      BY <2>2 DEF MemoryAfter
    <3>2. ex.memory[b] \in Stamp
      BY <1>1, <3>1 DEF IsMap
    <3>3. Before(ex.memory[b], ex.current_shard, Limit(ex, X, n, b))
      BY <3>1 DEF Bounded
    <3> QED
      BY <1>1, <1>2, <3>1, <3>2, <3>3, BeforeMono
  <2> QED
    BY <2>1, <2>2
<1> QED
  BY <1>2, <1>3

LEMMA OldRecord ==
  ASSUME NEW ex, NEW X, NEW n \in Nat, NEW a, NEW pos \in Nat, Typed(ex), Bounded(ex, X, n),
         a \notin X \/ n <= pos
  PROVE  /\ Before(RecordOf(ex, a), ex.current_shard, ex.clk + pos)
         /\ a \in DOMAIN ex.local_memory_access =>
               Before(ex.local_memory_access[a].initial, ex.current_shard, ex.clk + pos)
<1>1. /\ ex.clk \in Nat /\ ex.current_shard \in Nat \ {0}
      /\ IsMap(ex.memory, Stamp) /\ IsMap(ex.local_memory_access, ForwardEvent)
  BY DEF Typed
<1>2. /\ Limit(ex, X, n, a) \in Nat /\ ex.clk + pos \in Nat
      /\ Limit(ex, X, n, a) <= ex.clk + pos
  BY <1>1 DEF Limit
<1>3. Before(RecordOf(ex, a), ex.current_shard, ex.clk + pos)
  <2>1. CASE a \in DOMAIN ex.memory
    <3>1. ex.memory[a] \in Stamp /\ RecordOf(ex, a) = ex.memory[a]
      BY <1>1, <2>1 DEF IsMap, RecordOf
    <3>2. Before(ex.memory[a], ex.current_shard, Limit(ex, X, n, a))
      BY <2>1 DEF Bounded
    <3> QED
      BY <1>1, <1>2, <3>1, <3>2, BeforeMono
  <2>2. CASE a \notin DOMAIN ex.memory
    <3>1. RecordOf(ex, a).shard = 0
      BY <2>2 DEF RecordOf
    <3> QED
      BY <1>1, <3>1 DEF Before
  <2> QED
    BY <2>1, <2>2
<1>4. ASSUME a \in DOMAIN ex.local_memory_access
      PROVE  Before(ex.local_memory_access[a].initial, ex.current_shard, ex.clk + pos)
  <2>1. ex.local_memory_access[a].initial \in Stamp
    BY <1>1, <1>4, EventFacts
  <2>2. Before(ex.local_memory_access[a].initial, ex.current_shard, Limit(ex, X, n, a))
    BY <1>4 DEF Bounded
  <2> QED
    BY <1>1, <1>2, <2>1, <2>2, BeforeMono
<1> QED
  BY <1>3, <1>4

AccessedFields == TouchedFields \cup {"local_memory_access"}

LEMMA AccessFit ==
  ASSUME NEW ex, NEW m, NEW s, NEW X, NEW n \in Nat, NEW k \in Nat, NEW a \in Locations,
         NEW v \in Nat, NEW pos \in Nat, Fit(ex, m, s, X, n), n <= k, pos < k,
         ex.unconstrained \/ a \notin X \/ n <= pos
  PROVE  Fit(Access(ex, a, v, pos), m, s, X \cup {a}, k) /\ Along(ex, Access(ex, a, v, pos))
         /\ MemoryAfter(ex, Access(ex, a, v, pos), a, ex.clk + pos)
<1> DEFINE ts == ex.clk + pos
           t == Touch(ex, a, v, ts, FALSE)
           e == Access(ex, a, v, pos)
           l == LocalEvent(t.local_memory_access, a, RecordOf(ex, a), t.memory[a])
<1>1. Typed(ex) /\ DOMAIN ex = Fields /\ ex.clk \in Nat /\ ts \in Nat
  BY DEF Fit, Typed
<1>2. Touches(ex, t, a, v, ts)
  <2> HIDE DEF ts
  <2> QED
    BY <1>1, TouchFacts
<1>3. /\ Typed(t) /\ MemoryAfter(ex, t, a, ts) /\ CheckpointAfter(ex, t.memory_checkpoint, a)
      /\ DiffAfter(ex, t.fork, a)
  <2> HIDE DEF ts
  <2> QED
    BY <1>1, TouchTyped
<1>4. e = IF Tracing(ex) THEN [t EXCEPT !.local_memory_access = l] ELSE t
  BY DEF Access, WithLocalEvent
<1> HIDE DEF t, e, ts
<1>5. Keeps(ex, t, TouchedFields)
  BY <1>2 DEF Touches
<1>6. /\ t.unconstrained = ex.unconstrained /\ t.mode = ex.mode
      /\ t.clk = ex.clk /\ t.current_shard = ex.current_shard
      /\ t.local_memory_access = ex.local_memory_access /\ Along(ex, t)
  BY <1>5 DEF Keeps, Fields, TouchedFields, Along
<1>7. OuterMode(t) = m
  BY <1>3, <1>6 DEF Fit, OuterMode, DiffAfter
<1>8. m = "Checkpoint" => Recorded(t, s)
  <2> SUFFICES ASSUME m = "Checkpoint" PROVE Recorded(t, s)
    OBVIOUS
  <2>1. Recorded(ex, s)
    BY DEF Fit
  <2>2. ex.mode = "Checkpoint" \/ ex.unconstrained
    BY DEF Fit, OuterMode
  <2> QED
    BY <1>1, <1>3, <1>6, <2>1, <2>2, TouchRecorded
<1>9. ASSUME ~ex.unconstrained
      PROVE  /\ \A b \in DOMAIN t.memory :
                   Before(t.memory[b], t.current_shard, Limit(t, X \cup {a}, k, b))
             /\ \A b : /\ Limit(ex, X, n, b) \in Nat /\ Limit(t, X \cup {a}, k, b) \in Nat
                       /\ Limit(ex, X, n, b) <= Limit(t, X \cup {a}, k, b)
  <2>1. Bounded(ex, X, n)
    BY <1>9 DEF Fit
  <2> QED
    BY <2>1, <1>1, <1>3, <1>6, TouchBounded DEF ts
<1>10. /\ IsMap(ex.local_memory_access, ForwardEvent) /\ ex.current_shard \in Nat
       /\ \A b \in DOMAIN ex.local_memory_access :
             ex.local_memory_access[b].initial \in Stamp
  BY <1>1, EventFacts DEF Typed
<1>11. CASE Tracing(ex)
  <2>1. ~ex.unconstrained /\ Bounded(ex, X, n)
    BY <1>11 DEF Tracing, Fit
  <2>2. /\ Before(RecordOf(ex, a), ex.current_shard, ts)
        /\ a \in DOMAIN ex.local_memory_access =>
              Before(ex.local_memory_access[a].initial, ex.current_shard, ts)
    BY <1>1, <2>1, OldRecord DEF ts
  <2>3. RecordOf(ex, a) \in Stamp
    BY <1>1, RecordOfStamp
  <2>4. /\ t.memory[a] \in Stamp /\ t.memory[a].shard = ex.current_shard
        /\ t.memory[a].timestamp = ts
    BY <1>3 DEF MemoryAfter
  <2>5. Earlier(RecordOf(ex, a), t.memory[a])
    BY <2>2, <2>3, <2>4, BeforeEarlier
  <2>6. a \in DOMAIN ex.local_memory_access =>
            Earlier(ex.local_memory_access[a].initial, t.memory[a])
    BY <1>10, <2>2, <2>4, BeforeEarlier
  <2> DEFINE lm == ex.local_memory_access
  <2>7. /\ IsMap(l, ForwardEvent) /\ DOMAIN l = DOMAIN lm \cup {a}
        /\ \A b \in DOMAIN lm \ {a} : l[b] = lm[b]
        /\ a \in DOMAIN lm => l[a].initial = lm[a].initial
        /\ a \notin DOMAIN lm => l[a].initial = RecordOf(ex, a)
    <3> DEFINE p == RecordOf(ex, a)
               q == t.memory[a]
    <3>1. /\ IsMap(lm, ForwardEvent) /\ p \in Stamp /\ q \in Stamp /\ Earlier(p, q)
          /\ a \in DOMAIN lm => Earlier(lm[a].initial, q)
      BY <1>10, <2>3, <2>4, <2>5, <2>6
    <3>2. l = LocalEvent(lm, a, p, q)
      BY <1>6
    <3> HIDE DEF lm, p, q, l
    <3>3. LocalEventsAfter(lm, l, a, p)
      BY <3>1, <3>2, LocalEventFit
    <3> QED
      BY <3>3 DEF LocalEventsAfter, p
  <2>8. Keeps(t, e, {"local_memory_access"}) /\ e.local_memory_access = l
    BY <1>3, <1>4, <1>11 DEF Typed, Keeps, Fields
  <2> HIDE DEF l
  <2>9. Typed(e)
    BY <1>3, <2>7, <2>8 DEF Typed, Keeps, Fields
  <2>10. /\ e.memory = t.memory /\ e.memory_checkpoint = t.memory_checkpoint
         /\ e.fork = t.fork /\ e.unconstrained = t.unconstrained /\ e.mode = t.mode
         /\ e.clk = t.clk /\ e.current_shard = t.current_shard /\ Along(t, e)
    BY <2>8 DEF Keeps, Fields, Along
  <2>11. OuterMode(e) = m /\ (m = "Checkpoint" => Recorded(e, s))
    BY <1>7, <1>8, <2>10 DEF OuterMode, Recorded
  <2>12. \A b : Limit(e, X \cup {a}, k, b) = Limit(t, X \cup {a}, k, b)
    BY <2>10 DEF Limit
  <2>13. ASSUME NEW b \in DOMAIN l
         PROVE  Before(l[b].initial, ex.current_shard, Limit(t, X \cup {a}, k, b))
    <3>1. CASE b = a
      <4>1. Before(l[a].initial, ex.current_shard, ts) /\ l[a].initial \in Stamp
        BY <1>10, <2>2, <2>3, <2>7
      <4>2. /\ Limit(t, X \cup {a}, k, b) \in Nat /\ ts \in Nat
            /\ ts <= Limit(t, X \cup {a}, k, b)
        BY <1>1, <1>6, <3>1 DEF Limit, ts
      <4> QED
        BY <1>10, <3>1, <4>1, <4>2, BeforeMono
    <3>2. CASE b # a
      <4>1. b \in DOMAIN lm /\ l[b] = lm[b]
        BY <2>7, <3>2
      <4>2. lm[b].initial \in Stamp /\ Before(lm[b].initial, ex.current_shard, Limit(ex, X, n, b))
        BY <1>10, <2>1, <4>1 DEF Bounded
      <4> QED
        BY <1>9, <1>10, <2>1, <4>1, <4>2, BeforeMono
    <3> QED
      BY <3>1, <3>2
  <2>14. Bounded(e, X \cup {a}, k)
    BY <1>6, <1>9, <2>1, <2>8, <2>10, <2>12, <2>13 DEF Bounded
  <2>15. MemoryAfter(ex, e, a, ts)
    BY <1>3, <2>10 DEF MemoryAfter
  <2>16. Along(ex, e)
    BY <1>6, <2>10 DEF Along
  <2> QED
    BY <2>9, <2>11, <2>14, <2>15, <2>16 DEF Fit, e, ts
<1>12. CASE ~Tracing(ex)
  <2>1. e = t
    BY <1>4, <1>12
  <2>2. ASSUME ~t.unconstrained PROVE Bounded(t, X \cup {a}, k)
    <3>1. ~ex.unconstrained /\ Bounded(ex, X, n)
      BY <1>6, <2>2 DEF Fit
    <3>2. ASSUME NEW b \in DOMAIN t.local_memory_access
          PROVE  Before(t.local_memory_access[b].initial, t.current_shard,
                        Limit(t, X \cup {a}, k, b))
      <4>1. Before(ex.local_memory_access[b].initial, ex.current_shard, Limit(ex, X, n, b))
        BY <1>6, <3>1, <3>2 DEF Bounded
      <4> QED
        BY <1>6, <1>9, <1>10, <3>1, <3>2, <4>1, BeforeMono
    <3> QED
      BY <1>9, <3>1, <3>2 DEF Bounded
  <2> QED
    BY <1>3, <1>6, <1>7, <1>8, <2>1, <2>2 DEF Fit, e, ts
<1> QED
  BY <1>11, <1>12

LEMMA SyscallWriteFit ==
  ASSUME NEW ex, NEW m, NEW s, NEW X, NEW n \in Nat, NEW a \in Locations \ X,
         NEW v \in Nat, Fit(ex, m, s, X, n), ~ex.unconstrained, n # 0
  PROVE  Fit(SyscallWrite(ex, a, v), m, s, X \cup {a}, n) /\ Along(ex, SyscallWrite(ex, a, v))
<1> DEFINE ts == ex.clk
           t == Touch(ex, a, v, ts, TRUE)
           e == SyscallWrite(ex, a, v)
           lm == ex.local_memory_access
           event == [addr |-> a, initial |-> RecordOf(ex, a), final |-> t.memory[a]]
           cpu == {lm[b] : b \in {a} \cap DOMAIN lm}
<1>1. /\ Typed(ex) /\ DOMAIN ex = Fields /\ ts \in Nat /\ ts = ex.clk + 0 /\ ex.clk \in Nat
      /\ Bounded(ex, X, n)
  BY DEF Fit, Typed
<1>2. Touches(ex, t, a, v, ts)
  <2> HIDE DEF ts
  <2> QED
    BY <1>1, TouchFacts
<1>3. /\ Typed(t) /\ MemoryAfter(ex, t, a, ts) /\ CheckpointAfter(ex, t.memory_checkpoint, a)
      /\ DiffAfter(ex, t.fork, a)
  <2> HIDE DEF ts
  <2> QED
    BY <1>1, TouchTyped
<1>4. e = IF Tracing(ex)
          THEN [t EXCEPT !.record.local = @ \cup cpu \cup {event},
                         !.local_memory_access = RemoveKey(@, a)]
          ELSE t
  BY DEF SyscallWrite, WithSyscallEvent
<1> HIDE DEF t, e, ts
<1>5. Keeps(ex, t, TouchedFields)
  BY <1>2 DEF Touches
<1>6. /\ t.unconstrained = ex.unconstrained /\ t.mode = ex.mode
      /\ t.clk = ex.clk /\ t.current_shard = ex.current_shard
      /\ t.local_memory_access = ex.local_memory_access /\ Along(ex, t)
      /\ t.record = ex.record
  BY <1>5 DEF Keeps, Fields, TouchedFields, Along
<1>7. OuterMode(t) = m
  BY <1>3, <1>6 DEF Fit, OuterMode, DiffAfter
<1>8. m = "Checkpoint" => Recorded(t, s)
  <2> SUFFICES ASSUME m = "Checkpoint" PROVE Recorded(t, s)
    OBVIOUS
  <2>1. Recorded(ex, s)
    BY DEF Fit
  <2>2. ex.mode = "Checkpoint" \/ ex.unconstrained
    BY DEF Fit, OuterMode
  <2> QED
    BY <1>1, <1>3, <1>6, <2>1, <2>2, TouchRecorded
<1>9. /\ \A b \in DOMAIN t.memory :
            Before(t.memory[b], t.current_shard, Limit(t, X \cup {a}, n, b))
      /\ \A b : /\ Limit(ex, X, n, b) \in Nat /\ Limit(t, X \cup {a}, n, b) \in Nat
                /\ Limit(ex, X, n, b) <= Limit(t, X \cup {a}, n, b)
  <2>1. MemoryAfter(ex, t, a, ex.clk + 0)
    BY <1>1, <1>3
  <2> QED
    BY <2>1, <1>1, <1>3, <1>6, TouchBounded
<1>10. /\ IsMap(lm, ForwardEvent) /\ ex.current_shard \in Nat
       /\ \A b \in DOMAIN lm : lm[b].initial \in Stamp /\ lm[b] \in ForwardEvent
  BY <1>1, EventFacts DEF Typed
<1>11. ASSUME NEW b \in DOMAIN lm
       PROVE  Before(lm[b].initial, t.current_shard, Limit(t, X \cup {a}, n, b))
  <2>1. Before(lm[b].initial, ex.current_shard, Limit(ex, X, n, b))
    BY <1>1 DEF Bounded
  <2> QED
    BY <1>6, <1>9, <1>10, <2>1, BeforeMono
<1>12. CASE Tracing(ex)
  <2>1. Before(RecordOf(ex, a), ex.current_shard, ts)
    BY <1>1, OldRecord
  <2>2. RecordOf(ex, a) \in Stamp
    BY <1>1, RecordOfStamp
  <2>3. /\ t.memory[a] \in Stamp /\ t.memory[a].shard = ex.current_shard
        /\ t.memory[a].timestamp = ts
    BY <1>3 DEF MemoryAfter
  <2>4. Earlier(RecordOf(ex, a), t.memory[a])
    BY <2>1, <2>2, <2>3, BeforeEarlier
  <2>5. event \in ForwardEvent /\ cpu \subseteq ForwardEvent
    BY <1>10, <2>2, <2>3, <2>4 DEF ForwardEvent
  <2> HIDE DEF event, cpu
  <2> DEFINE l == RemoveKey(lm, a)
             r == [ex.record EXCEPT !.local = @ \cup cpu \cup {event}]
  <2>6. ex.record \in TraceRecord
    BY <1>1 DEF Typed
  <2>7. r \in TraceRecord
    BY <2>5, <2>6 DEF TraceRecord
  <2>8. /\ IsMap(l, ForwardEvent) /\ DOMAIN l \subseteq DOMAIN lm
        /\ \A b \in DOMAIN l : l[b] = lm[b]
    BY <1>10 DEF IsMap, RemoveKey, Restrict
  <2>9. /\ Keeps(t, e, {"local_memory_access", "record"}) /\ e.local_memory_access = l
        /\ e.record = r
    BY <1>3, <1>4, <1>6, <1>12 DEF Typed, Keeps, Fields
  <2> HIDE DEF l, r
  <2>10. Typed(e)
    BY <1>3, <2>7, <2>8, <2>9 DEF Typed, Keeps, Fields
  <2>11. /\ e.memory = t.memory /\ e.memory_checkpoint = t.memory_checkpoint
         /\ e.fork = t.fork /\ e.unconstrained = t.unconstrained /\ e.mode = t.mode
         /\ e.clk = t.clk /\ e.current_shard = t.current_shard /\ Along(t, e)
    BY <2>9 DEF Keeps, Fields, Along
  <2>12. OuterMode(e) = m /\ (m = "Checkpoint" => Recorded(e, s))
    BY <1>7, <1>8, <2>11 DEF OuterMode, Recorded
  <2>13. \A b : Limit(e, X \cup {a}, n, b) = Limit(t, X \cup {a}, n, b)
    BY <2>11 DEF Limit
  <2> HIDE DEF lm
  <2>14. Bounded(e, X \cup {a}, n)
    BY <1>9, <1>11, <2>8, <2>9, <2>11, <2>13 DEF Bounded
  <2>15. Along(ex, e)
    BY <1>6, <2>11 DEF Along
  <2> QED
    BY <2>10, <2>12, <2>14, <2>15 DEF Fit, e
<1>13. CASE ~Tracing(ex)
  <2>1. e = t
    BY <1>4, <1>13
  <2>2. Bounded(t, X \cup {a}, n)
    BY <1>6, <1>9, <1>11 DEF Bounded
  <2> QED
    BY <1>3, <1>6, <1>7, <1>8, <2>1, <2>2 DEF Fit, e
<1> QED
  BY <1>12, <1>13

\* What may change without a bearing on Fit.
LooseFields ==
    {"opts", "exited", "next_is_delayslot", "records_clk", "records_clk_index",
     "public_values_stream", "local_mem", "proof_stream",
     "proof_stream_ptr", "verify_deferred", "hooks", "digest", "deferred_digest", "emit"}

LEMMA StatusFit ==
  ASSUME NEW ex, NEW e, NEW m, NEW s, NEW X, NEW n, Fit(ex, m, s, X, n),
         Keeps(ex, e, LooseFields \cup {"status"})
  PROVE  Fit(e, m, s, X, n)
<1>1. /\ e.pc = ex.pc /\ e.next_pc = ex.next_pc /\ e.clk = ex.clk
      /\ e.global_clk = ex.global_clk /\ e.current_shard = ex.current_shard
      /\ e.memory = ex.memory /\ e.uninitialized_memory = ex.uninitialized_memory
      /\ e.input_stream = ex.input_stream /\ e.input_stream_ptr = ex.input_stream_ptr
      /\ e.memory_checkpoint = ex.memory_checkpoint /\ e.mode = ex.mode
      /\ e.unconstrained = ex.unconstrained /\ e.fork = ex.fork
      /\ e.local_memory_access = ex.local_memory_access
      /\ e.record = ex.record /\ e.records = ex.records /\ DOMAIN e = Fields
      /\ e.uninitialized_memory_checkpoint = ex.uninitialized_memory_checkpoint
  BY DEF Keeps, Fields, LooseFields
<1>2. Typed(e)
  BY <1>1 DEF Fit, Typed
<1>3. OuterMode(e) = m
  BY <1>1 DEF Fit, OuterMode
<1>4. m = "Checkpoint" => Recorded(e, s)
  BY <1>1 DEF Fit, Recorded
<1>5. ~e.unconstrained => Bounded(e, X, n)
  BY <1>1 DEF Fit, Bounded, Limit
<1> QED
  BY <1>2, <1>3, <1>4, <1>5 DEF Fit

LEMMA LooseFit ==
  ASSUME NEW ex, NEW e, NEW m, NEW s, NEW X, NEW n, Fit(ex, m, s, X, n),
         Keeps(ex, e, LooseFields)
  PROVE  Fit(e, m, s, X, n)
<1>1. Keeps(ex, e, LooseFields \cup {"status"})
  BY DEF Keeps
<1> QED
  BY <1>1, StatusFit

\* The clock advances past what the cycle did.
LEMMA MoveFit ==
  ASSUME NEW ex, NEW e, NEW m, NEW s, NEW X, NEW n \in Nat, NEW Y, NEW k \in Nat,
         Fit(ex, m, s, X, n), Keeps(ex, e, {"clk", "pc", "next_pc", "record", "global_clk"}),
         e.clk \in Nat, e.pc \in Nat, e.next_pc \in Nat, e.global_clk \in Nat,
         e.record \in TraceRecord,
         \A b : Limit(ex, X, n, b) <= Limit(e, Y, k, b)
  PROVE  Fit(e, m, s, Y, k)
<1>1. /\ e.current_shard = ex.current_shard
      /\ e.memory = ex.memory /\ e.uninitialized_memory = ex.uninitialized_memory
      /\ e.input_stream = ex.input_stream /\ e.input_stream_ptr = ex.input_stream_ptr
      /\ e.memory_checkpoint = ex.memory_checkpoint /\ e.mode = ex.mode
      /\ e.unconstrained = ex.unconstrained /\ e.fork = ex.fork
      /\ e.local_memory_access = ex.local_memory_access
      /\ e.records = ex.records /\ DOMAIN e = Fields
      /\ e.uninitialized_memory_checkpoint = ex.uninitialized_memory_checkpoint
  BY DEF Keeps, Fields
<1>2. Typed(e)
  BY <1>1 DEF Fit, Typed
<1>3. OuterMode(e) = m
  BY <1>1 DEF Fit, OuterMode
<1>4. m = "Checkpoint" => Recorded(e, s)
  BY <1>1 DEF Fit, Recorded
<1>5. ASSUME ~e.unconstrained PROVE Bounded(e, Y, k)
  <2>1. Bounded(ex, X, n)
    BY <1>1, <1>5 DEF Fit
  <2>2. /\ e.current_shard \in Nat /\ IsMap(ex.memory, Stamp) /\ ex.clk \in Nat
        /\ IsMap(ex.local_memory_access, ForwardEvent)
    BY <1>1 DEF Fit, Typed
  <2>3. \A b : Limit(ex, X, n, b) \in Nat /\ Limit(e, Y, k, b) \in Nat
    BY <2>2 DEF Limit
  <2>4. ASSUME NEW b \in DOMAIN ex.memory
        PROVE  Before(ex.memory[b], e.current_shard, Limit(e, Y, k, b))
    <3>1. ex.memory[b] \in Stamp
      BY <2>2 DEF IsMap
    <3>2. Before(ex.memory[b], e.current_shard, Limit(ex, X, n, b))
      BY <1>1, <2>1 DEF Bounded
    <3> QED
      BY <2>2, <2>3, <3>1, <3>2, BeforeMono
  <2>5. ASSUME NEW b \in DOMAIN ex.local_memory_access
        PROVE  Before(ex.local_memory_access[b].initial, e.current_shard, Limit(e, Y, k, b))
    <3>1. ex.local_memory_access[b].initial \in Stamp
      BY <2>2, EventFacts
    <3>2. Before(ex.local_memory_access[b].initial, e.current_shard, Limit(ex, X, n, b))
      BY <1>1, <2>1 DEF Bounded
    <3> QED
      BY <2>2, <2>3, <3>1, <3>2, BeforeMono
  <2> QED
    BY <1>1, <2>4, <2>5 DEF Bounded
<1> QED
  BY <1>2, <1>3, <1>4, <1>5 DEF Fit

Retired(ex, e, pc, next, nextNext) ==
    /\ Keeps(ex, e, {"clk", "pc", "next_pc", "record"})
    /\ e.clk = ex.clk + 5 /\ e.pc = next /\ e.next_pc = nextNext
    /\ e.record = IF ex.mode = "Trace"
                  THEN [ex.record EXCEPT !.cpu = Append(@, [pc |-> pc, next_pc |-> next])]
                  ELSE ex.record

LEMMA RetireFacts ==
  ASSUME NEW ex, NEW pc, NEW next, NEW nextNext, DOMAIN ex = Fields
  PROVE  Retired(ex, Retire(ex, pc, next, nextNext), pc, next, nextNext)
BY DEF Retire, Retired, Keeps, Fields

LEMMA RetireFit ==
  ASSUME NEW ex, NEW m, NEW s, NEW X, NEW n \in Nat, NEW pc \in Nat, NEW next \in Nat,
         NEW nextNext \in Nat, Fit(ex, m, s, X, n), n <= 5
  PROVE  Fit(Retire(ex, pc, next, nextNext), m, s, {}, 0)
<1> DEFINE e == Retire(ex, pc, next, nextNext)
<1>1. Typed(ex) /\ DOMAIN ex = Fields /\ ex.clk \in Nat /\ ex.record \in TraceRecord
      /\ ex.global_clk \in Nat
  BY DEF Fit, Typed
<1>2. /\ Keeps(ex, e, {"clk", "pc", "next_pc", "record"})
      /\ e.clk = ex.clk + 5 /\ e.pc = next /\ e.next_pc = nextNext
      /\ e.record = IF ex.mode = "Trace"
                    THEN [ex.record EXCEPT !.cpu = Append(@, [pc |-> pc, next_pc |-> next])]
                    ELSE ex.record
  <2>1. Retired(ex, e, pc, next, nextNext)
    BY <1>1, RetireFacts
  <2> QED
    BY <2>1 DEF Retired
<1> HIDE DEF e
<1>3. e.record \in TraceRecord
  <2>1. [pc |-> pc, next_pc |-> next] \in CpuEvent
    BY DEF CpuEvent
  <2> DEFINE ev == [pc |-> pc, next_pc |-> next]
             c == Append(ex.record.cpu, ev)
  <2>2. ex.record.cpu \in Seq(CpuEvent)
    BY <1>1 DEF TraceRecord
  <2> HIDE DEF ev
  <2>3. c \in Seq(CpuEvent)
    BY <2>1, <2>2 DEF ev
  <2>4. \/ e.record = [ex.record EXCEPT !.cpu = c]
        \/ e.record = ex.record
    BY <1>2 DEF ev
  <2> HIDE DEF c
  <2> QED
    BY <1>1, <2>3, <2>4 DEF TraceRecord
<1>4. /\ Keeps(ex, e, {"clk", "pc", "next_pc", "record", "global_clk"})
      /\ e.global_clk = ex.global_clk /\ e.unconstrained = ex.unconstrained
      /\ e.status = ex.status
  BY <1>2 DEF Keeps, Fields
<1>5. \A b : Limit(ex, X, n, b) <= Limit(e, {}, 0, b)
  BY <1>1, <1>2 DEF Limit
<1>6. e.clk \in Nat /\ e.pc \in Nat /\ e.next_pc \in Nat /\ e.global_clk \in Nat
  BY <1>1, <1>2, <1>4
<1>7. Fit(e, m, s, {}, 0)
  BY <1>3, <1>4, <1>5, <1>6, MoveFit
<1> QED
  BY <1>4, <1>7 DEF e

-----------------------------------------------------------------------------
(* Unconstrained code: what EXIT_UNCONSTRAINED will lead back to. *)

Back(ex) == EXIT_UNCONSTRAINED(ex).ex

RestoredFields == {"global_clk", "clk", "pc", "memory", "record", "mode", "unconstrained",
                   "fork"}
\* What unconstrained code may leave changed.
VolatileFields == {"input_stream", "public_values_stream", "memory_checkpoint",
                   "uninitialized_memory_checkpoint", "next_pc", "next_is_delayslot"}

\* Unconstrained code has led from ex to e.
Stable(ex, e) == /\ Keeps(Back(ex), Back(e), VolatileFields)
                 /\ e.unconstrained /\ e.status = ex.status

LEMMA RestoreSame ==
  ASSUME NEW memory, NEW diff, NEW a, NEW r, IsMap(memory, Stamp), IsMap(diff, OptionalStamp),
         r \in Stamp
  PROVE  Restore(Insert(memory, a, r), OrInsert(diff, a, Get(memory, a)))
            = Restore(memory, diff)
<1> DEFINE memory2 == Insert(memory, a, r)
           diff2 == OrInsert(diff, a, Get(memory, a))
           added == {b \in DOMAIN diff : diff[b] = None}
           added2 == {b \in DOMAIN diff2 : diff2[b] = None}
           D == (DOMAIN memory \cup DOMAIN diff) \ added
           D2 == (DOMAIN memory2 \cup DOMAIN diff2) \ added2
<1>1. None \notin Stamp
  BY ExecutorAssumption DEF Stamp
<1>2. a \in DOMAIN memory => memory[a] # None /\ Get(memory, a) = memory[a]
  BY <1>1 DEF IsMap, Get
<1>3. a \notin DOMAIN memory => Get(memory, a) = None
  BY DEF Get
<1>4. /\ DOMAIN memory2 = DOMAIN memory \cup {a}
      /\ \A b \in DOMAIN memory \ {a} : memory2[b] = memory[b]
  BY DEF Insert
<1>5. /\ DOMAIN diff2 = DOMAIN diff \cup {a}
      /\ \A b \in DOMAIN diff : diff2[b] = diff[b]
      /\ a \notin DOMAIN diff => diff2[a] = Get(memory, a)
  BY DEF OrInsert, IsMap
<1> HIDE DEF memory2, diff2
<1>6. D2 = D
  BY <1>2, <1>3, <1>4, <1>5
<1>7. ASSUME NEW b \in D
      PROVE  (IF b \in DOMAIN diff2 THEN diff2[b] ELSE memory2[b])
                = (IF b \in DOMAIN diff THEN diff[b] ELSE memory[b])
  BY <1>2, <1>3, <1>4, <1>5
<1>8. /\ Restore(memory, diff)
            = [b \in D |-> IF b \in DOMAIN diff THEN diff[b] ELSE memory[b]]
      /\ Restore(memory2, diff2)
            = [b \in D2 |-> IF b \in DOMAIN diff2 THEN diff2[b] ELSE memory2[b]]
  BY DEF Restore
<1> HIDE DEF D, D2
<1>9. Restore(memory2, diff2) = Restore(memory, diff)
  BY <1>6, <1>7, <1>8
<1> QED
  BY <1>9 DEF memory2, diff2

LEMMA BackFacts ==
  ASSUME NEW ex, DOMAIN ex = Fields, ex.unconstrained
  PROVE  /\ Keeps(ex, Back(ex), RestoredFields)
         /\ Back(ex).global_clk = ex.fork.global_clk
         /\ Back(ex).clk = ex.fork.clk
         /\ Back(ex).pc = ex.fork.pc
         /\ Back(ex).memory = Restore(ex.memory, ex.fork.memory_diff)
         /\ Back(ex).record = ex.fork.record
         /\ Back(ex).mode = ex.fork.mode
         /\ Back(ex).unconstrained = FALSE
         /\ Back(ex).fork = NoFork
         /\ EXIT_UNCONSTRAINED(ex).ret = 0
         /\ EXIT_UNCONSTRAINED(ex).next = ex.fork.pc + 1
         /\ EXIT_UNCONSTRAINED(ex).cycles = 0
BY DEF Back, EXIT_UNCONSTRAINED, Keeps, Fields, RestoredFields

LEMMA StableBy ==
  ASSUME NEW ex, NEW e, DOMAIN ex = Fields, ex.unconstrained, e.unconstrained,
         e.status = ex.status, Keeps(ex, e, RestoredFields \cup VolatileFields),
         e.fork.clk = ex.fork.clk, e.fork.global_clk = ex.fork.global_clk,
         e.fork.pc = ex.fork.pc, e.fork.record = ex.fork.record,
         e.fork.mode = ex.fork.mode,
         Restore(e.memory, e.fork.memory_diff) = Restore(ex.memory, ex.fork.memory_diff)
  PROVE  Stable(ex, e)
<1>1. DOMAIN e = Fields
  BY DEF Keeps
<1> DEFINE b1 == Back(ex)
           b2 == Back(e)
<1>2. /\ Keeps(ex, b1, RestoredFields)
      /\ b1.global_clk = ex.fork.global_clk /\ b1.clk = ex.fork.clk /\ b1.pc = ex.fork.pc
      /\ b1.memory = Restore(ex.memory, ex.fork.memory_diff)
      /\ b1.record = ex.fork.record /\ b1.mode = ex.fork.mode
      /\ b1.unconstrained = FALSE /\ b1.fork = NoFork
  BY BackFacts
<1>3. /\ Keeps(e, b2, RestoredFields)
      /\ b2.global_clk = e.fork.global_clk /\ b2.clk = e.fork.clk /\ b2.pc = e.fork.pc
      /\ b2.memory = Restore(e.memory, e.fork.memory_diff)
      /\ b2.record = e.fork.record /\ b2.mode = e.fork.mode
      /\ b2.unconstrained = FALSE /\ b2.fork = NoFork
  BY <1>1, BackFacts
<1> HIDE DEF b1, b2
<1>4. ASSUME NEW f \in Fields \ VolatileFields
      PROVE  b2[f] = b1[f]
  <2>1. CASE f \notin RestoredFields
    <3>1. b2[f] = e[f] /\ b1[f] = ex[f]
      BY <1>2, <1>3, <1>4, <2>1 DEF Keeps
    <3>2. e[f] = ex[f]
      BY <1>4, <2>1 DEF Keeps
    <3> QED
      BY <3>1, <3>2
  <2>2. CASE f \in RestoredFields
    BY <1>2, <1>3, <2>2 DEF RestoredFields
  <2> QED
    BY <2>1, <2>2
<1>5. Keeps(b1, b2, VolatileFields)
  BY <1>3, <1>4 DEF Keeps
<1> QED
  BY <1>5 DEF Stable, b1, b2

LEMMA StableTrans ==
  ASSUME NEW ex, NEW e, NEW d, Stable(ex, e), Stable(e, d)
  PROVE  Stable(ex, d)
BY DEF Stable, Keeps

LEMMA PeekStable ==
  ASSUME NEW ex, NEW a, DOMAIN ex = Fields, ex.unconstrained
  PROVE  Stable(ex, Peek(ex, a))
<1> DEFINE e == Peek(ex, a)
<1>1. Keeps(ex, e, {"memory_checkpoint"})
  BY PeekFacts
<1> HIDE DEF e
<1>2. /\ e.unconstrained = ex.unconstrained /\ e.fork = ex.fork /\ e.memory = ex.memory
      /\ e.status = ex.status
      /\ Keeps(ex, e, RestoredFields \cup VolatileFields)
  BY <1>1 DEF Keeps, Fields, VolatileFields
<1> QED
  BY <1>2, StableBy DEF e

LEMMA AccessStable ==
  ASSUME NEW ex, NEW a \in Locations, NEW v \in Nat, NEW pos \in Nat, Typed(ex),
         ex.unconstrained
  PROVE  Stable(ex, Access(ex, a, v, pos))
<1> DEFINE ts == ex.clk + pos
           t == Touch(ex, a, v, ts, FALSE)
           r == [value |-> v, shard |-> ex.current_shard, timestamp |-> ts]
<1>1. DOMAIN ex = Fields /\ ts \in Nat /\ r \in Stamp
  BY DEF Typed, Stamp
<1>2. Touches(ex, t, a, v, ts) /\ DiffAfter(ex, t.fork, a)
  <2> HIDE DEF ts
  <2> QED
    BY <1>1, TouchFacts, TouchTyped
<1>3. Access(ex, a, v, pos) = t
  BY DEF Access, WithLocalEvent, Tracing
<1> HIDE DEF t, ts
<1>4. /\ Keeps(ex, t, TouchedFields) /\ t.memory = Insert(ex.memory, a, r)
      /\ t.local_mem = ex.local_mem
  BY <1>2 DEF Touches
<1> HIDE DEF r
<1>5. /\ t.unconstrained = ex.unconstrained /\ t.status = ex.status
      /\ Keeps(ex, t, RestoredFields \cup VolatileFields)
  <2>1. \A f \in Fields \ (TouchedFields \ {"local_mem"}) : t[f] = ex[f]
    BY <1>4 DEF Keeps
  <2> QED
    BY <1>4, <2>1 DEF Keeps, Fields, TouchedFields, RestoredFields, VolatileFields
<1>6. /\ t.fork.clk = ex.fork.clk /\ t.fork.global_clk = ex.fork.global_clk
      /\ t.fork.pc = ex.fork.pc /\ t.fork.mode = ex.fork.mode
      /\ t.fork.record = ex.fork.record
      /\ t.fork.memory_diff = OrInsert(ex.fork.memory_diff, a, Get(ex.memory, a))
  BY <1>2 DEF DiffAfter
<1>7. Restore(t.memory, t.fork.memory_diff) = Restore(ex.memory, ex.fork.memory_diff)
  <2>1. IsMap(ex.memory, Stamp) /\ IsMap(ex.fork.memory_diff, OptionalStamp)
    BY DEF Typed, ForkTyped
  <2> QED
    BY <1>1, <1>4, <1>6, <2>1, RestoreSame
<1> QED
  BY <1>1, <1>3, <1>5, <1>6, <1>7, StableBy

LEMMA MoveStable ==
  ASSUME NEW ex, NEW e, DOMAIN ex = Fields, ex.unconstrained,
         Keeps(ex, e, {"clk", "pc", "next_pc", "record", "global_clk"} \cup VolatileFields)
  PROVE  Stable(ex, e)
<1>1. /\ e.unconstrained = ex.unconstrained /\ e.fork = ex.fork /\ e.memory = ex.memory
      /\ e.status = ex.status
      /\ Keeps(ex, e, RestoredFields \cup VolatileFields)
  BY DEF Keeps, Fields, VolatileFields, RestoredFields
<1> QED
  BY <1>1, StableBy

LEMMA StableBounded ==
  ASSUME NEW ex, NEW e, NEW X, NEW n, Stable(ex, e), Bounded(Back(ex), X, n)
  PROVE  Bounded(Back(e), X, n)
<1>1. /\ Back(e).memory = Back(ex).memory /\ Back(e).clk = Back(ex).clk
      /\ Back(e).current_shard = Back(ex).current_shard
      /\ Back(e).local_memory_access = Back(ex).local_memory_access
  BY DEF Stable, Keeps, Fields, VolatileFields
<1> QED
  BY <1>1 DEF Bounded, Limit

\* Leaving the block keeps the types and the checkpoint complete.
LEMMA BackFit ==
  ASSUME NEW ex, NEW m, NEW s, NEW X, NEW n, NEW Y, NEW k, Fit(ex, m, s, X, n),
         ex.unconstrained, Bounded(Back(ex), Y, k)
  PROVE  Fit(Back(ex), m, s, Y, k)
<1> DEFINE e == Back(ex)
           mem == Restore(ex.memory, ex.fork.memory_diff)
<1>1. Typed(ex) /\ DOMAIN ex = Fields /\ ForkTyped(ex.fork)
  BY DEF Fit, Typed
<1>2. /\ Keeps(ex, e, RestoredFields)
      /\ e.global_clk = ex.fork.global_clk /\ e.clk = ex.fork.clk /\ e.pc = ex.fork.pc
      /\ e.memory = mem
      /\ e.record = ex.fork.record /\ e.mode = ex.fork.mode
      /\ e.unconstrained = FALSE
  BY <1>1, BackFacts
<1> HIDE DEF e
<1>3. /\ IsMap(mem, Stamp)
      /\ DOMAIN mem \subseteq DOMAIN ex.memory \cup DOMAIN ex.fork.memory_diff
      /\ \A b \in DOMAIN mem \ DOMAIN ex.fork.memory_diff : mem[b] = ex.memory[b]
  <2>1. IsMap(ex.memory, Stamp) /\ IsMap(ex.fork.memory_diff, OptionalStamp)
    BY <1>1 DEF Typed, ForkTyped
  <2> QED
    BY <2>1 DEF IsMap, Restore, OptionalStamp
<1> HIDE DEF mem
<1>4. Typed(e)
  <2>1. /\ DOMAIN e = Fields
        /\ e.next_pc = ex.next_pc /\ e.current_shard = ex.current_shard
        /\ e.uninitialized_memory = ex.uninitialized_memory
        /\ e.memory_checkpoint = ex.memory_checkpoint
        /\ e.input_stream = ex.input_stream /\ e.input_stream_ptr = ex.input_stream_ptr
        /\ e.local_memory_access = ex.local_memory_access /\ e.records = ex.records
        /\ e.uninitialized_memory_checkpoint = ex.uninitialized_memory_checkpoint
    BY <1>2 DEF Keeps, Fields, RestoredFields
  <2> QED
    BY <1>1, <1>2, <1>3, <2>1 DEF Typed, ForkTyped
<1>5. OuterMode(e) = m
  BY <1>2 DEF Fit, OuterMode
<1>6. ASSUME m = "Checkpoint" PROVE Recorded(e, s)
  <2>1. Recorded(ex, s) /\ e.memory_checkpoint = ex.memory_checkpoint
    BY <1>2, <1>6 DEF Fit, Keeps, Fields, RestoredFields
  <2>2. \A b \in DOMAIN mem \ DOMAIN ex.memory_checkpoint :
            b \in DOMAIN ex.memory /\ mem[b] = ex.memory[b]
    BY <1>3, <2>1 DEF Recorded
  <2> QED
    BY <1>2, <2>1, <2>2 DEF Recorded
<1> QED
  BY <1>2, <1>4, <1>5, <1>6 DEF Fit, e

-----------------------------------------------------------------------------
(* Instructions. *)

LEMMA Places ==
  /\ R \in Locations /\ V0 \in Locations /\ R # V0
  /\ \A a \in Addrs : a \in Locations /\ a # R /\ a # V0
BY ExecutorAssumption DEF Locations, Registers

\* The cycle has come from ex to e.
Passes(ex, e, m, s, X, n) ==
    /\ Fit(e, m, s, X, n) /\ Along(ex, e) /\ (ex.unconstrained => Stable(ex, e))

\* The instruction has come from ex to e.
Carries(ex, e, m, s) ==
    /\ Fit(e, m, s, {}, 0)
    /\ e.unconstrained = ex.unconstrained /\ e.status = ex.status
    /\ e.global_clk = ex.global_clk
    /\ ex.unconstrained => Stable(ex, e)

LEMMA PassPeek ==
  ASSUME NEW ex, NEW e, NEW m, NEW s, NEW X, NEW n, NEW a \in Locations,
         Passes(ex, e, m, s, X, n)
  PROVE  Passes(ex, Peek(e, a), m, s, X, n)
<1>1. Fit(e, m, s, X, n) /\ Along(ex, e) /\ DOMAIN e = Fields
  BY DEF Passes, Fit, Typed
<1>2. Fit(Peek(e, a), m, s, X, n) /\ Along(e, Peek(e, a))
  BY <1>1, PeekFit
<1>3. ASSUME ex.unconstrained PROVE Stable(ex, Peek(e, a))
  <2>1. Stable(ex, e) /\ e.unconstrained
    BY <1>3 DEF Passes, Stable
  <2> QED
    BY <1>1, <2>1, PeekStable, StableTrans
<1> QED
  BY <1>1, <1>2, <1>3 DEF Passes, Along

LEMMA PassAccess ==
  ASSUME NEW ex, NEW e, NEW m, NEW s, NEW X, NEW n \in Nat, NEW a \in Locations,
         NEW v \in Nat, NEW pos \in Nat, NEW k \in Nat,
         Passes(ex, e, m, s, X, n), n <= k, pos < k,
         a \notin X \/ n <= pos
  PROVE  Passes(ex, Access(e, a, v, pos), m, s, X \cup {a}, k)
<1>1. Fit(e, m, s, X, n) /\ Along(ex, e) /\ Typed(e)
  BY DEF Passes, Fit
<1>2. Fit(Access(e, a, v, pos), m, s, X \cup {a}, k) /\ Along(e, Access(e, a, v, pos))
  BY <1>1, AccessFit
<1>3. ASSUME ex.unconstrained PROVE Stable(ex, Access(e, a, v, pos))
  <2>1. Stable(ex, e) /\ e.unconstrained
    BY <1>3 DEF Passes, Stable
  <2> QED
    BY <1>1, <2>1, AccessStable, StableTrans
<1> QED
  BY <1>1, <1>2, <1>3 DEF Passes, Along

LEMMA PassSlot ==
  ASSUME NEW ex, NEW e, NEW m, NEW s, NEW X, NEW n, NEW b, Passes(ex, e, m, s, X, n)
  PROVE  Passes(ex, [e EXCEPT !.next_is_delayslot = b], m, s, X, n)
<1> DEFINE d == [e EXCEPT !.next_is_delayslot = b]
<1>1. Fit(e, m, s, X, n) /\ Along(ex, e) /\ DOMAIN e = Fields
  BY DEF Passes, Fit, Typed
<1>2. Keeps(e, d, {"next_is_delayslot"})
  BY <1>1 DEF Keeps, Fields
<1> HIDE DEF d
<1>3. /\ Keeps(e, d, LooseFields) /\ Along(e, d)
      /\ Keeps(e, d, {"clk", "pc", "next_pc", "record", "global_clk"} \cup VolatileFields)
  BY <1>2 DEF Keeps, Fields, LooseFields, Along, VolatileFields
<1>4. Fit(d, m, s, X, n)
  BY <1>1, <1>3, LooseFit
<1>5. ASSUME ex.unconstrained PROVE Stable(ex, d)
  <2>1. Stable(ex, e) /\ e.unconstrained
    BY <1>5 DEF Passes, Stable
  <2> QED
    BY <1>1, <1>3, <2>1, MoveStable, StableTrans
<1> QED
  BY <1>1, <1>3, <1>4, <1>5 DEF Passes, Along, d

LEMMA PassRetire ==
  ASSUME NEW ex, NEW e, NEW m, NEW s, NEW X, NEW n \in Nat, NEW pc \in Nat,
         NEW next \in Nat, NEW nextNext \in Nat, Passes(ex, e, m, s, X, n), n <= 5
  PROVE  Carries(ex, Retire(e, pc, next, nextNext), m, s)
<1> DEFINE d == Retire(e, pc, next, nextNext)
<1>1. Fit(e, m, s, X, n) /\ Along(ex, e) /\ DOMAIN e = Fields
  BY DEF Passes, Fit, Typed
<1>2. Fit(d, m, s, {}, 0)
  BY <1>1, RetireFit
<1>3. Retired(e, d, pc, next, nextNext)
  BY <1>1, RetireFacts
<1> HIDE DEF d
<1>4. /\ Keeps(e, d, {"clk", "pc", "next_pc", "record", "global_clk"} \cup VolatileFields)
      /\ d.unconstrained = e.unconstrained /\ d.status = e.status
      /\ d.global_clk = e.global_clk
  BY <1>3 DEF Retired, Keeps, Fields
<1>5. ASSUME ex.unconstrained PROVE Stable(ex, d)
  <2>1. Stable(ex, e) /\ e.unconstrained
    BY <1>5 DEF Passes, Stable
  <2> QED
    BY <1>1, <1>4, <2>1, MoveStable, StableTrans
<1> QED
  BY <1>1, <1>2, <1>4, <1>5 DEF Carries, Along, d

LEMMA PassStart ==
  ASSUME NEW ex, NEW m, NEW s, NEW X, NEW n, Fit(ex, m, s, X, n)
  PROVE  Passes(ex, ex, m, s, X, n)
<1>1. DOMAIN ex = Fields
  BY DEF Fit, Typed
<1>2. Keeps(ex, ex, {"clk", "pc", "next_pc", "record", "global_clk"} \cup VolatileFields)
  BY <1>1 DEF Keeps
<1> QED
  BY <1>1, <1>2, MoveStable DEF Passes, Along

LEMMA PassSequential ==
  ASSUME NEW ex, NEW e, NEW m, NEW s, NEW X, NEW n \in Nat, Passes(ex, e, m, s, X, n), n <= 5
  PROVE  Carries(ex, Sequential(e), m, s)
<1>1. e.pc \in Nat /\ e.next_pc \in Nat /\ e.next_pc + 1 \in Nat
  BY DEF Passes, Fit, Typed
<1> QED
  BY <1>1, PassRetire DEF Sequential

LEMMA AddStep ==
  ASSUME NEW ex, NEW m, NEW s, Fit(ex, m, s, {}, 0)
  PROVE  Carries(ex, ADDI(ex), m, s)
<1>1. /\ R \in Locations /\ V0 \in Locations /\ R # V0 /\ PosMemory = 0 /\ PosB = 2 /\ PosA = 3
  BY Places DEF PosMemory, PosB, PosA
<1>2. Passes(ex, ex, m, s, {}, 0) /\ Typed(ex)
  BY PassStart DEF Fit
<1>3. \A b : RecordOf(ex, b).value \in Nat
  BY <1>2, RecordOfStamp
<1>4. Carries(ex, ADDI(ex), m, s)
  <2> DEFINE v == RecordOf(ex, R).value
             w == (RecordOf(ex, R).value + 1) % 4
             e1 == Access(ex, R, v, 2)
             e2 == Access(e1, R, w, 3)
  <2>1. v \in Nat /\ w \in Nat
    BY <1>3
  <2>2. ADDI(ex) = Sequential(e2)
    BY <1>1 DEF ADDI, Read, Write
  <2> HIDE DEF v, w
  <2>3. Passes(ex, e1, m, s, {} \cup {R}, 3)
    BY <1>1, <1>2, <2>1, PassAccess
  <2> HIDE DEF e1
  <2>4. Passes(ex, e2, m, s, ({} \cup {R}) \cup {R}, 4)
    BY <1>1, <2>1, <2>3, PassAccess
  <2> QED
    BY <2>2, <2>4, PassSequential
<1> QED
  BY <1>4

LEMMA MemorySteps ==
  ASSUME NEW ex, NEW m, NEW s, Fit(ex, m, s, {}, 0), NEW a \in Addrs
  PROVE  /\ Carries(ex, LW(ex, a), m, s)
         /\ Carries(ex, SW(ex, a), m, s)
         /\ Carries(ex, SB(ex, a), m, s)
<1>1. /\ R \in Locations /\ V0 \in Locations /\ R # V0 /\ a \in Locations /\ a # R /\ a # V0
      /\ PosMemory = 0 /\ PosB = 2 /\ PosA = 3
  BY Places DEF PosMemory, PosB, PosA
<1>2. Passes(ex, ex, m, s, {}, 0) /\ Typed(ex)
  BY PassStart DEF Fit
<1>3. (\A b : RecordOf(ex, b).value \in Nat) /\ PeekValue(ex, a) \in Nat
  BY <1>2, RecordOfStamp
<1>4. Carries(ex, LW(ex, a), m, s)
  <2> DEFINE v == RecordOf(ex, a).value
             e1 == Peek(ex, R)
             w == RecordOf(e1, a).value
             e2 == Access(e1, a, w, 0)
             e3 == Access(e2, R, v, 3)
  <2>1. LW(ex, a) = Sequential(e3)
    BY <1>1 DEF LW, Read, Write
  <2>2. Passes(ex, e1, m, s, {}, 0)
    BY <1>1, <1>2, PassPeek
  <2> HIDE DEF e1
  <2>3. v \in Nat /\ w \in Nat
    BY <1>3, <2>2, RecordOfStamp DEF Passes, Fit
  <2> HIDE DEF v, w
  <2>4. Passes(ex, e2, m, s, {} \cup {a}, 1)
    BY <1>1, <2>2, <2>3, PassAccess
  <2> HIDE DEF e2
  <2>5. Passes(ex, e3, m, s, ({} \cup {a}) \cup {R}, 4)
    BY <1>1, <2>3, <2>4, PassAccess
  <2> QED
    BY <2>1, <2>5, PassSequential
<1>5. ASSUME NEW w \in Nat
      PROVE  Carries(ex, Sequential(Write(Peek(Read(ex, R, PosA), a), a, w, PosMemory)), m, s)
  <2> DEFINE v == RecordOf(ex, R).value
             e1 == Access(ex, R, v, 3)
             e2 == Peek(e1, a)
             e3 == Access(e2, a, w, 0)
  <2>1. Sequential(Write(Peek(Read(ex, R, PosA), a), a, w, PosMemory)) = Sequential(e3)
    BY <1>1 DEF Read, Write
  <2>2. v \in Nat
    BY <1>3
  <2> HIDE DEF v
  <2>3. Passes(ex, e1, m, s, {} \cup {R}, 4)
    BY <1>1, <1>2, <2>2, PassAccess
  <2> HIDE DEF e1
  <2>4. Passes(ex, e2, m, s, {} \cup {R}, 4)
    BY <1>1, <2>3, PassPeek
  <2> HIDE DEF e2
  <2>5. Passes(ex, e3, m, s, ({} \cup {R}) \cup {a}, 4)
    BY <1>1, <2>4, PassAccess
  <2> QED
    BY <2>1, <2>5, PassSequential
<1>6. Carries(ex, SW(ex, a), m, s)
  BY <1>3, <1>5 DEF SW
<1>7. Carries(ex, SB(ex, a), m, s)
  <2> DEFINE w == 2 * (PeekValue(ex, a) \div 2) + (RecordOf(ex, R).value % 2)
  <2>1. w \in Nat
    BY <1>3
  <2> HIDE DEF w
  <2>2. SB(ex, a) = Sequential(Write(Peek(Read(ex, R, PosA), a), a, w, PosMemory))
    BY DEF SB, w
  <2> QED
    BY <1>5, <2>1, <2>2
<1> QED
  BY <1>4, <1>6, <1>7

LEMMA BranchStep ==
  ASSUME NEW ex, NEW m, NEW s, Fit(ex, m, s, {}, 0), NEW target \in Nat
  PROVE  Carries(ex, BLEZ(ex, target), m, s)
<1>1. /\ R \in Locations /\ V0 \in Locations /\ R # V0 /\ PosMemory = 0 /\ PosB = 2 /\ PosA = 3
  BY Places DEF PosMemory, PosB, PosA
<1>2. Passes(ex, ex, m, s, {}, 0) /\ Typed(ex)
  BY PassStart DEF Fit
<1>3. \A b : RecordOf(ex, b).value \in Nat
  BY <1>2, RecordOfStamp
<1>4. Carries(ex, BLEZ(ex, target), m, s)
  <2> DEFINE v == RecordOf(ex, V0).value
             e1 == Access(ex, V0, v, 3)
             e2 == [e1 EXCEPT !.next_is_delayslot = TRUE]
             nn == IF RecordOf(ex, V0).value = 0 THEN target ELSE ex.next_pc + 1
  <2>1. BLEZ(ex, target) = Retire(e2, ex.pc, ex.next_pc, nn)
    BY <1>1 DEF BLEZ, Read
  <2>2. v \in Nat /\ ex.pc \in Nat /\ ex.next_pc \in Nat /\ nn \in Nat
    BY <1>2, <1>3 DEF Typed
  <2> HIDE DEF v, nn
  <2>3. Passes(ex, e1, m, s, {} \cup {V0}, 4)
    BY <1>1, <1>2, <2>2, PassAccess
  <2> HIDE DEF e1
  <2>4. Passes(ex, e2, m, s, {} \cup {V0}, 4)
    BY <2>3, PassSlot
  <2> HIDE DEF e2
  <2> QED
    BY <2>1, <2>2, <2>4, PassRetire
<1> QED
  BY <1>4

-----------------------------------------------------------------------------
(* Syscalls. *)

LEMMA StreamFit ==
  ASSUME NEW ex, NEW e, NEW m, NEW s, NEW X, NEW n, Fit(ex, m, s, X, n),
         Keeps(ex, e, LooseFields \cup {"input_stream", "input_stream_ptr",
                                        "uninitialized_memory",
                                        "uninitialized_memory_checkpoint"}),
         Marks(e.uninitialized_memory_checkpoint, e.uninitialized_memory),
         e.input_stream \in Seq(Nat), e.input_stream_ptr \in 0 .. Len(e.input_stream),
         IsMap(e.uninitialized_memory, Nat)
  PROVE  Fit(e, m, s, X, n)
<1>1. /\ e.pc = ex.pc /\ e.next_pc = ex.next_pc /\ e.clk = ex.clk
      /\ e.global_clk = ex.global_clk /\ e.current_shard = ex.current_shard
      /\ e.memory = ex.memory
      /\ e.memory_checkpoint = ex.memory_checkpoint /\ e.mode = ex.mode
      /\ e.unconstrained = ex.unconstrained /\ e.fork = ex.fork
      /\ e.local_memory_access = ex.local_memory_access
      /\ e.record = ex.record /\ e.records = ex.records /\ DOMAIN e = Fields
  BY DEF Keeps, Fields, LooseFields
<1>2. Typed(e)
  BY <1>1 DEF Fit, Typed
<1>3. OuterMode(e) = m
  BY <1>1 DEF Fit, OuterMode
<1>4. m = "Checkpoint" => Recorded(e, s)
  BY <1>1 DEF Fit, Recorded
<1>5. ~e.unconstrained => Bounded(e, X, n)
  BY <1>1 DEF Fit, Bounded, Limit
<1> QED
  BY <1>2, <1>3, <1>4, <1>5 DEF Fit

\* A call that failed, or one that leaves an executor fit to write $v0.
GoodCall(y, m, s) ==
    \/ y.ex.status = "err"
    \/ /\ y.ex.status = "run"
       /\ \E X : Fit(y.ex, m, s, X, 3)
       /\ y.ret = None \/ y.ret \in Nat
       /\ y.next \in Nat /\ y.cycles \in Nat
       /\ y.ex.unconstrained => Bounded(Back(y.ex), {R}, 3)

\* Everything the proofs need of an executor between two cycles.
Sound(ex, m, s) == /\ Fit(ex, m, s, {}, 0)
                   /\ ex.unconstrained => Bounded(Back(ex), {R}, 3)

LEMMA EndFit ==
  ASSUME NEW y, NEW m, NEW s, NEW X, Fit(y.ex, m, s, X, 3), y.ex.status # "err",
         y.ret = None \/ y.ret \in Nat, y.next \in Nat, y.cycles \in Nat
  PROVE  Carries(y.ex, EndSyscall(y), m, s)
<1> DEFINE ex == y.ex
           v0 == IF y.ret = None THEN SyscallId ELSE y.ret
           w == Access(ex, V0, v0, 3)
           d == [w EXCEPT !.clk = @ + y.cycles]
<1>1. V0 \in Locations /\ v0 \in Nat /\ ex.pc \in Nat
  BY Places DEF SyscallId, Fit, Typed
<1>2. EndSyscall(y) = Retire(d, ex.pc, y.next, y.next + 1)
  BY DEF EndSyscall, Write, PosA
<1> HIDE DEF ex, v0
<1>3. Passes(ex, ex, m, s, X, 3)
  BY PassStart DEF ex
<1>4. Passes(ex, w, m, s, X \cup {V0}, 4)
  BY <1>1, <1>3, PassAccess
<1> HIDE DEF w
<1>5. Fit(w, m, s, X \cup {V0}, 4) /\ Typed(w) /\ DOMAIN w = Fields /\ Along(ex, w)
  BY <1>4 DEF Passes, Fit, Typed
<1>6. Keeps(w, d, {"clk"}) /\ d.clk = w.clk + y.cycles
  BY <1>5 DEF Keeps, Fields
<1> HIDE DEF d
<1>7. /\ Keeps(w, d, {"clk", "pc", "next_pc", "record", "global_clk"})
      /\ Keeps(w, d, {"clk", "pc", "next_pc", "record", "global_clk"} \cup VolatileFields)
      /\ d.pc = w.pc /\ d.next_pc = w.next_pc /\ d.record = w.record
      /\ d.global_clk = w.global_clk /\ d.unconstrained = w.unconstrained
      /\ d.status = w.status
  BY <1>6 DEF Keeps, Fields
<1>8. /\ d.clk \in Nat /\ d.pc \in Nat /\ d.next_pc \in Nat /\ d.global_clk \in Nat
      /\ d.record \in TraceRecord /\ w.clk \in Nat
  BY <1>5, <1>6, <1>7 DEF Typed
<1>9. \A b : Limit(w, X \cup {V0}, 4, b) <= Limit(d, X \cup {V0}, 4, b)
  BY <1>6, <1>8 DEF Limit
<1>10. Fit(d, m, s, X \cup {V0}, 4)
  BY <1>5, <1>7, <1>8, <1>9, MoveFit
<1>11. Carries(d, EndSyscall(y), m, s)
  <2>1. Passes(d, d, m, s, X \cup {V0}, 4)
    BY <1>10, PassStart
  <2> QED
    BY <1>1, <1>2, <2>1, PassRetire
<1>12. ASSUME ex.unconstrained PROVE Stable(ex, EndSyscall(y))
  <2>1. Stable(ex, w) /\ w.unconstrained
    BY <1>4, <1>12 DEF Passes, Stable
  <2>2. Stable(w, d)
    BY <1>5, <1>7, <2>1, MoveStable
  <2>3. Stable(d, EndSyscall(y))
    BY <1>7, <1>11, <2>1 DEF Carries
  <2> QED
    BY <2>1, <2>2, <2>3, StableTrans
<1>13. /\ EndSyscall(y).unconstrained = ex.unconstrained
       /\ EndSyscall(y).status = ex.status /\ EndSyscall(y).global_clk = ex.global_clk
  BY <1>5, <1>7, <1>11 DEF Along, Carries
<1> QED
  BY <1>11, <1>12, <1>13 DEF Carries, ex

LEMMA EndCarries ==
  ASSUME NEW y, NEW m, NEW s, GoodCall(y, m, s), EndSyscall(y).status # "err"
  PROVE  Carries(y.ex, EndSyscall(y), m, s) /\ y.ex.status = "run"
<1>1. y.ex.status # "err"
  BY DEF EndSyscall
<1>2. PICK X : Fit(y.ex, m, s, X, 3)
  BY <1>1 DEF GoodCall
<1>3. /\ y.ret = None \/ y.ret \in Nat
      /\ y.ex.status = "run"
      /\ y.next \in Nat /\ y.cycles \in Nat
  BY <1>1 DEF GoodCall
<1> QED
  BY <1>1, <1>2, <1>3, EndFit

LEMMA EndSound ==
  ASSUME NEW y, NEW m, NEW s, GoodCall(y, m, s), EndSyscall(y).status # "err"
  PROVE  Sound(EndSyscall(y), m, s) /\ EndSyscall(y).status = "run"
<1>1. y.ex.status # "err"
  BY DEF EndSyscall
<1>2. PICK X : Fit(y.ex, m, s, X, 3)
  BY <1>1 DEF GoodCall
<1>3. /\ y.ret = None \/ y.ret \in Nat
      /\ y.ex.status = "run"
      /\ y.next \in Nat /\ y.cycles \in Nat
      /\ y.ex.unconstrained => Bounded(Back(y.ex), {R}, 3)
  BY <1>1 DEF GoodCall
<1>4. Carries(y.ex, EndSyscall(y), m, s)
  BY <1>1, <1>2, <1>3, EndFit
<1>5. ASSUME EndSyscall(y).unconstrained PROVE Bounded(Back(EndSyscall(y)), {R}, 3)
  <2>1. y.ex.unconstrained /\ Stable(y.ex, EndSyscall(y))
    BY <1>4, <1>5 DEF Carries
  <2> QED
    BY <1>3, <2>1, StableBounded
<1> QED
  BY <1>3, <1>4, <1>5 DEF Carries, Sound

LEMMA RetGood ==
  ASSUME NEW e, NEW r, NEW m, NEW s, NEW X, Fit(e, m, s, X, 3), r = None \/ r \in Nat,
         e.status = "run", e.unconstrained => Bounded(Back(e), {R}, 3)
  PROVE  GoodCall(Ret(e, r), m, s)
<1>1. /\ Ret(e, r).ex = e /\ Ret(e, r).ret = r /\ Ret(e, r).next = e.pc + 1
      /\ Ret(e, r).cycles = 0
  BY DEF Ret
<1>2. e.pc \in Nat
  BY DEF Fit, Typed
<1> QED
  BY <1>1, <1>2 DEF GoodCall

LEMMA FailedCall ==
  ASSUME NEW ex, NEW r, NEW m, NEW s, DOMAIN ex = Fields
  PROVE  GoodCall(Ret(Err(ex), r), m, s)
<1>1. Ret(Err(ex), r).ex.status = "err"
  BY DEF Ret, Err, Fields
<1> QED
  BY <1>1 DEF GoodCall

LEMMA StreamCall ==
  ASSUME NEW ex, NEW e, NEW r, NEW m, NEW s, NEW X, Fit(ex, m, s, X, 3),
         r = None \/ r \in Nat, ex.status = "run",
         ex.unconstrained => Bounded(Back(ex), {R}, 3),
         Keeps(ex, e, {"input_stream", "public_values_stream"}),
         e.input_stream \in Seq(Nat), Len(ex.input_stream) <= Len(e.input_stream)
  PROVE  GoodCall(Ret(e, r), m, s)
<1>1. /\ Keeps(ex, e, LooseFields \cup {"input_stream", "input_stream_ptr",
                                        "uninitialized_memory",
                                        "uninitialized_memory_checkpoint"})
      /\ e.uninitialized_memory_checkpoint = ex.uninitialized_memory_checkpoint
      /\ Keeps(ex, e, {"clk", "pc", "next_pc", "record", "global_clk"} \cup VolatileFields)
      /\ e.input_stream_ptr = ex.input_stream_ptr
      /\ e.uninitialized_memory = ex.uninitialized_memory
      /\ e.unconstrained = ex.unconstrained /\ e.status = ex.status
  BY DEF Keeps, Fields, LooseFields, VolatileFields
<1>2. /\ ex.input_stream_ptr \in 0 .. Len(ex.input_stream)
      /\ IsMap(ex.uninitialized_memory, Nat)
      /\ DOMAIN ex = Fields /\ ex.input_stream \in Seq(Nat)
      /\ Marks(ex.uninitialized_memory_checkpoint, ex.uninitialized_memory)
  BY DEF Fit, Typed
<1>3. Fit(e, m, s, X, 3)
  <2>1. e.input_stream_ptr \in 0 .. Len(e.input_stream)
    BY <1>1, <1>2
  <2> QED
    BY <1>1, <1>2, <2>1, StreamFit
<1>4. ASSUME e.unconstrained PROVE Bounded(Back(e), {R}, 3)
  <2>1. ex.unconstrained /\ Bounded(Back(ex), {R}, 3)
    BY <1>1, <1>4
  <2>2. Stable(ex, e)
    BY <1>1, <1>2, <2>1, MoveStable
  <2> QED
    BY <2>1, <2>2, StableBounded
<1> QED
  BY <1>1, <1>3, <1>4, RetGood

LEMMA WriteCalls ==
  ASSUME NEW ex, NEW m, NEW s, NEW X, Fit(ex, m, s, X, 3), NEW a \in Addrs, NEW fd,
         ex.status = "run",
         ex.unconstrained => Bounded(Back(ex), {R}, 3)
  PROVE  /\ GoodCall(WRITE_HINT(ex, a), m, s)
         /\ GoodCall(WRITE_PUBLIC_VALUES(ex, a), m, s)
         /\ GoodCall(WRITE_HOOK(ex, a, fd), m, s)
<1> DEFINE e == Peek(ex, a)
<1>1. a \in Locations /\ DOMAIN ex = Fields
  BY Places DEF Fit, Typed
<1>2. Fit(e, m, s, X, 3) /\ Along(ex, e) /\ e.status = "run"
  BY <1>1, PeekFit DEF Along
<1>3. ASSUME e.unconstrained PROVE Bounded(Back(e), {R}, 3)
  <2>1. ex.unconstrained /\ Stable(ex, e)
    BY <1>1, <1>2, <1>3, PeekStable DEF Along
  <2> QED
    BY <2>1, StableBounded
<1>4. PeekValue(ex, a) \in Nat
  BY RecordOfStamp DEF Fit
<1>5. WRITE_HINT(ex, a) = Ret([e EXCEPT !.input_stream = Append(@, PeekValue(ex, a))], None)
  BY DEF WRITE_HINT
<1>6. WRITE_PUBLIC_VALUES(ex, a) =
          Ret([e EXCEPT !.public_values_stream = Append(@, PeekValue(ex, a))], None)
  BY DEF WRITE_PUBLIC_VALUES
<1> DEFINE n == ex.input_stream_ptr
           answered == SubSeq(e.input_stream, 1, n) \o <<3>>
                       \o SubSeq(e.input_stream, n + 1, Len(e.input_stream))
<1>7. WRITE_HOOK(ex, a, fd) =
          Ret(IF fd \in ex.hooks THEN [e EXCEPT !.input_stream = answered] ELSE e, None)
  BY DEF WRITE_HOOK
<1>8. n \in 0 .. Len(e.input_stream)
  <2>1. e.input_stream = ex.input_stream
    BY <1>1, PeekFacts DEF Keeps, Fields
  <2> QED
    BY <2>1 DEF Fit, Typed
<1> HIDE DEF e, n
<1>9. e.input_stream \in Seq(Nat) /\ DOMAIN e = Fields /\ Len(e.input_stream) \in Nat
  BY <1>2 DEF Fit, Typed
<1>10. /\ answered \in Seq(Nat) /\ Len(e.input_stream) <= Len(answered)
      /\ Append(e.input_stream, PeekValue(ex, a)) \in Seq(Nat)
      /\ Len(e.input_stream) <= Len(Append(e.input_stream, PeekValue(ex, a)))
  <2> DEFINE input == e.input_stream
             p == SubSeq(input, 1, n)
             q == SubSeq(input, n + 1, Len(input))
  <2> HIDE DEF input
  <2>1. input \in Seq(Nat) /\ n \in 0 .. Len(input) /\ Len(input) \in Nat
    BY <1>8, <1>9 DEF input
  <2>2. p \in Seq(Nat) /\ Len(p) = n
    BY <2>1
  <2>3. q \in Seq(Nat) /\ Len(q) = Len(input) - n
    BY <2>1
  <2>4. <<3>> \in Seq(Nat) /\ Len(<<3>>) = 1
    OBVIOUS
  <2> HIDE DEF p, q
  <2>5. p \o <<3>> \in Seq(Nat) /\ Len(p \o <<3>>) = n + 1
    BY <2>1, <2>2, <2>4
  <2> DEFINE r == p \o <<3>>
  <2> HIDE DEF r
  <2>6. r \o q \in Seq(Nat) /\ Len(r \o q) = Len(input) + 1
    <3>1. r \in Seq(Nat) /\ Len(r) = n + 1
      BY <2>5 DEF r
    <3> QED
      BY <2>1, <2>3, <3>1
  <2>7. /\ Append(input, PeekValue(ex, a)) \in Seq(Nat)
        /\ Len(Append(input, PeekValue(ex, a))) = Len(input) + 1
    BY <1>4, <2>1
  <2>8. answered = r \o q
    BY DEF p, q, r, input
  <2> HIDE DEF answered
  <2> QED
    BY <2>1, <2>6, <2>7, <2>8 DEF input
<1>11. GoodCall(WRITE_HINT(ex, a), m, s)
  <2> DEFINE d == [e EXCEPT !.input_stream = Append(@, PeekValue(ex, a))]
  <2>1. /\ Keeps(e, d, {"input_stream", "public_values_stream"})
        /\ d.input_stream = Append(e.input_stream, PeekValue(ex, a))
    BY <1>9 DEF Keeps, Fields
  <2> HIDE DEF d
  <2>2. GoodCall(Ret(d, None), m, s)
    BY <1>2, <1>3, <1>10, <2>1, StreamCall
  <2> QED
    BY <1>5, <2>2 DEF d
<1>12. GoodCall(WRITE_PUBLIC_VALUES(ex, a), m, s)
  <2> DEFINE d == [e EXCEPT !.public_values_stream = Append(@, PeekValue(ex, a))]
  <2>1. /\ Keeps(e, d, {"input_stream", "public_values_stream"})
        /\ d.input_stream = e.input_stream
        /\ Len(e.input_stream) <= Len(d.input_stream)
    BY <1>9 DEF Keeps, Fields
  <2> HIDE DEF d
  <2>2. GoodCall(Ret(d, None), m, s)
    BY <1>2, <1>3, <1>9, <2>1, StreamCall
  <2> QED
    BY <1>6, <2>2 DEF d
<1> HIDE DEF answered
<1>13. GoodCall(WRITE_HOOK(ex, a, fd), m, s)
  <2> DEFINE d == IF fd \in ex.hooks THEN [e EXCEPT !.input_stream = answered] ELSE e
  <2>1. /\ Keeps(e, d, {"input_stream", "public_values_stream"})
        /\ d.input_stream \in {e.input_stream, answered}
    BY <1>9 DEF Keeps, Fields
  <2> HIDE DEF d
  <2>2. d.input_stream \in Seq(Nat) /\ Len(e.input_stream) <= Len(d.input_stream)
    BY <1>9, <1>10, <2>1
  <2>3. GoodCall(Ret(d, None), m, s)
    BY <1>2, <1>3, <2>1, <2>2, StreamCall
  <2> QED
    BY <1>7, <2>3 DEF d
<1> QED
  BY <1>11, <1>12, <1>13

LEMMA LooseCall ==
  ASSUME NEW ex, NEW e, NEW r, NEW m, NEW s, NEW X, Fit(ex, m, s, X, 3),
         r = None \/ r \in Nat, ~ex.unconstrained, ex.status = "run",
         Keeps(ex, e, LooseFields)
  PROVE  GoodCall(Ret(e, r), m, s)
<1>1. ~e.unconstrained /\ e.status = "run"
  BY DEF Keeps, Fields, LooseFields
<1> QED
  BY <1>1, LooseFit, RetGood

LEMMA PlainCalls ==
  ASSUME NEW ex, NEW m, NEW s, Fit(ex, m, s, {R}, 3), NEW w,
         ~ex.unconstrained, ex.status = "run"
  PROVE  /\ GoodCall(HALT(ex), m, s)
         /\ GoodCall(COMMIT(ex, w), m, s)
         /\ GoodCall(COMMIT_DEFERRED_PROOFS(ex, w), m, s)
         /\ GoodCall(HINT_LEN(ex), m, s)
<1>1. DOMAIN ex = Fields
  BY DEF Fit, Typed
<1>2. GoodCall(HALT(ex), m, s)
  <2> DEFINE e == [ex EXCEPT !.exited = TRUE]
  <2>1. /\ Keeps(ex, e, LooseFields) /\ e.unconstrained = ex.unconstrained
        /\ e.status = ex.status
    BY <1>1 DEF Keeps, Fields, LooseFields
  <2>2. HALT(ex) = [Ret(e, None) EXCEPT !.next = 0]
    BY DEF HALT
  <2> HIDE DEF e
  <2>3. Fit(e, m, s, {R}, 3)
    BY <2>1, LooseFit
  <2>4. /\ HALT(ex).ex = e /\ HALT(ex).ret = None /\ HALT(ex).next = 0
        /\ HALT(ex).cycles = 0
    BY <2>2 DEF Ret
  <2> QED
    BY <2>1, <2>3, <2>4 DEF GoodCall
<1>3. GoodCall(COMMIT(ex, w), m, s)
  <2> DEFINE e == [ex EXCEPT !.digest = w]
  <2>1. Keeps(ex, e, LooseFields) /\ COMMIT(ex, w) = Ret(e, None)
    BY <1>1 DEF Keeps, Fields, LooseFields, COMMIT
  <2> HIDE DEF e
  <2> QED
    BY <2>1, LooseCall
<1>4. GoodCall(COMMIT_DEFERRED_PROOFS(ex, w), m, s)
  <2> DEFINE e == [ex EXCEPT !.deferred_digest = w]
  <2>1. Keeps(ex, e, LooseFields) /\ COMMIT_DEFERRED_PROOFS(ex, w) = Ret(e, None)
    BY <1>1 DEF Keeps, Fields, LooseFields, COMMIT_DEFERRED_PROOFS
  <2> HIDE DEF e
  <2> QED
    BY <2>1, LooseCall
<1>5. Keeps(ex, ex, LooseFields)
  BY <1>1 DEF Keeps
<1>6. GoodCall(HINT_LEN(ex), m, s)
  <2>1. GoodCall(Ret(ex, 1), m, s) /\ GoodCall(Ret(Err(ex), None), m, s)
    BY <1>1, <1>5, LooseCall, FailedCall
  <2> QED
    BY <2>1 DEF HINT_LEN
<1> QED
  BY <1>2, <1>3, <1>4, <1>6

LEMMA VerifyCall ==
  ASSUME NEW ex, NEW m, NEW s, Fit(ex, m, s, {R}, 3), NEW a \in Addrs, ~ex.unconstrained,
         ex.status = "run"
  PROVE  GoodCall(VERIFY_ZKM_PROOF(ex, a), m, s)
<1>1. a \in Locations /\ DOMAIN ex = Fields
  BY Places DEF Fit, Typed
<1>2. Keeps(ex, ex, LooseFields)
  BY <1>1 DEF Keeps
<1> DEFINE index == ex.proof_stream_ptr + 1
           p == Peek(ex, a)
           e == [p EXCEPT !.proof_stream_ptr = index]
<1>3. \/ VERIFY_ZKM_PROOF(ex, a) = Ret(ex, None)
      \/ VERIFY_ZKM_PROOF(ex, a) = Ret(Err(ex), None)
      \/ VERIFY_ZKM_PROOF(ex, a) = Ret(e, None)
  BY DEF VERIFY_ZKM_PROOF
<1>4. Fit(p, m, s, {R}, 3) /\ Along(ex, p) /\ DOMAIN p = Fields
  <2>1. Fit(p, m, s, {R}, 3) /\ Along(ex, p)
    BY <1>1, PeekFit
  <2> QED
    BY <2>1 DEF Fit, Typed
<1> HIDE DEF p, index
<1>5. Keeps(p, e, LooseFields) /\ ~p.unconstrained /\ p.status = "run"
  BY <1>4 DEF Keeps, Fields, LooseFields, Along
<1> HIDE DEF e
<1>6. GoodCall(Ret(e, None), m, s)
  BY <1>4, <1>5, LooseCall
<1>7. GoodCall(Ret(ex, None), m, s) /\ GoodCall(Ret(Err(ex), None), m, s)
  BY <1>1, <1>2, LooseCall, FailedCall
<1> QED
  BY <1>3, <1>6, <1>7
LEMMA HintCall ==
  ASSUME NEW ex, NEW m, NEW s, Fit(ex, m, s, {R}, 3), NEW a \in Addrs, ~ex.unconstrained,
         ex.status = "run"
  PROVE  GoodCall(HINT_READ(ex, a), m, s)
<1>1. /\ a \in Locations /\ DOMAIN ex = Fields /\ ex.input_stream \in Seq(Nat)
      /\ ex.input_stream_ptr \in 0 .. Len(ex.input_stream) /\ Len(ex.input_stream) \in Nat
      /\ IsMap(ex.uninitialized_memory, Nat)
      /\ Marks(ex.uninitialized_memory_checkpoint, ex.uninitialized_memory)
  BY Places DEF Fit, Typed
<1>2. CASE \/ ex.input_stream_ptr >= Len(ex.input_stream)
           \/ a \in DOMAIN ex.uninitialized_memory
  <2>1. HINT_READ(ex, a) = Ret(Err(ex), None)
    BY <1>2 DEF HINT_READ
  <2> QED
    BY <1>1, <2>1, FailedCall
<1>3. CASE ~(\/ ex.input_stream_ptr >= Len(ex.input_stream)
             \/ a \in DOMAIN ex.uninitialized_memory)
  <2> DEFINE word == ex.input_stream[ex.input_stream_ptr + 1]
             c == OrInsert(ex.uninitialized_memory_checkpoint, a, FALSE)
             u == Insert(ex.uninitialized_memory, a, word)
             e == [ex EXCEPT !.input_stream_ptr = @ + 1,
                             !.uninitialized_memory_checkpoint = c,
                             !.uninitialized_memory = u]
  <2>1. HINT_READ(ex, a) = Ret(e, None)
    BY <1>3 DEF HINT_READ
  <2>2. word \in Nat
    BY <1>1, <1>3
  <2> HIDE DEF word
  <2>3. Marks(c, u)
    <3> DEFINE cc == ex.uninitialized_memory_checkpoint
               uu == ex.uninitialized_memory
    <3>1. Marks(cc, uu)
      BY <1>1
    <3> HIDE DEF cc, uu
    <3>2. Marks(OrInsert(cc, a, FALSE), Insert(uu, a, word))
      BY <3>1 DEF Marks, Insert, OrInsert
    <3> QED
      BY <3>2 DEF cc, uu
  <2> HIDE DEF c
  <2>4. IsMap(u, Nat)
    BY <1>1, <2>2 DEF IsMap, Insert
  <2> HIDE DEF u
  <2>5. /\ Keeps(ex, e, {"input_stream_ptr", "uninitialized_memory_checkpoint",
                         "uninitialized_memory"})
        /\ e.uninitialized_memory = u /\ e.input_stream_ptr = ex.input_stream_ptr + 1
        /\ e.uninitialized_memory_checkpoint = c
        /\ e.input_stream = ex.input_stream /\ e.unconstrained = ex.unconstrained
        /\ e.status = ex.status
    BY <1>1 DEF Keeps, Fields
  <2> HIDE DEF e
  <2>6. Keeps(ex, e, LooseFields \cup {"input_stream", "input_stream_ptr",
                                       "uninitialized_memory",
                                       "uninitialized_memory_checkpoint"})
    BY <2>5 DEF Keeps, LooseFields
  <2>7. e.input_stream_ptr \in 0 .. Len(e.input_stream)
    BY <1>1, <1>3, <2>5
  <2>8. Fit(e, m, s, {R}, 3)
    BY <1>1, <2>4, <2>5, <2>6, <2>7, <2>3, StreamFit
  <2> QED
    BY <2>1, <2>5, <2>8, RetGood
<1> QED
  BY <1>2, <1>3

LEMMA PrecompileCall ==
  ASSUME NEW ex, NEW m, NEW s, Fit(ex, m, s, {R}, 3), NEW a \in Addrs, ~ex.unconstrained,
         ex.status = "run"
  PROVE  GoodCall(PRECOMPILE(ex, a), m, s)
<1> DEFINE v == (RecordOf(ex, a).value + 1) % 4
           e == SyscallWrite(ex, a, v)
<1>1. a \in Locations \ {R} /\ v \in Nat
  <2>1. RecordOf(ex, a).value \in Nat
    BY RecordOfStamp DEF Fit
  <2> QED
    BY <2>1, Places
<1>2. PRECOMPILE(ex, a) = [Ret(e, None) EXCEPT !.cycles = 1]
  BY DEF PRECOMPILE
<1> HIDE DEF v
<1>3. Fit(e, m, s, {R} \cup {a}, 3) /\ Along(ex, e)
  BY <1>1, SyscallWriteFit
<1> HIDE DEF e
<1>4. /\ PRECOMPILE(ex, a).ex = e /\ PRECOMPILE(ex, a).ret = None
      /\ PRECOMPILE(ex, a).next = e.pc + 1 /\ PRECOMPILE(ex, a).cycles = 1
  BY <1>2 DEF Ret
<1>5. e.pc \in Nat /\ ~e.unconstrained /\ e.status = "run"
  BY <1>3 DEF Fit, Typed, Along
<1> QED
  BY <1>3, <1>4, <1>5 DEF GoodCall

LEMMA EnterCall ==
  ASSUME NEW ex, NEW m, NEW s, Fit(ex, m, s, {R}, 3), ~ex.unconstrained, ex.status = "run"
  PROVE  GoodCall(ENTER_UNCONSTRAINED(ex), m, s)
<1> DEFINE f == [global_clk |-> ex.global_clk, clk |-> ex.clk, pc |-> ex.pc,
                 memory_diff |-> Empty, mode |-> ex.mode, record |-> ex.record]
           e == [ex EXCEPT !.unconstrained = TRUE, !.fork = f, !.record = NewExecRecord,
                           !.mode = "Simple"]
<1>1. DOMAIN ex = Fields /\ Typed(ex) /\ Bounded(ex, {R}, 3) /\ IsMap(ex.memory, Stamp)
  BY DEF Fit, Typed
<1>2. ENTER_UNCONSTRAINED(ex) = Ret(e, 1)
  BY DEF ENTER_UNCONSTRAINED
<1>3. IsMap(Empty, OptionalStamp) /\ DOMAIN Empty = {}
  BY DEF IsMap, Empty
<1>4. /\ DOMAIN f = ForkFields /\ f.clk = ex.clk /\ f.global_clk = ex.global_clk
      /\ f.pc = ex.pc /\ f.memory_diff = Empty /\ f.mode = ex.mode /\ f.record = ex.record
  BY DEF ForkFields
<1> HIDE DEF f
<1>5. ForkTyped(f)
  BY <1>1, <1>3, <1>4 DEF ForkTyped, Typed
<1>6. NewExecRecord \in TraceRecord
  BY DEF NewExecRecord, TraceRecord
<1>7. /\ Keeps(ex, e, {"unconstrained", "fork", "record", "mode"})
      /\ e.unconstrained = TRUE /\ e.fork = f /\ e.record = NewExecRecord
  BY <1>1 DEF Keeps, Fields
<1> HIDE DEF e
<1>8. Typed(e)
  BY <1>1, <1>5, <1>6, <1>7 DEF Typed, Keeps, Fields
<1>9. OuterMode(e) = m
  BY <1>4, <1>7 DEF OuterMode, Fit
<1>10. /\ e.memory = ex.memory /\ e.memory_checkpoint = ex.memory_checkpoint
      /\ e.current_shard = ex.current_shard
      /\ e.local_memory_access = ex.local_memory_access /\ e.status = "run"
  BY <1>7 DEF Keeps, Fields
<1>11. m = "Checkpoint" => Recorded(e, s)
  BY <1>3, <1>4, <1>7, <1>10 DEF Recorded, Fit
<1>12. Fit(e, m, s, {R}, 3)
  BY <1>7, <1>8, <1>9, <1>11 DEF Fit
<1>13. Restore(ex.memory, Empty) = ex.memory
  BY <1>1, <1>3 DEF Restore, IsMap
<1>14. /\ Back(e).memory = ex.memory /\ Back(e).clk = ex.clk
       /\ Back(e).current_shard = ex.current_shard
       /\ Back(e).local_memory_access = ex.local_memory_access
  <2>1. DOMAIN e = Fields
    BY <1>8 DEF Typed
  <2>2. Keeps(e, Back(e), RestoredFields)
    BY <1>7, <2>1, BackFacts
  <2>3. Back(e).memory = Restore(e.memory, e.fork.memory_diff) /\ Back(e).clk = e.fork.clk
    BY <1>7, <2>1, BackFacts
  <2> QED
    BY <1>4, <1>7, <1>10, <1>13, <2>2, <2>3 DEF Keeps, Fields, RestoredFields
<1>15. Bounded(Back(e), {R}, 3)
  BY <1>1, <1>14 DEF Bounded, Limit
<1> QED
  BY <1>2, <1>10, <1>12, <1>15, RetGood

LEMMA ExitCall ==
  ASSUME NEW ex, NEW m, NEW s, Fit(ex, m, s, {R}, 3), ex.status = "run",
         ex.unconstrained => Bounded(Back(ex), {R}, 3)
  PROVE  GoodCall(EXIT_UNCONSTRAINED(ex), m, s)
<1>1. DOMAIN ex = Fields /\ Typed(ex)
  BY DEF Fit, Typed
<1>2. CASE ex.unconstrained
  <2>1. Fit(Back(ex), m, s, {R}, 3)
    BY <1>2, BackFit
  <2>2. /\ Back(ex).unconstrained = FALSE /\ Back(ex).status = "run"
        /\ EXIT_UNCONSTRAINED(ex).ret = 0
        /\ EXIT_UNCONSTRAINED(ex).next = ex.fork.pc + 1
        /\ EXIT_UNCONSTRAINED(ex).cycles = 0
    <3>1. Keeps(ex, Back(ex), RestoredFields)
      BY <1>1, <1>2, BackFacts
    <3>2. Back(ex).status = "run"
      BY <3>1 DEF Keeps, Fields, RestoredFields
    <3> QED
      BY <1>1, <1>2, <3>2, BackFacts
  <2>3. ex.fork.pc \in Nat
    BY <1>1, <1>2 DEF Typed, ForkTyped
  <2>4. EXIT_UNCONSTRAINED(ex).ex = Back(ex)
    BY DEF Back
  <2> QED
    BY <2>1, <2>2, <2>3, <2>4 DEF GoodCall
<1>3. CASE ~ex.unconstrained
  <2> DEFINE e == [ex EXCEPT !.fork = NoFork]
  <2>1. EXIT_UNCONSTRAINED(ex) = Ret(e, 0)
    BY <1>3 DEF EXIT_UNCONSTRAINED
  <2>2. Keeps(ex, e, {"fork"})
    BY <1>1 DEF Keeps, Fields
  <2> HIDE DEF e
  <2>3. e.unconstrained = ex.unconstrained /\ e.mode = ex.mode
        /\ e.memory = ex.memory /\ e.memory_checkpoint = ex.memory_checkpoint
        /\ e.clk = ex.clk /\ e.current_shard = ex.current_shard
        /\ e.local_memory_access = ex.local_memory_access /\ e.status = "run"
    BY <2>2 DEF Keeps, Fields
  <2>4. Typed(e)
    BY <1>1, <1>3, <2>2 DEF Typed, Keeps, Fields
  <2>5. OuterMode(e) = m /\ Bounded(e, {R}, 3) /\ (m = "Checkpoint" => Recorded(e, s))
    BY <1>3, <2>3 DEF Fit, OuterMode, Bounded, Limit, Recorded
  <2>6. Fit(e, m, s, {R}, 3)
    BY <2>4, <2>5 DEF Fit
  <2> QED
    BY <1>3, <2>1, <2>3, <2>6, RetGood
<1> QED
  BY <1>2, <1>3

\* The executor that makes a syscall, its operands read.
Caller(ex) == Read(Peek(ex, V0), R, PosB)

\* Syscall i of ex ends well for the executor that makes it.
Calls(ex, i, m, s) ==
    /\ SYSCALL(ex, i) = EndSyscall(Syscall(Caller(ex), i))
    /\ Passes(ex, Caller(ex), m, s, {R}, 3)
    /\ GoodCall(Syscall(Caller(ex), i), m, s)
    /\ ~ex.unconstrained \/ i.op \in AllowedUnconstrained

LEMMA SyscallGood ==
  ASSUME NEW ex, NEW m, NEW s, NEW i, Sound(ex, m, s), ex.status = "run", Instruction(i),
         i.op \notin {"ADDI", "LW", "SW", "SB", "BLEZ"}, SYSCALL(ex, i).status # "err"
  PROVE  Calls(ex, i, m, s)
<1> DEFINE e1 == Peek(ex, V0)
           v == RecordOf(e1, R).value
           e2 == Access(e1, R, v, 2)
           y == Syscall(e2, i)
<1>1. Caller(ex) = e2
  BY DEF Caller, Read, PosB
<1>2. R \in Locations /\ V0 \in Locations /\ DOMAIN ex = Fields
  BY Places DEF Sound, Fit, Typed
<1>3. ~ex.unconstrained \/ i.op \in AllowedUnconstrained
  <2>1. Err(ex).status = "err"
    BY <1>2 DEF Err, Fields
  <2> QED
    BY <2>1 DEF SYSCALL
<1>4. SYSCALL(ex, i) = EndSyscall(y)
  BY <1>3 DEF SYSCALL, Read, PosB
<1>5. Passes(ex, e1, m, s, {}, 0)
  <2>1. Passes(ex, ex, m, s, {}, 0)
    BY PassStart DEF Sound
  <2> QED
    BY <1>2, <2>1, PassPeek
<1>6. v \in Nat
  BY <1>5, RecordOfStamp DEF Passes, Fit
<1> HIDE DEF e1, v
<1>7. Passes(ex, e2, m, s, {R}, 3)
  <2>1. Passes(ex, e2, m, s, {} \cup {R}, 3)
    BY <1>2, <1>5, <1>6, PassAccess
  <2>2. {} \cup {R} = {R}
    OBVIOUS
  <2> QED
    BY <2>1, <2>2
<1> HIDE DEF e2
<1>8. /\ Fit(e2, m, s, {R}, 3) /\ e2.status = "run" /\ e2.unconstrained = ex.unconstrained
  BY <1>7 DEF Passes, Along
<1>9. e2.unconstrained => Bounded(Back(e2), {R}, 3)
  <2> SUFFICES ASSUME e2.unconstrained PROVE Bounded(Back(e2), {R}, 3)
    OBVIOUS
  <2>1. Stable(ex, e2) /\ Bounded(Back(ex), {R}, 3)
    BY <1>7, <1>8 DEF Passes, Sound
  <2> QED
    BY <2>1, StableBounded
<1>10. GoodCall(y, m, s)
  <2>1. CASE i.op \in {"WRITE_HINT", "WRITE_PV", "WRITE_HOOK"}
    <3>1. i.addr \in Addrs
      BY <2>1 DEF Instruction, OtherOps
    <3>2. y \in {WRITE_HINT(e2, i.addr), WRITE_PUBLIC_VALUES(e2, i.addr),
                 WRITE_HOOK(e2, i.addr, i.fd)}
      BY <2>1 DEF Syscall
    <3> QED
      BY <1>8, <1>9, <3>1, <3>2, WriteCalls
  <2>2. CASE i.op = "EXIT"
    <3>1. y = EXIT_UNCONSTRAINED(e2)
      BY <2>2 DEF Syscall
    <3> QED
      BY <1>8, <1>9, <3>1, ExitCall
  <2>3. CASE i.op \in {"HALT", "COMMIT", "COMMIT_DEFERRED", "HINT_LEN", "ENTER"}
    <3>1. ~e2.unconstrained
      BY <1>3, <1>8, <2>3 DEF AllowedUnconstrained
    <3>2. CASE i.op = "ENTER"
      <4>1. y = ENTER_UNCONSTRAINED(e2)
        BY <3>2 DEF Syscall
      <4> QED
        BY <1>8, <3>1, <4>1, EnterCall
    <3>3. CASE i.op # "ENTER"
      <4> DEFINE w == e2.memory[R].value
      <4>1. y \in {HALT(e2), COMMIT(e2, w), COMMIT_DEFERRED_PROOFS(e2, w), HINT_LEN(e2)}
        BY <2>3, <3>3 DEF Syscall
      <4> HIDE DEF w, y
      <4> QED
        BY <1>8, <3>1, <4>1, PlainCalls
    <3> QED
      BY <3>2, <3>3
  <2>4. CASE i.op \in {"VERIFY", "HINT_READ", "PRECOMPILE"}
    <3>1. i.addr \in Addrs
      BY <2>4 DEF Instruction, OtherOps
    <3>2. ~e2.unconstrained
      BY <1>3, <1>8, <2>4 DEF AllowedUnconstrained
    <3>3. y \in {VERIFY_ZKM_PROOF(e2, i.addr), HINT_READ(e2, i.addr), PRECOMPILE(e2, i.addr)}
      BY <2>4 DEF Syscall
    <3> QED
      BY <1>8, <3>1, <3>2, <3>3, VerifyCall, HintCall, PrecompileCall
  <2> QED
    BY <2>1, <2>2, <2>3, <2>4 DEF Instruction, OtherOps, AddressOps
<1> QED
  BY <1>3, <1>4, <1>7, <1>10, <1>1 DEF Calls

LEMMA SyscallSound ==
  ASSUME NEW ex, NEW m, NEW s, NEW i, Sound(ex, m, s), ex.status = "run", Instruction(i),
         i.op \notin {"ADDI", "LW", "SW", "SB", "BLEZ"}, SYSCALL(ex, i).status # "err"
  PROVE  Sound(SYSCALL(ex, i), m, s) /\ SYSCALL(ex, i).status = "run"
BY SyscallGood, EndSound DEF Calls

LEMMA OperationSound ==
  ASSUME NEW ex, NEW m, NEW s, NEW i, Sound(ex, m, s), ex.status = "run", Instruction(i),
         ExecuteOperation(ex, i).status # "err"
  PROVE  Sound(ExecuteOperation(ex, i), m, s) /\ ExecuteOperation(ex, i).status = "run"
<1> DEFINE d == [ex EXCEPT !.next_is_delayslot = FALSE]
           e == ExecuteOperation(ex, i)
<1>1. Passes(ex, d, m, s, {}, 0)
  BY PassStart, PassSlot DEF Sound
<1>2. d.status = "run" /\ Fit(d, m, s, {}, 0)
  BY <1>1 DEF Passes, Along
<1>3. d.unconstrained => Bounded(Back(d), {R}, 3)
  <2> SUFFICES ASSUME d.unconstrained PROVE Bounded(Back(d), {R}, 3)
    OBVIOUS
  <2> HIDE DEF d
  <2>1. Stable(ex, d) /\ Bounded(Back(ex), {R}, 3)
    BY <1>1 DEF Passes, Sound, Along
  <2> QED
    BY <2>1, StableBounded
<1>4. CASE i.op \in {"ADDI", "LW", "SW", "SB", "BLEZ"}
  <2>1. Carries(d, e, m, s)
    <3>1. CASE i.op = "ADDI"
      <4>1. e = ADDI(d)
        BY <3>1 DEF ExecuteOperation
      <4> QED
        BY <1>2, <4>1, AddStep
    <3>2. CASE i.op \in {"LW", "SW", "SB"}
      <4>1. i.addr \in Addrs
        BY <3>2 DEF Instruction, OtherOps
      <4>2. e \in {LW(d, i.addr), SW(d, i.addr), SB(d, i.addr)}
        BY <3>2 DEF ExecuteOperation
      <4> HIDE DEF d, e
      <4> QED
        BY <1>2, <4>1, <4>2, MemorySteps
    <3>3. CASE i.op = "BLEZ"
      <4>1. i.target \in Nat
        BY <3>3 DEF Instruction, OtherOps, AddressOps
      <4>2. e = BLEZ(d, i.target)
        BY <3>3 DEF ExecuteOperation
      <4> HIDE DEF d, e
      <4> QED
        BY <1>2, <4>1, <4>2, BranchStep
    <3> QED
      BY <1>4, <3>1, <3>2, <3>3
  <2> HIDE DEF d, e
  <2>2. ASSUME e.unconstrained PROVE Bounded(Back(e), {R}, 3)
    <3>1. d.unconstrained /\ Stable(d, e)
      BY <2>1, <2>2 DEF Carries
    <3> QED
      BY <1>3, <3>1, StableBounded
  <2> QED
    BY <1>2, <2>1, <2>2 DEF Carries, Sound, e
<1>5. CASE i.op \notin {"ADDI", "LW", "SW", "SB", "BLEZ"}
  <2>1. e = SYSCALL(d, i)
    BY <1>5 DEF ExecuteOperation
  <2>2. e.status # "err"
    OBVIOUS
  <2> HIDE DEF d, e
  <2>3. Sound(e, m, s) /\ e.status = "run"
    BY <1>2, <1>3, <1>5, <2>1, <2>2, SyscallSound DEF Sound
  <2> QED
    BY <2>3 DEF e
<1> QED
  BY <1>4, <1>5

-----------------------------------------------------------------------------
(* Cycles and shards. *)

\* An executor that has not failed.
ExecInv(ex, m, s) ==
    /\ Sound(ex, m, s)
    /\ ex.status \in {"run", "batch", "done"}
    /\ ex.status # "done" => ex.pc \in 1 .. ProgramLength
    /\ ex.status # "run" => ~ex.unconstrained
    /\ ex.global_clk = 0 => ex.clk = 0

LEMMA CycleSound ==
  ASSUME NEW ex, NEW m, NEW s, NEW i, NEW limit, Sound(ex, m, s), ex.status = "run",
         Instruction(i), ExecuteCycle(ex, i, limit).status # "err"
  PROVE  /\ ExecInv(ExecuteCycle(ex, i, limit), m, s)
         /\ ExecuteCycle(ex, i, limit).status # "batch"
         /\ ExecuteCycle(ex, i, limit).global_clk # 0
<1> DEFINE o == ExecuteOperation(ex, i)
           g == [o EXCEPT !.global_clk = @ + 1]
           e == EndCycle(g, limit)
<1>1. ExecuteCycle(ex, i, limit) = e
  BY DEF ExecuteCycle
<1>2. o.status # "err"
  <2> SUFFICES ASSUME o.status = "err" PROVE FALSE
    OBVIOUS
  <2>1. g.status = "err"
    OBVIOUS
  <2>2. e = g
    BY <2>1 DEF EndCycle
  <2> QED
    BY <1>1, <2>1, <2>2
<1>3. Sound(o, m, s) /\ o.status = "run"
  BY <1>2, OperationSound
<1> HIDE DEF o
<1>4. Typed(o) /\ DOMAIN o = Fields /\ o.global_clk \in Nat /\ o.clk \in Nat
  BY <1>3 DEF Sound, Fit, Typed
<1>5. Keeps(o, g, {"global_clk"}) /\ g.global_clk = o.global_clk + 1
  BY <1>4 DEF Keeps, Fields
<1> HIDE DEF g
<1>6. /\ Keeps(o, g, {"clk", "pc", "next_pc", "record", "global_clk"})
      /\ Keeps(o, g, {"clk", "pc", "next_pc", "record", "global_clk"} \cup VolatileFields)
      /\ g.pc = o.pc /\ g.next_pc = o.next_pc /\ g.record = o.record /\ g.clk = o.clk
      /\ g.unconstrained = o.unconstrained /\ g.status = o.status
  BY <1>5 DEF Keeps, Fields
<1>7. /\ g.clk \in Nat /\ g.pc \in Nat /\ g.next_pc \in Nat /\ g.global_clk \in Nat \ {0}
      /\ g.record \in TraceRecord
  BY <1>4, <1>5, <1>6 DEF Typed
<1>8. Fit(g, m, s, {}, 0)
  <2>1. \A b : Limit(o, {}, 0, b) <= Limit(g, {}, 0, b)
    BY <1>4, <1>6 DEF Limit
  <2>2. Fit(o, m, s, {}, 0)
    BY <1>3 DEF Sound
  <2> QED
    BY <1>6, <1>7, <2>1, <2>2, MoveFit
<1>9. Sound(g, m, s)
  <2> SUFFICES ASSUME g.unconstrained PROVE Bounded(Back(g), {R}, 3)
    BY <1>8 DEF Sound
  <2>1. Stable(o, g) /\ Bounded(Back(o), {R}, 3)
    BY <1>3, <1>4, <1>6, MoveStable DEF Sound
  <2> QED
    BY <2>1, StableBounded
<1>10. DOMAIN g = Fields
  BY <1>5 DEF Keeps
<1> DEFINE done == g.pc = 0 \/ g.exited \/ g.pc > ProgramLength
           f == [g EXCEPT !.status = "done"]
<1>11. Err(g).status = "err"
  BY <1>10 DEF Err, Fields
<1>12. \/ e = g /\ ~done
       \/ e = f /\ done /\ ~g.unconstrained
  <2>1. e # Err(g)
    BY <1>1, <1>11
  <2> QED
    BY <1>3, <1>6, <2>1 DEF EndCycle
<1>13. CASE e = g /\ ~done
  <2>1. g.pc \in 1 .. ProgramLength
    BY <1>7, <1>13, ExecutorAssumption
  <2> QED
    BY <1>1, <1>3, <1>6, <1>7, <1>9, <1>13, <2>1 DEF ExecInv
<1>14. CASE e = f /\ done /\ ~g.unconstrained
  <2>1. Keeps(g, f, {"status"}) /\ f.status = "done"
    BY <1>10 DEF Keeps, Fields
  <2> HIDE DEF f
  <2>2. /\ Keeps(g, f, LooseFields \cup {"status"})
        /\ f.unconstrained = g.unconstrained /\ f.global_clk = g.global_clk
    BY <2>1 DEF Keeps, Fields
  <2>3. Fit(f, m, s, {}, 0)
    BY <1>8, <2>2, StatusFit
  <2> QED
    BY <1>1, <1>7, <1>14, <2>1, <2>2, <2>3 DEF ExecInv, Sound
<1> QED
  BY <1>12, <1>13, <1>14

LEMMA BumpSound ==
  ASSUME NEW ex, NEW m, NEW s, Sound(ex, m, s), ~ex.unconstrained
  PROVE  /\ Sound(BumpRecord(ex), m, s)
         /\ Keeps(ex, BumpRecord(ex), {"local_mem", "local_memory_access", "record", "records"})
<1> DEFINE lm == ex.local_memory_access
           local == {lm[a] : a \in DOMAIN lm}
           closed == IF ex.mode = "Trace" THEN [ex.record EXCEPT !.local = @ \cup local]
                     ELSE ex.record
           l == IF ex.mode = "Trace" THEN Empty ELSE lm
           e == BumpRecord(ex)
<1>1. /\ Typed(ex) /\ DOMAIN ex = Fields /\ ex.record \in TraceRecord
      /\ ex.records \in Seq(TraceRecord) /\ IsMap(lm, ForwardEvent) /\ Bounded(ex, {}, 0)
  BY DEF Sound, Fit, Typed
<1>2. local \subseteq ForwardEvent
  BY <1>1 DEF IsMap
<1>3. e = [ex EXCEPT !.local_mem = 0, !.local_memory_access = l, !.record = NewExecRecord,
                     !.records = Append(@, closed)]
  BY DEF BumpRecord
<1> HIDE DEF local
<1>4. closed \in TraceRecord
  BY <1>1, <1>2 DEF TraceRecord
<1>5. Append(ex.records, closed) \in Seq(TraceRecord)
  <2> HIDE DEF closed
  <2> QED
    BY <1>1, <1>4
<1>6. NewExecRecord \in TraceRecord
  BY DEF NewExecRecord, TraceRecord
<1>7. /\ IsMap(l, ForwardEvent) /\ DOMAIN l \subseteq DOMAIN lm
      /\ \A b \in DOMAIN l : l[b] = lm[b]
  BY <1>1 DEF Empty, IsMap
<1> HIDE DEF closed, l
<1>8. /\ Keeps(ex, e, {"local_mem", "local_memory_access", "record", "records"})
      /\ e.local_memory_access = l /\ e.record = NewExecRecord
      /\ e.records = Append(ex.records, closed)
  BY <1>1, <1>3 DEF Keeps, Fields
<1> HIDE DEF e
<1>9. Typed(e)
  BY <1>1, <1>5, <1>6, <1>7, <1>8 DEF Typed, Keeps, Fields
<1>10. /\ e.unconstrained = ex.unconstrained /\ e.mode = ex.mode /\ e.fork = ex.fork
       /\ e.memory = ex.memory /\ e.memory_checkpoint = ex.memory_checkpoint
       /\ e.clk = ex.clk /\ e.current_shard = ex.current_shard
  BY <1>8 DEF Keeps, Fields
<1>11. OuterMode(e) = m /\ (m = "Checkpoint" => Recorded(e, s))
  BY <1>10 DEF Sound, Fit, OuterMode, Recorded
<1>12. Bounded(e, {}, 0)
  BY <1>1, <1>7, <1>8, <1>10 DEF Bounded, Limit
<1> QED
  BY <1>8, <1>9, <1>10, <1>11, <1>12 DEF Sound, Fit, e

LEMMA ShardSound ==
  ASSUME NEW ex, NEW e, NEW m, NEW s, Sound(ex, m, s), ~ex.unconstrained,
         Keeps(ex, e, {"current_shard", "clk", "records_clk", "records_clk_index"}),
         e.current_shard = ex.current_shard + 1, e.clk = 0
  PROVE  Sound(e, m, s)
<1>1. /\ Typed(ex) /\ DOMAIN ex = Fields /\ Bounded(ex, {}, 0)
      /\ ex.current_shard \in Nat \ {0} /\ ex.clk \in Nat
      /\ IsMap(ex.memory, Stamp) /\ IsMap(ex.local_memory_access, ForwardEvent)
  BY DEF Sound, Fit, Typed
<1>2. /\ e.unconstrained = ex.unconstrained /\ e.mode = ex.mode /\ e.fork = ex.fork
      /\ e.memory = ex.memory /\ e.memory_checkpoint = ex.memory_checkpoint
      /\ e.local_memory_access = ex.local_memory_access
  BY DEF Keeps, Fields
<1>3. Typed(e)
  BY <1>1 DEF Typed, Keeps, Fields
<1>4. OuterMode(e) = m /\ (m = "Checkpoint" => Recorded(e, s))
  BY <1>2 DEF Sound, Fit, OuterMode, Recorded
<1>5. ASSUME NEW r \in Stamp, Before(r, ex.current_shard, ex.clk)
      PROVE  Before(r, e.current_shard, 0)
  BY <1>1, <1>5 DEF Before, Stamp
<1>6. ASSUME NEW b \in DOMAIN ex.memory
      PROVE  Before(ex.memory[b], e.current_shard, 0)
  <2>1. ex.memory[b] \in Stamp
    BY <1>1 DEF IsMap
  <2>2. Before(ex.memory[b], ex.current_shard, ex.clk)
    BY <1>1 DEF Bounded, Limit
  <2> QED
    BY <1>5, <2>1, <2>2
<1>7. ASSUME NEW b \in DOMAIN ex.local_memory_access
      PROVE  Before(ex.local_memory_access[b].initial, e.current_shard, 0)
  <2>1. ex.local_memory_access[b].initial \in Stamp
    BY <1>1, EventFacts
  <2>2. Before(ex.local_memory_access[b].initial, ex.current_shard, ex.clk)
    BY <1>1 DEF Bounded, Limit
  <2> QED
    BY <1>5, <2>1, <2>2
<1>8. Bounded(e, {}, 0)
  BY <1>2, <1>6, <1>7 DEF Bounded, Limit
<1> QED
  BY <1>2, <1>3, <1>4, <1>8 DEF Sound, Fit

\* inc_shard_if_need moves to the next shard exactly when it cuts.
LEMMA CutFacts ==
  ASSUME NEW ex, DOMAIN ex = Fields, IncShardIfNeed(ex).cut
  PROVE  /\ Keeps(ex, IncShardIfNeed(ex).ex, {"current_shard", "clk", "records_clk",
                                               "records_clk_index"})
         /\ IncShardIfNeed(ex).ex.current_shard = ex.current_shard + 1
         /\ IncShardIfNeed(ex).ex.clk = 0
<1> DEFINE n == NextShard(ex)
           next == ex.records_clk_index + 1
           e1 == [n EXCEPT !.records_clk_index = next]
           e2 == [n EXCEPT !.records_clk = Append(@, ex.clk)]
<1>1. /\ Keeps(ex, n, {"current_shard", "clk"})
      /\ n.current_shard = ex.current_shard + 1 /\ n.clk = 0 /\ DOMAIN n = Fields
  BY DEF NextShard, Keeps, Fields
<1>2. IncShardIfNeed(ex).ex \in {n, e1, e2}
  BY DEF IncShardIfNeed
<1> HIDE DEF n, next
<1>3. /\ Keeps(n, e1, {"records_clk_index"}) /\ Keeps(n, e2, {"records_clk"})
  BY <1>1 DEF Keeps, Fields
<1>4. /\ e1.current_shard = n.current_shard /\ e1.clk = n.clk
      /\ e2.current_shard = n.current_shard /\ e2.clk = n.clk
  BY <1>3 DEF Keeps, Fields
<1> HIDE DEF e1, e2
<1>5. /\ Keeps(ex, n, {"current_shard", "clk", "records_clk", "records_clk_index"})
      /\ Keeps(ex, e1, {"current_shard", "clk", "records_clk", "records_clk_index"})
      /\ Keeps(ex, e2, {"current_shard", "clk", "records_clk", "records_clk_index"})
  BY <1>1, <1>3 DEF Keeps
<1> QED
  BY <1>1, <1>2, <1>4, <1>5

LEMMA TurnSound ==
  ASSUME NEW ex, NEW m, NEW s, NEW i, NEW limit, Sound(ex, m, s), ex.status = "run",
         Instruction(i), LoopTurn(ex, i, limit).status # "err"
  PROVE  ExecInv(LoopTurn(ex, i, limit), m, s)
<1> DEFINE c == ExecuteCycle(ex, i, limit)
           inc == IncShardIfNeed(c)
           e == EndTurn(c)
<1>1. LoopTurn(ex, i, limit) = e
  BY DEF LoopTurn
<1>2. c.status # "err"
  <2> SUFFICES ASSUME c.status = "err" PROVE FALSE
    OBVIOUS
  <2> HIDE DEF c
  <2>1. e = c
    BY DEF EndTurn
  <2> QED
    BY <1>1, <2>1
<1>3. ExecInv(c, m, s) /\ c.status # "batch" /\ c.global_clk # 0
  BY <1>2, CycleSound
<1> HIDE DEF c
<1>4. Sound(c, m, s) /\ DOMAIN c = Fields
  BY <1>3 DEF ExecInv, Sound, Fit, Typed
<1>5. CASE c.status = "done"
  <2> DEFINE b == BumpRecord(c)
  <2>1. e = b
    BY <1>5 DEF EndTurn
  <2>2. ~c.unconstrained
    BY <1>3, <1>5 DEF ExecInv
  <2>3. /\ Sound(b, m, s)
        /\ Keeps(c, b, {"local_mem", "local_memory_access", "record", "records"})
    BY <1>4, <2>2, BumpSound
  <2> HIDE DEF b
  <2>4. /\ b.status = c.status /\ b.unconstrained = c.unconstrained
        /\ b.global_clk = c.global_clk
    BY <2>3 DEF Keeps, Fields
  <2> QED
    BY <1>1, <1>3, <1>5, <2>1, <2>2, <2>3, <2>4 DEF ExecInv
<1>6. CASE c.status # "done" /\ (~MayCut(c) \/ ~inc.cut)
  <2>1. e = c
    BY <1>2, <1>6 DEF EndTurn
  <2> QED
    BY <1>1, <1>3, <2>1
<1>7. CASE c.status # "done" /\ MayCut(c) /\ inc.cut
  <2> DEFINE n == inc.ex
             b == BumpRecord(n)
             f == [b EXCEPT !.status = "batch"]
  <2>1. e = EndShard(b)
    BY <1>2, <1>7 DEF EndTurn
  <2>2. e \in {b, f}
    BY <2>1 DEF EndShard
  <2>3. /\ Keeps(c, n, {"current_shard", "clk", "records_clk", "records_clk_index"})
        /\ n.current_shard = c.current_shard + 1 /\ n.clk = 0
    BY <1>4, <1>7, CutFacts
  <2> HIDE DEF n
  <2>4. ~c.unconstrained /\ c.status = "run" /\ c.pc \in 1 .. ProgramLength
    BY <1>3, <1>7 DEF MayCut, ExecInv
  <2>5. Sound(n, m, s)
    BY <1>4, <2>3, <2>4, ShardSound
  <2>6. /\ n.unconstrained = c.unconstrained /\ n.status = c.status /\ n.pc = c.pc
        /\ n.global_clk = c.global_clk
    BY <2>3 DEF Keeps, Fields
  <2>7. /\ Sound(b, m, s)
        /\ Keeps(n, b, {"local_mem", "local_memory_access", "record", "records"})
    BY <2>4, <2>5, <2>6, BumpSound
  <2> HIDE DEF b
  <2>8. /\ b.unconstrained = n.unconstrained /\ b.status = n.status /\ b.pc = n.pc
        /\ b.global_clk = n.global_clk /\ DOMAIN b = Fields
    BY <2>7 DEF Keeps, Fields
  <2>9. ExecInv(b, m, s)
    BY <1>3, <2>4, <2>6, <2>7, <2>8 DEF ExecInv
  <2>10. ExecInv(f, m, s)
    <3>1. Keeps(b, f, {"status"}) /\ f.status = "batch"
      BY <2>8 DEF Keeps, Fields
    <3> HIDE DEF f
    <3>2. /\ Keeps(b, f, LooseFields \cup {"status"})
          /\ f.unconstrained = b.unconstrained /\ f.global_clk = b.global_clk
          /\ f.pc = b.pc
      BY <3>1 DEF Keeps, Fields
    <3>3. Fit(b, m, s, {}, 0)
      BY <2>7 DEF Sound
    <3>4. Fit(f, m, s, {}, 0)
      BY <3>2, <3>3, StatusFit
    <3> QED
      BY <1>3, <2>4, <2>6, <2>8, <3>1, <3>2, <3>4 DEF ExecInv, Sound
  <2> QED
    BY <1>1, <2>2, <2>9, <2>10
<1> QED
  BY <1>5, <1>6, <1>7

-----------------------------------------------------------------------------
(* Checkpoints. *)

LEMMA NewSound ==
  ASSUME NEW h, NEW o, NEW s
  PROVE  ExecInv(NewExecutor(h, o), "Trace", s)
<1> DEFINE ex == NewExecutor(h, o)
<1>1. /\ ex.pc = 1 /\ ex.next_pc = 2 /\ ex.clk = 0 /\ ex.global_clk = 0
      /\ ex.current_shard = 1 /\ ex.memory = Empty /\ ex.uninitialized_memory = Empty
      /\ ex.input_stream = <<>> /\ ex.input_stream_ptr = 0
      /\ ex.memory_checkpoint = Empty /\ ex.mode = "Trace" /\ ex.unconstrained = FALSE
      /\ ex.local_memory_access = Empty /\ ex.record = NewExecRecord /\ ex.records = <<>>
      /\ ex.status = "run" /\ DOMAIN ex = Fields
      /\ ex.uninitialized_memory_checkpoint = Empty
  BY DEF NewExecutor, Fields
<1> HIDE DEF ex
<1>2. DOMAIN Empty = {} /\ \A S : IsMap(Empty, S)
  BY DEF Empty, IsMap
<1>3. NewExecRecord \in TraceRecord
  BY DEF NewExecRecord, TraceRecord
<1>4. Marks(Empty, Empty)
  BY <1>2 DEF Marks
<1>5. /\ 0 \in 0 .. Len(<<>>) /\ <<>> \in Seq(Nat) /\ <<>> \in Seq(TraceRecord)
  OBVIOUS
<1>6. Typed(ex)
  <2>1. Marks(ex.uninitialized_memory_checkpoint, ex.uninitialized_memory)
    BY <1>1, <1>4
  <2>2. /\ IsMap(ex.memory, Stamp) /\ IsMap(ex.uninitialized_memory, Nat)
        /\ IsMap(ex.memory_checkpoint, OptionalStamp)
        /\ IsMap(ex.local_memory_access, ForwardEvent)
    BY <1>1, <1>2
  <2>3. /\ ex.input_stream \in Seq(Nat)
        /\ ex.input_stream_ptr \in 0 .. Len(ex.input_stream)
        /\ ex.records \in Seq(TraceRecord)
    BY <1>1, <1>5
  <2>4. /\ ex.pc \in Nat /\ ex.next_pc \in Nat /\ ex.clk \in Nat /\ ex.global_clk \in Nat
        /\ ex.current_shard \in Nat \ {0}
    BY <1>1
  <2>5. ex.unconstrained \in BOOLEAN /\ (ex.unconstrained => ForkTyped(ex.fork))
    BY <1>1
  <2>6. ex.record \in TraceRecord /\ DOMAIN ex = Fields
    BY <1>1, <1>3
  <2> QED
    BY <2>1, <2>2, <2>3, <2>4, <2>5, <2>6 DEF Typed
<1>7. Bounded(ex, {}, 0)
  BY <1>1, <1>2 DEF Bounded
<1>8. OuterMode(ex) = "Trace"
  BY <1>1 DEF OuterMode
<1> QED
  BY <1>1, <1>6, <1>7, <1>8, ExecutorAssumption DEF ExecInv, Sound, Fit, ex

LEMMA InitializeSound ==
  ASSUME NEW ex, NEW m, NEW s, ExecInv(ex, m, s), ~ex.unconstrained,
         m = "Checkpoint" => s.current_shard \in Nat \ {0}
  PROVE  ExecInv(Initialize(ex), m, s)
<1>1. /\ Sound(ex, m, s) /\ Fit(ex, m, s, {}, 0) /\ Typed(ex) /\ Bounded(ex, {}, 0)
      /\ DOMAIN ex = Fields /\ ex.global_clk \in Nat /\ ex.clk \in Nat
  BY DEF ExecInv, Sound, Fit, Typed
<1>2. CASE ex.global_clk # 0
  BY <1>2 DEF Initialize
<1>3. CASE ex.global_clk = 0
  <2> DEFINE mem == [a \in DOMAIN Image \cup DOMAIN ex.memory |->
                        IF a \in DOMAIN Image
                        THEN [value |-> Image[a], shard |-> 0, timestamp |-> 0]
                        ELSE ex.memory[a]]
             e == Initialize(ex)
  <2>1. e = [ex EXCEPT !.clk = 0, !.records_clk_index = 0, !.memory = mem]
    BY <1>3 DEF Initialize
  <2>2. ASSUME NEW a \in DOMAIN Image
        PROVE  /\ a \in Locations /\ Image[a] \in Nat
               /\ mem[a] = [value |-> Image[a], shard |-> 0, timestamp |-> 0]
    BY ExecutorAssumption DEF Locations, Word
  <2>3. ASSUME NEW a \in DOMAIN Image
        PROVE  a \in Locations /\ mem[a] \in Stamp /\ mem[a].shard = 0
    <3>1. /\ a \in Locations /\ Image[a] \in Nat
          /\ mem[a] = [value |-> Image[a], shard |-> 0, timestamp |-> 0]
      BY <2>2
    <3> HIDE DEF mem
    <3> QED
      BY <3>1 DEF Stamp
  <2>4. /\ DOMAIN mem = DOMAIN Image \cup DOMAIN ex.memory
        /\ \A a \in DOMAIN ex.memory \ DOMAIN Image : mem[a] = ex.memory[a]
        /\ mem = [a \in DOMAIN mem |-> mem[a]]
    OBVIOUS
  <2> HIDE DEF mem
  <2>5. IsMap(ex.memory, Stamp)
    BY <1>1 DEF Typed
  <2>6. IsMap(mem, Stamp)
    BY <2>3, <2>4, <2>5 DEF IsMap
  <2>7. /\ Keeps(ex, e, {"clk", "records_clk_index", "memory"}) /\ e.clk = 0
        /\ e.memory = mem
    BY <1>1, <2>1 DEF Keeps, Fields
  <2> HIDE DEF e
  <2>8. ex.clk = 0
    BY <1>3 DEF ExecInv
  <2>9. /\ e.unconstrained = ex.unconstrained /\ e.mode = ex.mode
        /\ e.current_shard = ex.current_shard /\ e.clk = ex.clk
        /\ e.local_memory_access = ex.local_memory_access /\ e.status = ex.status
        /\ e.pc = ex.pc /\ e.global_clk = ex.global_clk
        /\ e.memory_checkpoint = ex.memory_checkpoint
    BY <2>7, <2>8 DEF Keeps, Fields
  <2>10. Typed(e)
    <3>1. /\ e.next_pc = ex.next_pc /\ e.uninitialized_memory = ex.uninitialized_memory
          /\ e.uninitialized_memory_checkpoint = ex.uninitialized_memory_checkpoint
          /\ e.input_stream = ex.input_stream /\ e.input_stream_ptr = ex.input_stream_ptr
          /\ e.fork = ex.fork /\ e.record = ex.record /\ e.records = ex.records
          /\ DOMAIN e = Fields
      BY <2>7 DEF Keeps, Fields
    <3>2. IsMap(e.memory, Stamp)
      BY <2>6, <2>7
    <3> QED
      BY <1>1, <2>9, <3>1, <3>2 DEF Typed
  <2>11. Bounded(e, {}, 0)
    <3>1. ASSUME NEW b \in DOMAIN mem PROVE Before(mem[b], e.current_shard, e.clk)
      <4>1. CASE b \in DOMAIN Image
        <5>1. mem[b].shard = 0 /\ e.current_shard \in Nat \ {0}
          BY <2>3, <2>9, <4>1, <1>1 DEF Typed
        <5> QED
          BY <5>1 DEF Before
      <4>2. CASE b \notin DOMAIN Image
        <5>1. b \in DOMAIN ex.memory /\ mem[b] = ex.memory[b]
          BY <2>4, <3>1, <4>2
        <5> QED
          BY <1>1, <2>9, <5>1 DEF Bounded, Limit
      <4> QED
        BY <4>1, <4>2
    <3>2. \A b \in DOMAIN e.memory : Before(e.memory[b], e.current_shard, Limit(e, {}, 0, b))
      BY <2>7, <3>1 DEF Limit
    <3> QED
      BY <1>1, <2>9, <3>2 DEF Bounded, Limit
  <2>12. OuterMode(e) = m
    BY <1>1, <2>9 DEF Fit, OuterMode
  <2>13. ASSUME m = "Checkpoint" PROVE Recorded(e, s)
    <3>1. Recorded(ex, s)
      BY <1>1, <2>13 DEF Fit
    <3>2. ASSUME NEW b \in DOMAIN mem \ DOMAIN ex.memory_checkpoint
          PROVE  Before(mem[b], s.current_shard, s.clk)
      <4>1. CASE b \in DOMAIN Image
        <5>1. mem[b].shard = 0 /\ s.current_shard \in Nat \ {0}
          BY <2>3, <2>13, <4>1
        <5> QED
          BY <5>1 DEF Before
      <4>2. CASE b \notin DOMAIN Image
        <5>1. b \in DOMAIN ex.memory \ DOMAIN ex.memory_checkpoint /\ mem[b] = ex.memory[b]
          BY <2>4, <3>2, <4>2
        <5> QED
          BY <3>1, <5>1 DEF Recorded
      <4> QED
        BY <4>1, <4>2
    <3> QED
      BY <2>7, <2>9, <3>1, <3>2 DEF Recorded
  <2>14. Sound(e, m, s)
    BY <2>9, <2>10, <2>11, <2>12, <2>13 DEF Sound, Fit
  <2> QED
    BY <2>9, <2>14 DEF ExecInv, e
<1> QED
  BY <1>2, <1>3

\* A new batch: its checkpoint is complete as long as nothing has happened in it.
LEMMA BatchSound ==
  ASSUME NEW ex, NEW m, NEW t, NEW e, ExecInv(ex, m, t), ex.status # "done",
         ~ex.unconstrained,
         Keeps(ex, e, LooseFields \cup {"mode", "memory_checkpoint", "records", "status",
                                        "uninitialized_memory_checkpoint"}),
         e.mode = "Checkpoint", e.memory_checkpoint = Empty, e.records = <<>>,
         e.status = "run",
         Marks(e.uninitialized_memory_checkpoint, e.uninitialized_memory)
  PROVE  /\ ExecInv(e, "Checkpoint", e) /\ ~e.unconstrained
<1>1. /\ Typed(ex) /\ Bounded(ex, {}, 0) /\ DOMAIN ex = Fields
  BY DEF ExecInv, Sound, Fit, Typed
<1>2. /\ e.pc = ex.pc /\ e.next_pc = ex.next_pc /\ e.clk = ex.clk
      /\ e.global_clk = ex.global_clk /\ e.current_shard = ex.current_shard
      /\ e.memory = ex.memory /\ e.uninitialized_memory = ex.uninitialized_memory
      /\ e.input_stream = ex.input_stream /\ e.input_stream_ptr = ex.input_stream_ptr
      /\ e.unconstrained = ex.unconstrained /\ e.fork = ex.fork
      /\ e.local_memory_access = ex.local_memory_access
      /\ e.record = ex.record /\ DOMAIN e = Fields
  BY DEF Keeps, Fields, LooseFields
<1>3. IsMap(Empty, OptionalStamp) /\ DOMAIN Empty = {} /\ <<>> \in Seq(TraceRecord)
  BY DEF IsMap, Empty
<1>4. IsMap(e.memory_checkpoint, OptionalStamp) /\ e.records \in Seq(TraceRecord)
      /\ DOMAIN e.memory_checkpoint = {}
  BY <1>3
<1>5. Typed(e)
  BY <1>1, <1>2, <1>4 DEF Typed
<1>6. Bounded(e, {}, 0)
  BY <1>1, <1>2 DEF Bounded, Limit
<1>7. OuterMode(e) = "Checkpoint"
  BY <1>2 DEF OuterMode
<1>8. Recorded(e, e)
  <2>1. \A b \in DOMAIN e.memory : Before(e.memory[b], e.current_shard, e.clk)
    BY <1>6 DEF Bounded, Limit
  <2> QED
    BY <1>2, <1>4, <2>1 DEF Recorded
<1>9. Sound(e, "Checkpoint", e)
  BY <1>2, <1>5, <1>6, <1>7, <1>8 DEF Sound, Fit
<1> QED
  BY <1>2, <1>9 DEF ExecInv

\* The records of a batch's checkpoint are those from before the batch.
LEMMA OldMemory ==
  ASSUME NEW ex, NEW s, NEW t, ExecInv(ex, "Checkpoint", s), ex.status # "run", Typed(t)
  PROVE  /\ IsMap(MakeCheckpoint(t, ex).memory, Stamp)
         /\ \A b \in DOMAIN MakeCheckpoint(t, ex).memory :
               Before(MakeCheckpoint(t, ex).memory[b], s.current_shard, s.clk)
<1> DEFINE c == ex.memory_checkpoint
           mem == ex.memory
           looked == {a \in DOMAIN c : c[a] # None}
           added == {a \in DOMAIN c : c[a] = None}
<1>1. /\ IsMap(mem, Stamp) /\ IsMap(c, OptionalStamp)
      /\ \A b \in DOMAIN c : c[b] = None \/ Before(c[b], s.current_shard, s.clk)
      /\ \A b \in DOMAIN mem \ DOMAIN c : Before(mem[b], s.current_shard, s.clk)
  BY DEF ExecInv, Sound, Fit, Typed, Recorded
<1>2. MakeCheckpoint(t, ex).memory \in {Restore(mem, c), Restrict(c, looked)}
  BY DEF MakeCheckpoint, Typed, Fields
<1> HIDE DEF c, mem
<1>3. ASSUME NEW r, r = Restrict(c, looked)
      PROVE  IsMap(r, Stamp) /\ \A b \in DOMAIN r : Before(r[b], s.current_shard, s.clk)
  <2>1. DOMAIN r = looked /\ r = [a \in looked |-> c[a]]
    BY <1>3 DEF Restrict
  <2>2. ASSUME NEW b \in looked
        PROVE  b \in Locations /\ c[b] \in Stamp /\ Before(c[b], s.current_shard, s.clk)
    BY <1>1 DEF IsMap, OptionalStamp
  <2> HIDE DEF looked
  <2> QED
    BY <2>1, <2>2 DEF IsMap
<1>4. ASSUME NEW r, r = Restore(mem, c)
      PROVE  IsMap(r, Stamp) /\ \A b \in DOMAIN r : Before(r[b], s.current_shard, s.clk)
  <2> DEFINE D == (DOMAIN mem \cup DOMAIN c) \ added
  <2>1. DOMAIN r = D /\ r = [a \in D |-> IF a \in DOMAIN c THEN c[a] ELSE mem[a]]
    BY <1>4 DEF Restore
  <2>2. ASSUME NEW b \in D
        PROVE  /\ b \in Locations /\ r[b] \in Stamp
               /\ Before(r[b], s.current_shard, s.clk)
    <3>1. CASE b \in DOMAIN c
      <4>1. r[b] = c[b] /\ c[b] # None
        BY <2>1, <2>2, <3>1
      <4> QED
        BY <1>1, <3>1, <4>1 DEF IsMap, OptionalStamp
    <3>2. CASE b \notin DOMAIN c
      <4>1. r[b] = mem[b] /\ b \in DOMAIN mem
        BY <2>1, <2>2, <3>2
      <4> QED
        BY <1>1, <3>2, <4>1 DEF IsMap
    <3> QED
      BY <3>1, <3>2
  <2> HIDE DEF D
  <2>3. r = [a \in D |-> r[a]]
    BY <2>1
  <2> QED
    BY <2>1, <2>2, <2>3 DEF IsMap
<1>5. CASE MakeCheckpoint(t, ex).memory = Restore(mem, c)
  <2> DEFINE r == MakeCheckpoint(t, ex).memory
  <2>1. r = Restore(mem, c)
    BY <1>5
  <2> HIDE DEF r
  <2>2. IsMap(r, Stamp) /\ \A b \in DOMAIN r : Before(r[b], s.current_shard, s.clk)
    BY <1>4, <2>1
  <2> QED
    BY <2>2 DEF r
<1>6. CASE MakeCheckpoint(t, ex).memory = Restrict(c, looked)
  <2> DEFINE r == MakeCheckpoint(t, ex).memory
  <2>1. r = Restrict(c, looked)
    BY <1>6
  <2> HIDE DEF r
  <2>2. IsMap(r, Stamp) /\ \A b \in DOMAIN r : Before(r[b], s.current_shard, s.clk)
    BY <1>3, <2>1
  <2> QED
    BY <2>2 DEF r
<1> QED
  BY <1>2, <1>5, <1>6

\* ... and so are its hints.
LEMMA OldHints ==
  ASSUME NEW ex, NEW s, NEW t, ExecInv(ex, "Checkpoint", s), Typed(t)
  PROVE  IsMap(MakeCheckpoint(t, ex).uninitialized_memory, Nat)
<1> DEFINE u == ex.uninitialized_memory
           marked == ex.uninitialized_memory_checkpoint
           old == {a \in DOMAIN marked : marked[a]}
           new == DOMAIN u \ (DOMAIN marked \ old)
<1>1. IsMap(u, Nat) /\ Marks(marked, u)
  BY DEF ExecInv, Sound, Fit, Typed
<1>2. MakeCheckpoint(t, ex).uninitialized_memory
          = Restrict(u, IF ex.status = "done" THEN new ELSE old)
  BY DEF MakeCheckpoint, Typed, Fields
<1> HIDE DEF u, marked
<1>3. old \subseteq DOMAIN u /\ new \subseteq DOMAIN u
  BY <1>1 DEF Marks
<1> HIDE DEF old, new
<1>4. ASSUME NEW S, S \subseteq DOMAIN u PROVE IsMap(Restrict(u, S), Nat)
  BY <1>1, <1>4 DEF IsMap, Restrict
<1> QED
  BY <1>2, <1>3, <1>4

\* A batch may begin as s.
Begun(s) == /\ Typed(s) /\ s.pc \in 1 .. ProgramLength
            /\ s.global_clk = 0 => s.clk = 0

LEMMA RecoverSound ==
  ASSUME NEW ex, NEW s, NEW t, ExecInv(ex, "Checkpoint", s), ex.status # "run", Begun(s)
  PROVE  ExecInv(Recover(MakeCheckpoint(s, ex)), "Trace", t)
<1> DEFINE c == MakeCheckpoint(s, ex)
           n == NewExecutor(DefaultHooks, c.opts)
           e == [n EXCEPT
                    !.pc = c.pc, !.next_pc = c.next_pc, !.clk = c.clk,
                    !.global_clk = c.global_clk, !.current_shard = c.current_shard,
                    !.exited = c.exited, !.next_is_delayslot = c.next_is_delayslot,
                    !.records_clk = c.records_clk,
                    !.records_clk_index = c.records_clk_index, !.memory = c.memory,
                    !.uninitialized_memory = c.uninitialized_memory,
                    !.input_stream = c.input_stream,
                    !.input_stream_ptr = c.input_stream_ptr,
                    !.public_values_stream = c.public_values_stream,
                    !.proof_stream = c.proof_stream,
                    !.proof_stream_ptr = c.proof_stream_ptr,
                    !.verify_deferred = VerifiesAgain, !.mode = "Trace", !.emit = TRUE]
<1>1. Typed(s) /\ DOMAIN s = Fields
  BY DEF Begun, Typed
<1>2. Recover(c) = Initialize(e)
  BY DEF Recover
<1>3. Keeps(s, c, {"memory", "uninitialized_memory", "proof_stream", "records_clk"})
  BY <1>1 DEF MakeCheckpoint, Keeps, Fields
<1>4. /\ IsMap(c.memory, Stamp)
      /\ \A b \in DOMAIN c.memory : Before(c.memory[b], s.current_shard, s.clk)
  BY <1>1, OldMemory
<1>5. IsMap(c.uninitialized_memory, Nat)
  BY <1>1, OldHints
<1> HIDE DEF c
<1>6. /\ c.pc = s.pc /\ c.next_pc = s.next_pc /\ c.clk = s.clk
      /\ c.global_clk = s.global_clk /\ c.current_shard = s.current_shard
      /\ c.input_stream = s.input_stream /\ c.input_stream_ptr = s.input_stream_ptr
  BY <1>3 DEF Keeps, Fields
<1>7. /\ e.pc = c.pc /\ e.next_pc = c.next_pc /\ e.clk = c.clk
      /\ e.global_clk = c.global_clk /\ e.current_shard = c.current_shard
      /\ e.input_stream = c.input_stream /\ e.input_stream_ptr = c.input_stream_ptr
      /\ e.memory = c.memory /\ e.uninitialized_memory = c.uninitialized_memory
      /\ e.mode = "Trace" /\ e.unconstrained = FALSE
      /\ e.memory_checkpoint = Empty /\ e.uninitialized_memory_checkpoint = Empty
      /\ e.local_memory_access = Empty /\ e.record = NewExecRecord /\ e.records = <<>>
      /\ e.status = "run" /\ DOMAIN e = Fields
  <2>1. /\ n.unconstrained = FALSE /\ n.memory_checkpoint = Empty
        /\ n.uninitialized_memory_checkpoint = Empty /\ n.local_memory_access = Empty
        /\ n.record = NewExecRecord /\ n.records = <<>> /\ n.status = "run"
        /\ DOMAIN n = Fields
    BY DEF NewExecutor, Fields
  <2> HIDE DEF n
  <2>2. /\ e.unconstrained = FALSE /\ e.memory_checkpoint = Empty
        /\ e.uninitialized_memory_checkpoint = Empty /\ e.local_memory_access = Empty
        /\ e.record = NewExecRecord /\ e.records = <<>> /\ e.status = "run"
        /\ DOMAIN e = Fields
    BY <2>1 DEF Fields
  <2>3. /\ e.pc = c.pc /\ e.next_pc = c.next_pc /\ e.clk = c.clk
        /\ e.global_clk = c.global_clk /\ e.current_shard = c.current_shard
    BY <2>1 DEF Fields
  <2>4. /\ e.input_stream = c.input_stream /\ e.input_stream_ptr = c.input_stream_ptr
        /\ e.memory = c.memory /\ e.uninitialized_memory = c.uninitialized_memory
        /\ e.mode = "Trace"
    BY <2>1 DEF Fields
  <2> QED
    BY <2>2, <2>3, <2>4
<1> HIDE DEF e
<1>8. DOMAIN Empty = {} /\ \A S : IsMap(Empty, S)
  BY DEF Empty, IsMap
<1>9. NewExecRecord \in TraceRecord
  BY DEF NewExecRecord, TraceRecord
<1>10. <<>> \in Seq(TraceRecord)
  OBVIOUS
<1>11. Typed(e)
  <2>1. Marks(e.uninitialized_memory_checkpoint, e.uninitialized_memory)
    BY <1>7, <1>8 DEF Marks
  <2>2. /\ IsMap(e.memory, Stamp) /\ IsMap(e.uninitialized_memory, Nat)
        /\ IsMap(e.memory_checkpoint, OptionalStamp)
        /\ IsMap(e.local_memory_access, ForwardEvent)
    BY <1>4, <1>5, <1>7, <1>8
  <2>3. /\ e.input_stream \in Seq(Nat)
        /\ e.input_stream_ptr \in 0 .. Len(e.input_stream)
        /\ e.records \in Seq(TraceRecord)
    BY <1>1, <1>6, <1>7, <1>10 DEF Typed
  <2>4. /\ e.pc \in Nat /\ e.next_pc \in Nat /\ e.clk \in Nat /\ e.global_clk \in Nat
        /\ e.current_shard \in Nat \ {0}
    BY <1>1, <1>6, <1>7 DEF Typed
  <2>5. e.unconstrained \in BOOLEAN /\ (e.unconstrained => ForkTyped(e.fork))
    BY <1>7
  <2>6. e.record \in TraceRecord /\ DOMAIN e = Fields
    BY <1>7, <1>9
  <2> QED
    BY <2>1, <2>2, <2>3, <2>4, <2>5, <2>6 DEF Typed
<1>12. Bounded(e, {}, 0)
  <2>1. DOMAIN e.local_memory_access = {}
    BY <1>7, <1>8
  <2>2. \A b \in DOMAIN e.memory : Before(e.memory[b], e.current_shard, e.clk)
    BY <1>4, <1>6, <1>7
  <2> QED
    BY <2>1, <2>2 DEF Bounded, Limit
<1>13. OuterMode(e) = "Trace"
  BY <1>7 DEF OuterMode
<1>14. Sound(e, "Trace", t)
  BY <1>7, <1>11, <1>12, <1>13 DEF Sound, Fit
<1>15. ExecInv(e, "Trace", t)
  BY <1>6, <1>7, <1>14 DEF ExecInv, Begun
<1>16. ExecInv(Initialize(e), "Trace", t)
  BY <1>7, <1>15, InitializeSound
<1> QED
  BY <1>2, <1>16 DEF c

-----------------------------------------------------------------------------
(* Inside a block. *)

LEMMA AccessKeeps ==
  ASSUME NEW ex, NEW a, NEW v, NEW pos, DOMAIN ex = Fields
  PROVE  Keeps(ex, Access(ex, a, v, pos), TouchedFields \cup {"local_memory_access"})
<1> DEFINE t == Touch(ex, a, v, ex.clk + pos, FALSE)
           l == LocalEvent(t.local_memory_access, a, RecordOf(ex, a), t.memory[a])
           e == [t EXCEPT !.local_memory_access = l]
<1>1. Access(ex, a, v, pos) \in {t, e}
  BY DEF Access, WithLocalEvent
<1>2. Keeps(ex, t, TouchedFields)
  <2> DEFINE ts == ex.clk + pos
  <2> HIDE DEF ts
  <2>1. Touches(ex, Touch(ex, a, v, ts, FALSE), a, v, ts)
    BY TouchFacts
  <2> QED
    BY <2>1 DEF Touches, ts
<1> HIDE DEF t, l
<1>3. Keeps(t, e, {"local_memory_access"})
  BY <1>2 DEF Keeps, Fields
<1> HIDE DEF e
<1> QED
  BY <1>1, <1>2, <1>3 DEF Keeps

LEMMA CallerKeeps ==
  ASSUME NEW ex, DOMAIN ex = Fields
  PROVE  Keeps(ex, Caller(ex), TouchedFields \cup {"local_memory_access"})
<1> DEFINE e == Peek(ex, V0)
           v == RecordOf(e, R).value
<1>1. Keeps(ex, e, {"memory_checkpoint"})
  BY PeekFacts
<1>2. Caller(ex) = Access(e, R, v, PosB)
  BY DEF Caller, Read
<1> HIDE DEF e, v
<1>3. Keeps(e, Caller(ex), TouchedFields \cup {"local_memory_access"})
  BY <1>1, <1>2, AccessKeeps DEF Keeps
<1> QED
  BY <1>1, <1>3 DEF Keeps, TouchedFields

\* Unconstrained code may write to the host's streams; that is all.
LEMMA WriteStable ==
  ASSUME NEW ex, NEW a, NEW fd, DOMAIN ex = Fields, ex.unconstrained
  PROVE  /\ Stable(ex, WRITE_HINT(ex, a).ex)
         /\ Stable(ex, WRITE_PUBLIC_VALUES(ex, a).ex)
         /\ Stable(ex, WRITE_HOOK(ex, a, fd).ex)
<1> DEFINE e == Peek(ex, a)
           n == ex.input_stream_ptr
           answered == SubSeq(e.input_stream, 1, n) \o <<3>>
                       \o SubSeq(e.input_stream, n + 1, Len(e.input_stream))
           said == Append(e.input_stream, PeekValue(ex, a))
           told == Append(e.public_values_stream, PeekValue(ex, a))
           d1 == [e EXCEPT !.input_stream = said]
           d2 == [e EXCEPT !.public_values_stream = told]
           d3 == [e EXCEPT !.input_stream = answered]
<1>1. /\ WRITE_HINT(ex, a).ex = d1 /\ WRITE_PUBLIC_VALUES(ex, a).ex = d2
      /\ WRITE_HOOK(ex, a, fd).ex \in {e, d3}
  BY DEF WRITE_HINT, WRITE_PUBLIC_VALUES, WRITE_HOOK, Ret
<1>2. Stable(ex, e)
  BY PeekStable
<1>3. DOMAIN e = Fields /\ e.unconstrained
  BY <1>2, PeekFacts DEF Keeps, Stable
<1> HIDE DEF e, n, answered, said, told
<1>4. /\ Keeps(e, d1, {"input_stream"}) /\ Keeps(e, d2, {"public_values_stream"})
      /\ Keeps(e, d3, {"input_stream"})
  BY <1>3 DEF Keeps, Fields
<1> HIDE DEF d1, d2, d3
<1> DEFINE F == {"clk", "pc", "next_pc", "record", "global_clk"} \cup VolatileFields
<1>5. Keeps(e, d1, F) /\ Keeps(e, d2, F) /\ Keeps(e, d3, F)
  BY <1>4 DEF Keeps, VolatileFields
<1>6. Stable(e, d1) /\ Stable(e, d2) /\ Stable(e, d3)
  BY <1>3, <1>5, MoveStable
<1> QED
  BY <1>1, <1>2, <1>6, StableTrans

\* Only ENTER_UNCONSTRAINED enters a block.
LEMMA PlainOutside ==
  ASSUME NEW ex, NEW i, DOMAIN ex = Fields, ~ex.unconstrained, Instruction(i),
         i.op \notin {"ADDI", "LW", "SW", "SB", "BLEZ", "ENTER"}
  PROVE  ~Syscall(ex, i).ex.unconstrained
<1> DEFINE y == Syscall(ex, i)
           a == i.addr
<1>1. Keeps(ex, Peek(ex, a), {"memory_checkpoint"})
  BY PeekFacts
<1>2. ~Peek(ex, a).unconstrained /\ DOMAIN Peek(ex, a) = Fields
  BY <1>1 DEF Keeps, Fields
<1>3. CASE i.op \in {"HALT", "COMMIT", "COMMIT_DEFERRED", "HINT_LEN", "EXIT"}
  <2> DEFINE w == ex.memory[R].value
  <2>1. y \in {HALT(ex), COMMIT(ex, w), COMMIT_DEFERRED_PROOFS(ex, w), HINT_LEN(ex),
               EXIT_UNCONSTRAINED(ex)}
    BY <1>3 DEF Syscall
  <2> HIDE DEF w, y
  <2>2. ~HALT(ex).ex.unconstrained
    BY DEF HALT, Ret, Fields
  <2>3. ~COMMIT(ex, w).ex.unconstrained
    BY DEF COMMIT, Ret, Fields
  <2>4. ~COMMIT_DEFERRED_PROOFS(ex, w).ex.unconstrained
    BY DEF COMMIT_DEFERRED_PROOFS, Ret, Fields
  <2>5. ~HINT_LEN(ex).ex.unconstrained
    BY DEF HINT_LEN, Ret, Err, Fields
  <2>6. ~EXIT_UNCONSTRAINED(ex).ex.unconstrained
    BY DEF EXIT_UNCONSTRAINED, Ret, Fields
  <2> QED
    BY <2>1, <2>2, <2>3, <2>4, <2>5, <2>6 DEF y
<1>4. CASE i.op \in {"VERIFY", "HINT_READ", "PRECOMPILE"}
  <2>1. y \in {VERIFY_ZKM_PROOF(ex, a), HINT_READ(ex, a), PRECOMPILE(ex, a)}
    BY <1>4 DEF Syscall
  <2> HIDE DEF y, a
  <2>2. ~VERIFY_ZKM_PROOF(ex, a).ex.unconstrained
    <3> DEFINE p == Peek(ex, a)
    <3> HIDE DEF p
    <3> QED
      BY <1>2 DEF VERIFY_ZKM_PROOF, Ret, Err, Fields, p
  <2>3. ~HINT_READ(ex, a).ex.unconstrained
    BY DEF HINT_READ, Ret, Err, Fields
  <2>4. ~PRECOMPILE(ex, a).ex.unconstrained
    <3> DEFINE v == (RecordOf(ex, a).value + 1) % 4
               t == Touch(ex, a, v, ex.clk, TRUE)
    <3>1. Touches(ex, t, a, v, ex.clk)
      <4> HIDE DEF v
      <4> QED
        BY TouchFacts
    <3>2. PRECOMPILE(ex, a).ex = WithSyscallEvent(ex, t, a)
      BY DEF PRECOMPILE, SyscallWrite, Ret
    <3> HIDE DEF v, t
    <3>3. ~t.unconstrained /\ DOMAIN t = Fields
      BY <3>1 DEF Touches, Keeps, Fields, TouchedFields
    <3>4. ~WithSyscallEvent(ex, t, a).unconstrained
      BY <3>3 DEF WithSyscallEvent, Fields
    <3> QED
      BY <3>2, <3>4
  <2> QED
    BY <2>1, <2>2, <2>3, <2>4 DEF y
<1>5. CASE i.op \in {"WRITE_HINT", "WRITE_PV", "WRITE_HOOK"}
  <2>1. y \in {WRITE_HINT(ex, a), WRITE_PUBLIC_VALUES(ex, a), WRITE_HOOK(ex, a, i.fd)}
    BY <1>5 DEF Syscall
  <2> HIDE DEF y, a
  <2> DEFINE p == Peek(ex, a)
  <2>2. ~p.unconstrained /\ DOMAIN p = Fields
    BY <1>2
  <2>3. ~WRITE_HINT(ex, a).ex.unconstrained
    BY <1>2 DEF WRITE_HINT, Ret, Fields
  <2>4. ~WRITE_PUBLIC_VALUES(ex, a).ex.unconstrained
    BY <1>2 DEF WRITE_PUBLIC_VALUES, Ret, Fields
  <2>5. ~WRITE_HOOK(ex, a, i.fd).ex.unconstrained
    BY <1>2 DEF WRITE_HOOK, Ret, Fields
  <2> QED
    BY <2>1, <2>3, <2>4, <2>5 DEF y
<1> QED
  BY <1>3, <1>4, <1>5 DEF Instruction, OtherOps, AddressOps

\* What an operation does to the block it is in: EXIT alone ends one, ENTER alone begins one.
LEMMA OperationBlock ==
  ASSUME NEW ex, NEW m, NEW s, NEW i, Sound(ex, m, s), ex.status = "run", Instruction(i),
         ExecuteOperation(ex, i).status # "err"
  PROVE  /\ ex.unconstrained /\ i.op # "EXIT" => Stable(ex, ExecuteOperation(ex, i))
         /\ ~ex.unconstrained /\ i.op # "ENTER" => ~ExecuteOperation(ex, i).unconstrained
<1> DEFINE d == [ex EXCEPT !.next_is_delayslot = FALSE]
           e == ExecuteOperation(ex, i)
<1>1. Passes(ex, d, m, s, {}, 0)
  BY PassStart, PassSlot DEF Sound
<1>2. /\ d.status = "run" /\ Fit(d, m, s, {}, 0) /\ d.unconstrained = ex.unconstrained
      /\ DOMAIN d = Fields
  BY <1>1 DEF Passes, Along, Fit, Typed
<1>3. ex.unconstrained => Stable(ex, d) /\ d.unconstrained
  BY <1>1, <1>2 DEF Passes
<1>4. Sound(d, m, s)
  <2> SUFFICES ASSUME d.unconstrained PROVE Bounded(Back(d), {R}, 3)
    BY <1>2 DEF Sound
  <2> HIDE DEF d
  <2>1. Stable(ex, d) /\ Bounded(Back(ex), {R}, 3)
    BY <1>2, <1>3 DEF Sound
  <2> QED
    BY <2>1, StableBounded
<1>5. CASE i.op \in {"ADDI", "LW", "SW", "SB", "BLEZ"}
  <2>1. Carries(d, e, m, s)
    <3>1. CASE i.op = "ADDI"
      <4>1. e = ADDI(d)
        BY <3>1 DEF ExecuteOperation
      <4> QED
        BY <1>2, <4>1, AddStep
    <3>2. CASE i.op \in {"LW", "SW", "SB"}
      <4>1. i.addr \in Addrs
        BY <3>2 DEF Instruction, OtherOps
      <4>2. e \in {LW(d, i.addr), SW(d, i.addr), SB(d, i.addr)}
        BY <3>2 DEF ExecuteOperation
      <4> HIDE DEF d, e
      <4> QED
        BY <1>2, <4>1, <4>2, MemorySteps
    <3>3. CASE i.op = "BLEZ"
      <4>1. i.target \in Nat
        BY <3>3 DEF Instruction, OtherOps, AddressOps
      <4>2. e = BLEZ(d, i.target)
        BY <3>3 DEF ExecuteOperation
      <4> HIDE DEF d, e
      <4> QED
        BY <1>2, <4>1, <4>2, BranchStep
    <3> QED
      BY <1>5, <3>1, <3>2, <3>3
  <2> HIDE DEF d, e
  <2>2. ex.unconstrained => Stable(ex, e)
    BY <1>3, <2>1, StableTrans DEF Carries
  <2>3. e.unconstrained = ex.unconstrained
    BY <1>2, <2>1 DEF Carries
  <2> QED
    BY <2>2, <2>3 DEF e
<1>6. CASE i.op \notin {"ADDI", "LW", "SW", "SB", "BLEZ"}
  <2> DEFINE c == Caller(d)
             y == Syscall(c, i)
  <2>1. e = SYSCALL(d, i)
    BY <1>6 DEF ExecuteOperation
  <2>2. e.status # "err"
    OBVIOUS
  <2> HIDE DEF d, e
  <2>3. Calls(d, i, m, s)
    BY <1>2, <1>4, <1>6, <2>1, <2>2, SyscallGood
  <2>4. /\ e = EndSyscall(y) /\ Passes(d, c, m, s, {R}, 3) /\ GoodCall(y, m, s)
        /\ ~d.unconstrained \/ i.op \in AllowedUnconstrained
    BY <2>1, <2>3 DEF Calls
  <2> HIDE DEF c, y
  <2>5. Carries(y.ex, e, m, s)
    BY <2>2, <2>4, EndCarries
  <2>6. /\ c.unconstrained = d.unconstrained /\ DOMAIN c = Fields
        /\ d.unconstrained => Stable(d, c)
    BY <2>4 DEF Passes, Along, Fit, Typed
  <2>7. ASSUME ex.unconstrained, i.op # "EXIT" PROVE Stable(ex, e)
    <3>1. c.unconstrained /\ Stable(d, c) /\ Stable(ex, d)
      BY <1>3, <2>6, <2>7
    <3>2. i.op \in {"WRITE_HINT", "WRITE_PV", "WRITE_HOOK"}
      BY <1>2, <2>4, <2>7 DEF AllowedUnconstrained
    <3>3. y \in {WRITE_HINT(c, i.addr), WRITE_PUBLIC_VALUES(c, i.addr),
                 WRITE_HOOK(c, i.addr, i.fd)}
      BY <3>2 DEF Syscall, y
    <3>4. Stable(c, y.ex)
      BY <2>6, <3>1, <3>3, WriteStable
    <3>5. Stable(y.ex, e)
      BY <2>5, <3>4 DEF Carries, Stable
    <3> QED
      BY <3>1, <3>4, <3>5, StableTrans
  <2>8. ASSUME ~ex.unconstrained, i.op # "ENTER" PROVE ~e.unconstrained
    <3>1. ~y.ex.unconstrained
      BY <1>2, <1>6, <2>6, <2>8, PlainOutside DEF y
    <3> QED
      BY <2>5, <3>1 DEF Carries
  <2> QED
    BY <2>7, <2>8 DEF e
<1> QED
  BY <1>5, <1>6

\* A turn of the loop ends with its operation, if the program is still in a block.
LEMMA TurnBlock ==
  ASSUME NEW ex, NEW m, NEW s, NEW i, NEW limit, Sound(ex, m, s), ex.status = "run",
         Instruction(i), LoopTurn(ex, i, limit).status # "err"
  PROVE  /\ ExecuteOperation(ex, i).status = "run"
         /\ ExecuteOperation(ex, i).unconstrained =>
               Stable(ExecuteOperation(ex, i), LoopTurn(ex, i, limit))
         /\ ~ExecuteOperation(ex, i).unconstrained => ~LoopTurn(ex, i, limit).unconstrained
<1> DEFINE o == ExecuteOperation(ex, i)
           g == [o EXCEPT !.global_clk = @ + 1]
           c == EndCycle(g, limit)
           e == EndTurn(c)
<1>1. LoopTurn(ex, i, limit) = e
  BY DEF LoopTurn, ExecuteCycle
<1>2. c.status # "err"
  <2> HIDE DEF c
  <2>1. c.status = "err" => e = c
    BY DEF EndTurn
  <2> QED
    BY <1>1, <2>1
<1>3. g.status # "err"
  <2> HIDE DEF g
  <2> QED
    BY <1>2 DEF EndCycle
<1>4. o.status # "err"
  BY <1>3
<1>5. Sound(o, m, s) /\ o.status = "run"
  BY <1>4, OperationSound
<1> HIDE DEF o
<1>6. DOMAIN o = Fields
  BY <1>5 DEF Sound, Fit, Typed
<1>7. Keeps(o, g, {"global_clk"})
  BY <1>6 DEF Keeps, Fields
<1> HIDE DEF g
<1>8. /\ g.unconstrained = o.unconstrained /\ g.status = "run" /\ DOMAIN g = Fields
      /\ Keeps(o, g, {"clk", "pc", "next_pc", "record", "global_clk"} \cup VolatileFields)
  BY <1>5, <1>7 DEF Keeps, Fields
<1> DEFINE f == [g EXCEPT !.status = "done"]
<1>9. \/ c = g
      \/ c = f /\ ~g.unconstrained
  <2>1. c # Err(g)
    BY <1>2, <1>8 DEF Err, Fields
  <2> QED
    BY <2>1 DEF EndCycle
<1>10. /\ f.unconstrained = g.unconstrained /\ DOMAIN f = Fields
  BY <1>8 DEF Fields
<1> HIDE DEF f, c
<1>11. ASSUME o.unconstrained PROVE Stable(o, e)
  <2>1. c = g
    BY <1>8, <1>9, <1>11
  <2>2. e = g
    BY <1>8, <1>11, <2>1 DEF EndTurn, MayCut
  <2> QED
    BY <1>6, <1>8, <1>11, <2>2, MoveStable
<1>12. ASSUME ~o.unconstrained PROVE ~e.unconstrained
  <2>1. ~c.unconstrained /\ DOMAIN c = Fields
    BY <1>8, <1>9, <1>10, <1>12
  <2> DEFINE inc == IncShardIfNeed(c)
             n == inc.ex
             b == BumpRecord(n)
  <2>2. CASE c.status = "done"
    <3>1. e = BumpRecord(c)
      BY <2>2 DEF EndTurn
    <3> QED
      BY <2>1, <3>1 DEF BumpRecord, Fields
  <2>3. CASE c.status # "done" /\ (~MayCut(c) \/ ~inc.cut)
    <3>1. e = c
      BY <1>2, <2>3 DEF EndTurn
    <3> QED
      BY <2>1, <3>1
  <2>4. CASE c.status # "done" /\ MayCut(c) /\ inc.cut
    <3>1. e = EndShard(b)
      BY <1>2, <2>4 DEF EndTurn
    <3>2. Keeps(c, n, {"current_shard", "clk", "records_clk", "records_clk_index"})
      BY <2>1, <2>4, CutFacts
    <3> HIDE DEF n
    <3>3. ~n.unconstrained /\ DOMAIN n = Fields
      BY <2>1, <3>2 DEF Keeps, Fields
    <3>4. ~b.unconstrained /\ DOMAIN b = Fields
      BY <3>3 DEF BumpRecord, Fields
    <3> HIDE DEF b
    <3> QED
      BY <3>1, <3>4 DEF EndShard, Fields
  <2> QED
    BY <2>2, <2>3, <2>4
<1> QED
  BY <1>1, <1>5, <1>11, <1>12 DEF o

\* The executor ex that made the syscall, past its operands and outside any block.
Outside(ex) == [Caller([ex EXCEPT !.next_is_delayslot = FALSE]) EXCEPT !.fork = NoFork]

\* EXIT_UNCONSTRAINED would lead ex back to where b entered the block.
Entered(b, ex) ==
    /\ ~b.unconstrained /\ b.status = "run"
    /\ \E m, s : Sound(b, m, s)
    /\ Keeps(Outside(b), Back(ex), VolatileFields)

LEMMA StillEntered ==
  ASSUME NEW b, NEW ex, NEW e, Entered(b, ex), Stable(ex, e)
  PROVE  Entered(b, e)
BY DEF Entered, Stable, Keeps

LEMMA EnterTurn ==
  ASSUME NEW ex, NEW m, NEW s, NEW i, NEW limit, Sound(ex, m, s), ex.status = "run",
         Instruction(i), LoopTurn(ex, i, limit).status # "err", ~ex.unconstrained,
         i.op = "ENTER"
  PROVE  Entered(ex, LoopTurn(ex, i, limit))
<1> DEFINE d == [ex EXCEPT !.next_is_delayslot = FALSE]
           c == Caller(d)
           y == Syscall(c, i)
           o == ExecuteOperation(ex, i)
           e == LoopTurn(ex, i, limit)
<1>1. o.status = "run" /\ (o.unconstrained => Stable(o, e))
  BY TurnBlock
<1>2. Passes(ex, d, m, s, {}, 0)
  BY PassStart, PassSlot DEF Sound
<1>3. d.status = "run" /\ Sound(d, m, s) /\ ~d.unconstrained
  BY <1>2 DEF Passes, Along, Sound
<1>4. o = SYSCALL(d, i)
  BY DEF ExecuteOperation
<1> HIDE DEF d, o, e
<1>5. Calls(d, i, m, s)
  BY <1>1, <1>3, <1>4, SyscallGood
<1>6. o = EndSyscall(y) /\ Passes(d, c, m, s, {R}, 3) /\ GoodCall(y, m, s)
  BY <1>4, <1>5 DEF Calls
<1> HIDE DEF c
<1>7. /\ ~c.unconstrained /\ DOMAIN c = Fields /\ IsMap(c.memory, Stamp)
      /\ c.unconstrained \in BOOLEAN
  BY <1>3, <1>6 DEF Passes, Along, Fit, Typed
<1> DEFINE f == [global_clk |-> c.global_clk, clk |-> c.clk, pc |-> c.pc,
                 memory_diff |-> Empty, mode |-> c.mode, record |-> c.record]
           u == [c EXCEPT !.unconstrained = TRUE, !.fork = f, !.record = NewExecRecord,
                          !.mode = "Simple"]
           q == [c EXCEPT !.fork = NoFork]
<1>8. y.ex = u
  BY DEF Syscall, ENTER_UNCONSTRAINED, Ret
<1> HIDE DEF y
<1>9. Carries(u, o, m, s)
  BY <1>1, <1>6, <1>8, EndCarries
<1>10. /\ f.clk = c.clk /\ f.global_clk = c.global_clk
       /\ f.pc = c.pc /\ f.memory_diff = Empty /\ f.mode = c.mode /\ f.record = c.record
  OBVIOUS
<1> HIDE DEF f
<1>11. /\ Keeps(c, u, {"unconstrained", "fork", "record", "mode"})
       /\ u.unconstrained = TRUE /\ u.fork = f
  BY <1>7 DEF Keeps, Fields
<1> HIDE DEF u
<1>12. Keeps(c, q, {"fork"}) /\ q.fork = NoFork
  BY <1>7 DEF Keeps, Fields
<1> HIDE DEF q
<1>13. Restore(c.memory, Empty) = c.memory
  BY <1>7 DEF Restore, IsMap, Empty
<1> DEFINE k == Back(u)
<1>14. /\ Keeps(u, k, RestoredFields) /\ k.global_clk = c.global_clk /\ k.clk = c.clk
       /\ k.pc = c.pc /\ k.memory = c.memory /\ k.record = c.record /\ k.mode = c.mode
       /\ k.unconstrained = FALSE /\ k.fork = NoFork
  <2>1. /\ Keeps(u, k, RestoredFields) /\ k.global_clk = u.fork.global_clk
        /\ k.clk = u.fork.clk /\ k.pc = u.fork.pc
        /\ k.memory = Restore(u.memory, u.fork.memory_diff)
        /\ k.record = u.fork.record /\ k.mode = u.fork.mode
        /\ k.unconstrained = FALSE /\ k.fork = NoFork
    <3>1. DOMAIN u = Fields /\ u.unconstrained
      BY <1>11 DEF Keeps
    <3> QED
      BY <3>1, BackFacts
  <2>2. u.memory = c.memory
    BY <1>11 DEF Keeps, Fields
  <2> HIDE DEF k
  <2> QED
    BY <1>10, <1>11, <1>13, <2>1, <2>2
<1> HIDE DEF k
<1>15. Keeps(q, k, VolatileFields)
  <2>1. ASSUME NEW n \in Fields \ VolatileFields PROVE k[n] = q[n]
    <3>1. CASE n \in RestoredFields
      <4>1. /\ q.global_clk = c.global_clk /\ q.clk = c.clk
            /\ q.pc = c.pc /\ q.memory = c.memory /\ q.record = c.record /\ q.mode = c.mode
            /\ q.unconstrained = FALSE
        BY <1>7, <1>12 DEF Keeps, Fields
      <4> QED
        BY <1>12, <1>14, <3>1, <4>1 DEF RestoredFields
    <3>2. CASE n \notin RestoredFields
      <4>1. k[n] = u[n]
        BY <1>14, <2>1, <3>2 DEF Keeps
      <4>2. u[n] = c[n] /\ q[n] = c[n]
        BY <1>11, <1>12, <2>1, <3>2 DEF Keeps, RestoredFields
      <4> QED
        BY <4>1, <4>2
    <3> QED
      BY <3>1, <3>2
  <2> QED
    BY <1>14, <2>1 DEF Keeps
<1>16. q = Outside(ex)
  BY DEF q, c, d, Outside
<1>17. Entered(ex, u)
  BY <1>15, <1>16 DEF Entered, k
<1>18. Stable(u, o) /\ Stable(o, e)
  BY <1>1, <1>9, <1>11 DEF Carries
<1> QED
  BY <1>17, <1>18, StillEntered DEF e

-----------------------------------------------------------------------------
(* What a block may leave changed has no effect on the turn that ends it. *)

FreeFields == {"input_stream", "public_values_stream", "memory_checkpoint",
               "uninitialized_memory_checkpoint"}

LEMMA AccessAgrees ==
  ASSUME NEW d, NEW e, NEW v, NEW pos, DOMAIN d = Fields, ~d.unconstrained,
         Keeps(d, e, FreeFields \cup {"next_pc"})
  PROVE  Keeps(Access(d, V0, v, pos), Access(e, V0, v, pos), FreeFields \cup {"next_pc"})
<1> DEFINE F == FreeFields \cup {"next_pc"}
           ts == d.clk + pos
           t == Touch(d, V0, v, ts, FALSE)
           w == Touch(e, V0, v, ts, FALSE)
           l == LocalEvent(t.local_memory_access, V0, RecordOf(d, V0), t.memory[V0])
           k == LocalEvent(w.local_memory_access, V0, RecordOf(e, V0), w.memory[V0])
<1>1. /\ DOMAIN e = Fields /\ e.clk = d.clk /\ e.unconstrained = d.unconstrained
      /\ e.mode = d.mode /\ e.memory = d.memory /\ e.fork = d.fork
      /\ e.uninitialized_memory = d.uninitialized_memory /\ e.local_mem = d.local_mem
      /\ e.current_shard = d.current_shard
      /\ e.local_memory_access = d.local_memory_access
  BY DEF Keeps, Fields, FreeFields
<1>2. /\ Access(d, V0, v, pos) = IF Tracing(d) THEN [t EXCEPT !.local_memory_access = l] ELSE t
      /\ Access(e, V0, v, pos) = IF Tracing(e) THEN [w EXCEPT !.local_memory_access = k] ELSE w
  BY <1>1 DEF Access, WithLocalEvent
<1>3. Touches(d, t, V0, v, ts) /\ Touches(e, w, V0, v, ts)
  <2> HIDE DEF ts
  <2> QED
    BY <1>1, TouchFacts
<1>4. /\ SaveDiff(d, V0).fork = d.fork /\ SaveDiff(e, V0).fork = e.fork
  BY <1>1 DEF SaveDiff
<1>5. V0 \notin Addrs
  BY Places
<1> HIDE DEF t, w, ts
<1>6. /\ Keeps(d, t, TouchedFields) /\ Keeps(e, w, TouchedFields)
      /\ w.memory = t.memory /\ w.fork = t.fork /\ w.local_mem = t.local_mem
  BY <1>1, <1>3, <1>4, <1>5 DEF Touches
<1>7. Keeps(t, w, F)
  <2>1. ASSUME NEW f \in Fields \ F PROVE w[f] = t[f]
    <3>1. CASE f \notin TouchedFields
      <4>1. t[f] = d[f] /\ w[f] = e[f] /\ e[f] = d[f]
        BY <1>6, <2>1, <3>1 DEF Keeps
      <4> QED
        BY <4>1
    <3>2. CASE f \in TouchedFields
      BY <1>6, <2>1, <3>2 DEF TouchedFields, FreeFields
    <3> QED
      BY <3>1, <3>2
  <2> QED
    BY <1>6, <2>1 DEF Keeps
<1>8. t.local_memory_access = w.local_memory_access /\ DOMAIN t = Fields /\ DOMAIN w = Fields
  BY <1>6, <1>7 DEF Keeps, Fields, FreeFields
<1>9. l = k
  BY <1>1, <1>6, <1>8 DEF RecordOf, InitialValue
<1>10. Tracing(d) <=> Tracing(e)
  BY <1>1 DEF Tracing
<1> HIDE DEF l, k
<1> DEFINE t1 == [t EXCEPT !.local_memory_access = l]
           w1 == [w EXCEPT !.local_memory_access = k]
<1>11. Keeps(t1, w1, F)
  <2>1. /\ Keeps(t, t1, {"local_memory_access"}) /\ Keeps(w, w1, {"local_memory_access"})
        /\ t1.local_memory_access = l /\ w1.local_memory_access = k
    BY <1>8 DEF Keeps, Fields
  <2> HIDE DEF t1, w1
  <2> QED
    BY <1>7, <1>9, <2>1 DEF Keeps
<1> QED
  BY <1>2, <1>7, <1>10, <1>11

LEMMA RetireAgrees ==
  ASSUME NEW d, NEW e, NEW pc, NEW next, NEW nextNext, DOMAIN d = Fields,
         Keeps(d, e, FreeFields \cup {"next_pc"})
  PROVE  Keeps(Retire(d, pc, next, nextNext), Retire(e, pc, next, nextNext), FreeFields)
<1> DEFINE t == Retire(d, pc, next, nextNext)
           w == Retire(e, pc, next, nextNext)
<1>1. DOMAIN e = Fields /\ e.clk = d.clk /\ e.mode = d.mode /\ e.record = d.record
  BY DEF Keeps, Fields, FreeFields
<1>2. Retired(d, t, pc, next, nextNext) /\ Retired(e, w, pc, next, nextNext)
  BY <1>1, RetireFacts
<1> HIDE DEF t, w
<1>3. /\ Keeps(d, t, {"clk", "pc", "next_pc", "record"})
      /\ Keeps(e, w, {"clk", "pc", "next_pc", "record"})
      /\ w.clk = t.clk /\ w.pc = t.pc /\ w.next_pc = t.next_pc /\ w.record = t.record
  BY <1>1, <1>2 DEF Retired
<1>4. ASSUME NEW f \in Fields \ FreeFields PROVE w[f] = t[f]
  <2>1. CASE f \notin {"clk", "pc", "next_pc", "record"}
    <3>1. t[f] = d[f] /\ w[f] = e[f] /\ e[f] = d[f]
      BY <1>3, <1>4, <2>1 DEF Keeps
    <3> QED
      BY <3>1
  <2>2. CASE f \in {"clk", "pc", "next_pc", "record"}
    BY <1>3, <2>2
  <2> QED
    BY <2>1, <2>2
<1> QED
  BY <1>3, <1>4 DEF Keeps, t, w

LEMMA SetAgrees ==
  ASSUME NEW d, NEW e, NEW f, NEW v, DOMAIN d = Fields, Keeps(d, e, FreeFields)
  PROVE  Keeps([d EXCEPT ![f] = v], [e EXCEPT ![f] = v], FreeFields)
BY DEF Keeps

LEMMA CycleAgrees ==
  ASSUME NEW d, NEW e, NEW limit, DOMAIN d = Fields, Keeps(d, e, FreeFields)
  PROVE  /\ Keeps(EndCycle(d, limit), EndCycle(e, limit), FreeFields)
         /\ DOMAIN EndCycle(d, limit) = Fields
<1>1. /\ e.pc = d.pc /\ e.exited = d.exited /\ e.status = d.status
      /\ e.global_clk = d.global_clk /\ e.unconstrained = d.unconstrained
  BY DEF Keeps, Fields, FreeFields
<1>2. /\ Keeps(Err(d), Err(e), FreeFields) /\ DOMAIN Err(d) = Fields
      /\ Keeps([d EXCEPT !.status = "done"], [e EXCEPT !.status = "done"], FreeFields)
      /\ DOMAIN [d EXCEPT !.status = "done"] = Fields
  BY SetAgrees DEF Err
<1>3. \/ EndCycle(d, limit) = d /\ EndCycle(e, limit) = e
      \/ EndCycle(d, limit) = Err(d) /\ EndCycle(e, limit) = Err(e)
      \/ /\ EndCycle(d, limit) = [d EXCEPT !.status = "done"]
         /\ EndCycle(e, limit) = [e EXCEPT !.status = "done"]
  <2> DEFINE p == Err(d)
             q == Err(e)
             x == [d EXCEPT !.status = "done"]
             z == [e EXCEPT !.status = "done"]
             done == d.pc = 0 \/ d.exited \/ d.pc > ProgramLength
             over == limit /\ d.global_clk >= MaxCycles
  <2>1. EndCycle(d, limit) = IF d.status = "err" THEN d
                             ELSE IF over \/ (done /\ d.unconstrained) THEN p
                             ELSE IF done THEN x ELSE d
    BY DEF EndCycle
  <2>2. EndCycle(e, limit) = IF d.status = "err" THEN e
                             ELSE IF over \/ (done /\ d.unconstrained) THEN q
                             ELSE IF done THEN z ELSE e
    BY <1>1 DEF EndCycle
  <2> HIDE DEF p, q, x, z, done, over
  <2>3. \/ EndCycle(d, limit) = d /\ EndCycle(e, limit) = e
        \/ EndCycle(d, limit) = p /\ EndCycle(e, limit) = q
        \/ EndCycle(d, limit) = x /\ EndCycle(e, limit) = z
    BY <2>1, <2>2
  <2> QED
    BY <2>3 DEF p, q, x, z
<1> QED
  BY <1>2, <1>3

LEMMA BumpAgrees ==
  ASSUME NEW d, NEW e, DOMAIN d = Fields, Keeps(d, e, FreeFields)
  PROVE  /\ Keeps(BumpRecord(d), BumpRecord(e), FreeFields)
         /\ DOMAIN BumpRecord(d) = Fields
<1> DEFINE local == {d.local_memory_access[a] : a \in DOMAIN d.local_memory_access}
           closed == IF d.mode = "Trace" THEN [d.record EXCEPT !.local = @ \cup local]
                     ELSE d.record
           l == IF d.mode = "Trace" THEN Empty ELSE d.local_memory_access
           r == Append(d.records, closed)
<1>1. /\ e.mode = d.mode /\ e.record = d.record /\ e.records = d.records
      /\ e.local_memory_access = d.local_memory_access /\ DOMAIN e = Fields
  BY DEF Keeps, Fields, FreeFields
<1>2. /\ BumpRecord(d) = [d EXCEPT !.local_mem = 0, !.local_memory_access = l,
                                   !.record = NewExecRecord, !.records = r]
      /\ BumpRecord(e) = [e EXCEPT !.local_mem = 0, !.local_memory_access = l,
                                   !.record = NewExecRecord, !.records = r]
  BY <1>1 DEF BumpRecord
<1> HIDE DEF l, r
<1> QED
  BY <1>1, <1>2 DEF Keeps

LEMMA IncAgrees ==
  ASSUME NEW d, NEW e, DOMAIN d = Fields, Keeps(d, e, FreeFields)
  PROVE  /\ IncShardIfNeed(e).cut <=> IncShardIfNeed(d).cut
         /\ Keeps(IncShardIfNeed(d).ex, IncShardIfNeed(e).ex, FreeFields)
         /\ DOMAIN IncShardIfNeed(d).ex = Fields
<1>1. /\ e.mode = d.mode /\ e.records_clk = d.records_clk
      /\ e.records_clk_index = d.records_clk_index /\ e.clk = d.clk
      /\ e.opts = d.opts /\ e.global_clk = d.global_clk /\ e.local_mem = d.local_mem
      /\ e.current_shard = d.current_shard /\ DOMAIN e = Fields
  BY DEF Keeps, Fields, FreeFields
<1> DEFINE next == d.records_clk_index + 1
           replayCut == next <= Len(d.records_clk) /\ d.clk >= d.records_clk[next]
           full == ShardIsFull(d)
           clks == Append(d.records_clk, d.clk)
           n == NextShard(d)
           k == NextShard(e)
<1>2. ShardIsFull(e) <=> full
  BY <1>1 DEF ShardIsFull
<1>3. Keeps(n, k, FreeFields) /\ DOMAIN n = Fields /\ DOMAIN k = Fields
      /\ n.records_clk = d.records_clk /\ k.records_clk = d.records_clk
  <2> DEFINE sh == d.current_shard + 1
  <2>1. n = [d EXCEPT !.current_shard = sh, !.clk = 0]
        /\ k = [e EXCEPT !.current_shard = sh, !.clk = 0]
    BY <1>1 DEF NextShard
  <2> HIDE DEF sh, n, k
  <2>2. Keeps(n, k, FreeFields) /\ DOMAIN n = Fields /\ DOMAIN k = Fields
    BY <1>1, <2>1 DEF Keeps
  <2>3. n.records_clk = d.records_clk /\ k.records_clk = e.records_clk
    BY <1>1, <2>1 DEF Fields
  <2> QED
    BY <1>1, <2>2, <2>3
<1> DEFINE n1 == [n EXCEPT !.records_clk_index = next]
           k1 == [k EXCEPT !.records_clk_index = next]
           n2 == [n EXCEPT !.records_clk = clks]
           k2 == [k EXCEPT !.records_clk = clks]
           replay == d.mode = "Trace" /\ d.records_clk # <<>>
<1>4. /\ Keeps(n1, k1, FreeFields) /\ DOMAIN n1 = Fields
      /\ Keeps(n2, k2, FreeFields) /\ DOMAIN n2 = Fields
  <2> HIDE DEF n, k, next, clks
  <2> QED
    BY <1>3, SetAgrees
<1>5. /\ IncShardIfNeed(d).cut <=> (IF replay THEN replayCut ELSE full)
      /\ IncShardIfNeed(d).ex =
            IF replay THEN IF replayCut THEN n1 ELSE d
            ELSE IF full THEN IF d.mode = "Checkpoint" THEN n2 ELSE n ELSE d
  <2> HIDE DEF n
  <2> QED
    BY <1>3 DEF IncShardIfNeed, n
<1>6. /\ IncShardIfNeed(e).cut <=> (IF replay THEN replayCut ELSE full)
      /\ IncShardIfNeed(e).ex =
            IF replay THEN IF replayCut THEN k1 ELSE e
            ELSE IF full THEN IF d.mode = "Checkpoint" THEN k2 ELSE k ELSE e
  <2> HIDE DEF k
  <2> QED
    BY <1>1, <1>2, <1>3 DEF IncShardIfNeed, k
<1> HIDE DEF n, k, n1, k1, n2, k2, replay, replayCut, full
<1> QED
  BY <1>3, <1>4, <1>5, <1>6

LEMMA TurnAgrees ==
  ASSUME NEW d, NEW e, DOMAIN d = Fields, Keeps(d, e, FreeFields)
  PROVE  Keeps(EndTurn(d), EndTurn(e), FreeFields)
<1> DEFINE n == IncShardIfNeed(d).ex
           k == IncShardIfNeed(e).ex
           b == BumpRecord(n)
           c == BumpRecord(k)
           may == d.status = "err" \/ ~MayCut(d) \/ ~IncShardIfNeed(d).cut
<1>1. /\ e.status = d.status /\ e.unconstrained = d.unconstrained
      /\ e.next_is_delayslot = d.next_is_delayslot
  BY DEF Keeps, Fields, FreeFields
<1>2. /\ IncShardIfNeed(e).cut <=> IncShardIfNeed(d).cut
      /\ Keeps(n, k, FreeFields) /\ DOMAIN n = Fields
  BY IncAgrees
<1>3. /\ EndTurn(d) = IF d.status = "done" THEN BumpRecord(d)
                      ELSE IF may THEN d ELSE EndShard(b)
      /\ EndTurn(e) = IF d.status = "done" THEN BumpRecord(e)
                      ELSE IF may THEN e ELSE EndShard(c)
  BY <1>1, <1>2 DEF EndTurn, MayCut
<1> HIDE DEF n, k, may
<1>4. Keeps(b, c, FreeFields) /\ DOMAIN b = Fields
  BY <1>2, BumpAgrees
<1>5. Keeps(BumpRecord(d), BumpRecord(e), FreeFields)
  BY BumpAgrees
<1> HIDE DEF b, c
<1>6. Keeps(EndShard(b), EndShard(c), FreeFields)
  <2> DEFINE x == [b EXCEPT !.status = "batch"]
             z == [c EXCEPT !.status = "batch"]
  <2>1. b.records = c.records /\ b.opts = c.opts
    BY <1>4 DEF Keeps, Fields, FreeFields
  <2>2. Keeps(x, z, FreeFields)
    BY <1>4, SetAgrees
  <2> DEFINE full == Len(b.records) >= b.opts.shard_batch_size
  <2>3. EndShard(b) = (IF full THEN x ELSE b) /\ EndShard(c) = (IF full THEN z ELSE c)
    BY <2>1 DEF EndShard
  <2> HIDE DEF x, z, full
  <2> QED
    BY <1>4, <2>2, <2>3
<1> QED
  BY <1>3, <1>5, <1>6

LEMMA VisibleAgrees ==
  ASSUME NEW d, NEW e, DOMAIN d = Fields, Keeps(d, e, FreeFields)
  PROVE  Visible(d) = Visible(e)
<1>1. /\ e.pc = d.pc /\ e.next_pc = d.next_pc /\ e.clk = d.clk
      /\ e.global_clk = d.global_clk /\ e.current_shard = d.current_shard
      /\ e.memory = d.memory /\ e.uninitialized_memory = d.uninitialized_memory
      /\ e.input_stream_ptr = d.input_stream_ptr
      /\ e.mode = d.mode /\ e.record = d.record /\ e.records = d.records
      /\ e.local_memory_access = d.local_memory_access
  BY DEF Keeps, Fields, FreeFields
<1> QED
  BY <1>1 DEF Visible

LEMMA EndAgrees ==
  ASSUME NEW y, NEW z, DOMAIN y.ex = Fields, ~y.ex.unconstrained, y.ex.status # "err",
         Keeps(y.ex, z.ex, FreeFields \cup {"next_pc"}), z.ret = y.ret, z.next = y.next,
         z.cycles = y.cycles
  PROVE  /\ Keeps(EndSyscall(y), EndSyscall(z), FreeFields)
         /\ DOMAIN EndSyscall(y) = Fields
<1> DEFINE F == FreeFields \cup {"next_pc"}
           d == y.ex
           e == z.ex
           v0 == IF y.ret = None THEN SyscallId ELSE y.ret
           t == Access(d, V0, v0, PosA)
           w == Access(e, V0, v0, PosA)
           t1 == [t EXCEPT !.clk = @ + y.cycles]
           w1 == [w EXCEPT !.clk = @ + y.cycles]
<1>1. e.status = d.status /\ e.pc = d.pc /\ DOMAIN e = Fields
  BY DEF Keeps, Fields, FreeFields
<1>2. /\ EndSyscall(y) = Retire(t1, d.pc, y.next, y.next + 1)
      /\ EndSyscall(z) = Retire(w1, d.pc, y.next, y.next + 1)
  BY <1>1 DEF EndSyscall, Write
<1> HIDE DEF v0, d, e
<1>3. Keeps(t, w, F)
  BY AccessAgrees DEF d, e
<1>4. DOMAIN t = Fields
  BY AccessKeeps DEF d, Keeps
<1> HIDE DEF t, w
<1>5. t.clk = w.clk /\ DOMAIN w = Fields
  BY <1>3 DEF Keeps, Fields, FreeFields
<1> DEFINE n == t.clk + y.cycles
<1>6. t1 = [t EXCEPT !.clk = n] /\ w1 = [w EXCEPT !.clk = n]
  BY <1>5
<1> HIDE DEF n, t1, w1
<1>7. Keeps(t1, w1, F) /\ DOMAIN t1 = Fields
  BY <1>3, <1>4, <1>5, <1>6 DEF Keeps
<1>8. Keeps(EndSyscall(y), EndSyscall(z), FreeFields)
  BY <1>2, <1>7, RetireAgrees
<1>9. Retired(t1, EndSyscall(y), d.pc, y.next, y.next + 1)
  BY <1>2, <1>7, RetireFacts
<1> QED
  BY <1>8, <1>9 DEF Retired, Keeps

\* The rest of the turn after a syscall's effect.
AfterCall(y, limit) == EndTurn(EndCycle([EndSyscall(y) EXCEPT !.global_clk = @ + 1], limit))

LEMMA AfterAgrees ==
  ASSUME NEW y, NEW z, NEW limit, DOMAIN y.ex = Fields, ~y.ex.unconstrained,
         y.ex.status # "err", Keeps(y.ex, z.ex, FreeFields \cup {"next_pc"}),
         z.ret = y.ret, z.next = y.next, z.cycles = y.cycles
  PROVE  Visible(AfterCall(y, limit)) = Visible(AfterCall(z, limit))
<1> DEFINE d == EndSyscall(y)
           e == EndSyscall(z)
           g == [d EXCEPT !.global_clk = @ + 1]
           h == [e EXCEPT !.global_clk = @ + 1]
           n == d.global_clk + 1
           p == EndCycle(g, limit)
           q == EndCycle(h, limit)
<1>1. Keeps(d, e, FreeFields) /\ DOMAIN d = Fields
  BY EndAgrees
<1>2. AfterCall(y, limit) = EndTurn(p) /\ AfterCall(z, limit) = EndTurn(q)
  BY DEF AfterCall
<1> HIDE DEF d, e
<1>3. e.global_clk = d.global_clk
  BY <1>1 DEF Keeps, Fields, FreeFields
<1>4. g = [d EXCEPT !.global_clk = n] /\ h = [e EXCEPT !.global_clk = n]
  BY <1>3
<1> HIDE DEF g, h, n
<1>5. Keeps(g, h, FreeFields) /\ DOMAIN g = Fields
  BY <1>1, <1>4, SetAgrees
<1>6. Keeps(p, q, FreeFields) /\ DOMAIN p = Fields
  BY <1>5, CycleAgrees
<1> HIDE DEF p, q
<1>7. Keeps(EndTurn(p), EndTurn(q), FreeFields)
  BY <1>6, TurnAgrees
<1>8. DOMAIN EndTurn(p) = Fields
  <2> DEFINE k == IncShardIfNeed(p).ex
             b == BumpRecord(k)
  <2>1. Keeps(p, p, FreeFields)
    BY <1>6 DEF Keeps
  <2>2. EndTurn(p) \in {BumpRecord(p), p, EndShard(b)}
    BY DEF EndTurn
  <2>3. DOMAIN BumpRecord(p) = Fields
    BY <1>6, <2>1, BumpAgrees
  <2>4. DOMAIN k = Fields
    BY <1>6, <2>1, IncAgrees
  <2> HIDE DEF k
  <2>5. DOMAIN b = Fields
    BY <2>4, BumpAgrees DEF Keeps
  <2> HIDE DEF b
  <2>6. DOMAIN EndShard(b) = Fields
    BY <2>5 DEF EndShard
  <2> QED
    BY <1>6, <2>2, <2>3, <2>6
<1> QED
  BY <1>2, <1>7, <1>8, VisibleAgrees

\* Leaving a block is like making the call that only returns 0 where it was entered.
LEMMA ExitTurn ==
  ASSUME NEW b, NEW ex, NEW m, NEW s, NEW i, NEW limit, Entered(b, ex), Sound(ex, m, s),
         ex.status = "run", ex.unconstrained, i.op = "EXIT"
  PROVE  Visible(LoopTurn(ex, i, limit)) = Visible(LoopTurn(b, [op |-> "EXIT"], limit))
<1> DEFINE j == [op |-> "EXIT"]
           d == [ex EXCEPT !.next_is_delayslot = FALSE]
           c == Caller(d)
           z == EXIT_UNCONSTRAINED(c)
           d2 == [b EXCEPT !.next_is_delayslot = FALSE]
           c2 == Caller(d2)
           y == EXIT_UNCONSTRAINED(c2)
<1>1. LoopTurn(ex, i, limit) = AfterCall(z, limit)
  <2>1. ExecuteOperation(ex, i) = SYSCALL(d, i)
    BY DEF ExecuteOperation
  <2> HIDE DEF d
  <2>2. SYSCALL(d, i) = EndSyscall(z)
    BY DEF SYSCALL, AllowedUnconstrained, Syscall, Caller
  <2> QED
    BY <2>1, <2>2 DEF LoopTurn, ExecuteCycle, AfterCall
<1>2. LoopTurn(b, j, limit) = AfterCall(y, limit)
  <2>1. ExecuteOperation(b, j) = SYSCALL(d2, j)
    BY DEF ExecuteOperation
  <2> HIDE DEF d2
  <2>2. SYSCALL(d2, j) = EndSyscall(y)
    BY DEF SYSCALL, AllowedUnconstrained, Syscall, Caller
  <2> HIDE DEF j
  <2> QED
    BY <2>1, <2>2 DEF LoopTurn, ExecuteCycle, AfterCall
<1>3. PICK m2, s2 : Sound(b, m2, s2)
  BY DEF Entered
<1>4. /\ DOMAIN b = Fields /\ ~b.unconstrained /\ b.status = "run"
      /\ Keeps(Outside(b), Back(ex), VolatileFields)
  BY <1>3 DEF Entered, Sound, Fit, Typed
<1>5. Keeps(b, d2, {"next_is_delayslot"}) /\ d2.next_is_delayslot = FALSE
  BY <1>4 DEF Keeps, Fields
<1>6. Outside(b) = [c2 EXCEPT !.fork = NoFork]
  BY DEF Outside
<1> HIDE DEF d2
<1>7. Keeps(d2, c2, TouchedFields \cup {"local_memory_access"})
  BY <1>5, CallerKeeps DEF Keeps
<1> HIDE DEF c2
<1>8. /\ c2.next_is_delayslot = FALSE /\ ~c2.unconstrained /\ c2.status = "run"
      /\ DOMAIN c2 = Fields
  BY <1>4, <1>5, <1>7 DEF Keeps, Fields, TouchedFields
<1> DEFINE q == Outside(b)
<1>9. y = [ex |-> q, ret |-> 0, next |-> q.pc + 1, cycles |-> 0]
  BY <1>6, <1>8 DEF EXIT_UNCONSTRAINED, Ret
<1>10. /\ q.next_is_delayslot = FALSE /\ ~q.unconstrained /\ q.status = "run"
       /\ DOMAIN q = Fields
  BY <1>6, <1>8 DEF Fields
<1> HIDE DEF q
<1>11. /\ y.ex = q /\ y.ret = 0 /\ y.next = q.pc + 1 /\ y.cycles = 0
  BY <1>9
<1> HIDE DEF y
<1>12. Passes(ex, d, m, s, {}, 0)
  BY PassStart, PassSlot DEF Sound
<1>13. DOMAIN ex = Fields /\ Fit(d, m, s, {}, 0)
  BY <1>12 DEF Sound, Fit, Typed, Passes
<1>14. d.next_is_delayslot = FALSE /\ DOMAIN d = Fields
  BY <1>13 DEF Fields
<1>15. Stable(ex, c) /\ DOMAIN c = Fields
  <2> DEFINE e1 == Peek(d, V0)
             v == RecordOf(e1, R).value
  <2>1. V0 \in Locations /\ R \in Locations
    BY Places
  <2> HIDE DEF d
  <2>2. Passes(ex, e1, m, s, {}, 0)
    BY <1>12, <2>1, PassPeek
  <2>3. v \in Nat
    BY <2>2, RecordOfStamp DEF Passes, Fit
  <2>4. c = Access(e1, R, v, 2)
    BY DEF Caller, Read, PosB
  <2> HIDE DEF e1, v, c
  <2>5. Passes(ex, c, m, s, {} \cup {R}, 3)
    BY <2>1, <2>2, <2>3, <2>4, PassAccess
  <2> QED
    BY <2>5 DEF Passes, Fit, Typed
<1> HIDE DEF d
<1>16. c.next_is_delayslot = FALSE
  BY <1>14, CallerKeeps DEF Keeps, Fields, TouchedFields
<1> HIDE DEF c
<1>17. c.unconstrained
  BY <1>15 DEF Stable
<1> DEFINE k == Back(c)
<1>18. /\ Keeps(c, k, RestoredFields) /\ z.ex = k /\ z.ret = 0 /\ z.next = k.pc + 1
       /\ z.cycles = 0
  BY <1>15, <1>17, BackFacts DEF Back
<1> HIDE DEF z
<1>19. Keeps(q, k, VolatileFields)
  BY <1>4, <1>15 DEF Stable, Keeps, q
<1> HIDE DEF k
<1>20. k.next_is_delayslot = FALSE
  BY <1>16, <1>18 DEF Keeps, Fields, RestoredFields
<1>21. Keeps(q, k, FreeFields \cup {"next_pc"})
  <2>1. ASSUME NEW f \in Fields \ (FreeFields \cup {"next_pc"}) PROVE k[f] = q[f]
    <3>1. CASE f = "next_is_delayslot"
      BY <1>10, <1>20, <3>1
    <3>2. CASE f # "next_is_delayslot"
      BY <1>19, <2>1, <3>2 DEF Keeps, FreeFields, VolatileFields
    <3> QED
      BY <3>1, <3>2
  <2> QED
    BY <1>19, <2>1 DEF Keeps
<1>22. k.pc = q.pc
  BY <1>21 DEF Keeps, Fields, FreeFields
<1>23. Visible(AfterCall(y, limit)) = Visible(AfterCall(z, limit))
  <2>1. y.ex.status # "err" /\ ~y.ex.unconstrained /\ DOMAIN y.ex = Fields
    BY <1>10, <1>11
  <2>2. Keeps(y.ex, z.ex, FreeFields \cup {"next_pc"})
    BY <1>11, <1>18, <1>21
  <2>3. z.ret = y.ret /\ z.next = y.next /\ z.cycles = y.cycles
    BY <1>11, <1>18, <1>22
  <2> QED
    BY <2>1, <2>2, <2>3, AfterAgrees
<1> QED
  BY <1>1, <1>2, <1>23

\* The turn from ex to e: b entered the block of ex, c that of e.
InBlocks(ex, e, b, c, limit) ==
    /\ e.unconstrained => Entered(c, e)
    /\ ex.unconstrained /\ ~e.unconstrained =>
          Visible(e) = Visible(LoopTurn(b, [op |-> "EXIT"], limit))

LEMMA BlockStep ==
  ASSUME NEW ex, NEW m, NEW s, NEW i, NEW limit, NEW b, NEW c, Sound(ex, m, s),
         ex.status = "run", Instruction(i), LoopTurn(ex, i, limit).status # "err",
         ex.unconstrained => Entered(b, ex),
         c = IF i.op = "ENTER" /\ ~ex.unconstrained THEN ex ELSE b
  PROVE  InBlocks(ex, LoopTurn(ex, i, limit), b, c, limit)
<1> DEFINE e == LoopTurn(ex, i, limit)
           o == ExecuteOperation(ex, i)
           old == Visible(LoopTurn(b, [op |-> "EXIT"], limit))
<1>1. /\ o.status = "run" /\ (o.unconstrained => Stable(o, e))
      /\ ~o.unconstrained => ~e.unconstrained
  BY TurnBlock
<1>2. /\ ex.unconstrained /\ i.op # "EXIT" => Stable(ex, o)
      /\ ~ex.unconstrained /\ i.op # "ENTER" => ~o.unconstrained
  <2>1. o.status # "err"
    BY <1>1
  <2> QED
    BY <2>1, OperationBlock
<1>3. CASE ~ex.unconstrained /\ i.op = "ENTER"
  <2>1. Entered(ex, e) /\ c = ex
    BY <1>3, EnterTurn
  <2> HIDE DEF e, old
  <2> QED
    BY <1>3, <2>1 DEF e, InBlocks
<1>4. CASE ~ex.unconstrained /\ i.op # "ENTER"
  <2> HIDE DEF e, o, old
  <2>1. ~e.unconstrained
    BY <1>1, <1>2, <1>4
  <2> QED
    BY <1>4, <2>1 DEF e, InBlocks
<1>5. CASE ex.unconstrained /\ i.op # "EXIT"
  <2> HIDE DEF e, o, old
  <2>1. Stable(ex, o) /\ o.unconstrained
    BY <1>2, <1>5 DEF Stable
  <2>2. Stable(ex, e) /\ e.unconstrained
    BY <1>1, <2>1, StableTrans DEF Stable
  <2>3. Entered(c, e)
    BY <1>5, <2>2, StillEntered
  <2> QED
    BY <2>2, <2>3 DEF e, InBlocks
<1>6. CASE ex.unconstrained /\ i.op = "EXIT"
  <2>1. Visible(e) = old
    BY <1>6, ExitTurn
  <2>2. ~o.unconstrained
    <3> DEFINE d == [ex EXCEPT !.next_is_delayslot = FALSE]
               k == Caller(d)
               y == Syscall(k, i)
    <3>1. Passes(ex, d, m, s, {}, 0)
      BY PassStart, PassSlot DEF Sound
    <3>2. /\ d.status = "run" /\ Fit(d, m, s, {}, 0) /\ d.unconstrained /\ Stable(ex, d)
      BY <1>6, <3>1 DEF Passes, Along
    <3>3. o = SYSCALL(d, i)
      BY <1>6 DEF ExecuteOperation
    <3> HIDE DEF d, o
    <3>4. Sound(d, m, s)
      BY <1>6, <3>2, StableBounded DEF Sound
    <3>5. Calls(d, i, m, s)
      BY <1>1, <1>6, <3>2, <3>3, <3>4, SyscallGood
    <3>6. o = EndSyscall(y) /\ GoodCall(y, m, s) /\ Passes(d, k, m, s, {R}, 3)
      BY <3>3, <3>5 DEF Calls
    <3>7. y = EXIT_UNCONSTRAINED(k)
      BY <1>6 DEF Syscall
    <3> HIDE DEF k, y
    <3>8. k.unconstrained /\ DOMAIN k = Fields
      BY <3>2, <3>6 DEF Passes, Along, Fit, Typed
    <3>9. ~y.ex.unconstrained
      BY <3>7, <3>8, BackFacts DEF Back
    <3>10. Carries(y.ex, o, m, s)
      BY <1>1, <3>6, EndCarries
    <3> QED
      BY <3>9, <3>10 DEF Carries
  <2> HIDE DEF e, o, old
  <2>3. ~e.unconstrained
    BY <1>1, <2>2
  <2> QED
    BY <2>1, <2>3 DEF e, old, InBlocks
<1> QED
  BY <1>3, <1>4, <1>5, <1>6

-----------------------------------------------------------------------------
(* The specification. *)

ProgramOk == /\ DOMAIN prog = 1 .. ProgramLength
             /\ \A k \in 1 .. ProgramLength : prog[k] = None \/ Instruction(prog[k])

\* A public record's local events all go forward.
ForwardShard(x) == x.local \subseteq ForwardEvent

ShardsOk == \E S : shards \in Seq(S) /\ \A x \in S : ForwardShard(x)

\* The invariant of the generator and the replay: the batch began fit to be recovered,
\* both executors are sound with their modes, and the shards so far go forward.
ReplayInv ==
    /\ ProgramOk
    /\ Begun(saved)
    /\ gen.status = "err" \/ ExecInv(gen, "Checkpoint", saved)
    /\ rep.status = "err" \/ ExecInv(rep, "Trace", saved)
    /\ phase = "replay" => gen.status \in {"batch", "done"}
    /\ ShardsOk

LEMMA InitInv == Init => ReplayInv
<1> SUFFICES ASSUME Init PROVE ReplayInv
  OBVIOUS
<1>1. PICK c \in Cases :
        /\ prog = [i \in 1 .. ProgramLength |-> None]
        /\ saved = [BeginBatch(NewExecutor(ContextHooks, c.opts)) EXCEPT
                      !.proof_stream = ProofStream]
        /\ gen = Initialize([BeginBatch(NewExecutor(ContextHooks, c.opts)) EXCEPT
                               !.proof_stream = ProofStream])
        /\ rep = NewExecutor(DefaultHooks, c.opts)
        /\ phase = "generate"
        /\ shards = <<>>
  BY DEF Init
<1> DEFINE n == NewExecutor(ContextHooks, c.opts)
           e == [BeginBatch(n) EXCEPT !.proof_stream = ProofStream]
<1>2. saved = e /\ gen = Initialize(e)
  BY <1>1
<1>3. ExecInv(n, "Trace", saved) /\ DOMAIN n = Fields
  BY NewSound, NewIsWhole
<1>4. n.status = "run" /\ n.unconstrained = FALSE /\ n.uninitialized_memory = Empty
      /\ n.uninitialized_memory_checkpoint = Empty /\ n.global_clk = 0 /\ n.clk = 0
      /\ n.pc = 1
  BY DEF NewExecutor
<1> HIDE DEF n
<1>5. /\ Keeps(n, e, {"mode", "emit", "memory_checkpoint", "records", "status",
                      "proof_stream"})
      /\ e.mode = "Checkpoint" /\ e.memory_checkpoint = Empty /\ e.records = <<>>
      /\ e.status = "run"
  BY <1>3 DEF BeginBatch, Keeps, Fields
<1> HIDE DEF e
<1>6. /\ Keeps(n, e, LooseFields \cup {"mode", "memory_checkpoint", "records", "status",
                                       "uninitialized_memory_checkpoint"})
      /\ e.uninitialized_memory = Empty /\ e.uninitialized_memory_checkpoint = Empty
      /\ e.global_clk = 0 /\ e.clk = 0 /\ e.pc = 1
  BY <1>4, <1>5 DEF Keeps, Fields, LooseFields
<1>7. Marks(e.uninitialized_memory_checkpoint, e.uninitialized_memory)
  BY <1>6 DEF Marks, Empty
<1>8. ExecInv(e, "Checkpoint", e) /\ ~e.unconstrained
  <2>1. n.status # "done" /\ ~n.unconstrained
    BY <1>4
  <2> QED
    BY <1>3, <1>5, <1>6, <1>7, <2>1, BatchSound
<1>9. Typed(e) /\ e.current_shard \in Nat \ {0}
  BY <1>8 DEF ExecInv, Sound, Fit, Typed
<1>10. ExecInv(gen, "Checkpoint", saved)
  BY <1>2, <1>8, <1>9, InitializeSound
<1>11. Begun(saved)
  BY <1>2, <1>6, <1>9, ExecutorAssumption DEF Begun
<1>12. ExecInv(rep, "Trace", saved)
  BY <1>1, NewSound
<1>13. ProgramOk
  BY <1>1 DEF ProgramOk
<1>14. ShardsOk
  <2>1. shards \in Seq({}) /\ \A x \in {} : ForwardShard(x)
    BY <1>1
  <2> QED
    BY <2>1 DEF ShardsOk
<1> QED
  BY <1>1, <1>10, <1>11, <1>12, <1>13, <1>14 DEF ReplayInv

\* A replay does not depend on how its batch began.
LEMMA TraceOfAny ==
  ASSUME NEW ex, NEW s, NEW t, ExecInv(ex, "Trace", s)
  PROVE  ExecInv(ex, "Trace", t)
BY DEF ExecInv, Sound, Fit

LEMMA GenerateInv == ReplayInv /\ Generate => ReplayInv'
<1> SUFFICES ASSUME ReplayInv, Generate PROVE ReplayInv'
  OBVIOUS
<1>1. /\ phase = "generate" /\ gen.status = "run"
      /\ UNCHANGED <<saved, rep, phase, shards>>
  BY DEF Generate
<1>2. PICK i \in (IF prog[gen.pc] = None THEN Fresh ELSE {prog[gen.pc]}) :
        prog' = [prog EXCEPT ![gen.pc] = i] /\ gen' = LoopTurn(gen, i, TRUE)
  BY DEF Generate
<1>3. ExecInv(gen, "Checkpoint", saved) /\ gen.pc \in 1 .. ProgramLength
  BY <1>1 DEF ReplayInv, ExecInv
<1>4. Instruction(i)
  <2>1. CASE prog[gen.pc] = None
    BY <1>2, <2>1, CasesAssumption DEF Fresh
  <2>2. CASE prog[gen.pc] # None
    BY <1>2, <1>3, <2>2 DEF ReplayInv, ProgramOk
  <2> QED
    BY <2>1, <2>2
<1>5. ProgramOk'
  BY <1>2, <1>3, <1>4 DEF ReplayInv, ProgramOk
<1>6. gen'.status = "err" \/ ExecInv(gen', "Checkpoint", saved)
  <2>1. Sound(gen, "Checkpoint", saved)
    BY <1>3 DEF ExecInv
  <2> QED
    BY <1>1, <1>2, <1>4, <2>1, TurnSound
<1> QED
  BY <1>1, <1>5, <1>6 DEF ReplayInv, ShardsOk

LEMMA CheckpointInv == ReplayInv /\ Checkpoint => ReplayInv'
<1> SUFFICES ASSUME ReplayInv, Checkpoint PROVE ReplayInv'
  OBVIOUS
<1>1. /\ gen.status \in {"batch", "done"} /\ rep' = Recover(MakeCheckpoint(saved, gen))
      /\ UNCHANGED <<prog, gen, saved, shards, before>>
  BY DEF Checkpoint
<1>2. ExecInv(gen, "Checkpoint", saved) /\ Begun(saved) /\ gen.status # "run"
  BY <1>1 DEF ReplayInv
<1>3. ExecInv(rep', "Trace", saved)
  BY <1>1, <1>2, RecoverSound
<1> QED
  BY <1>1, <1>3 DEF ReplayInv, ProgramOk, ShardsOk

LEMMA ReplayStepInv == ReplayInv /\ Replay => ReplayInv'
<1> SUFFICES ASSUME ReplayInv, Replay PROVE ReplayInv'
  OBVIOUS
<1> DEFINE i == prog[rep.pc]
<1>1. /\ rep.status = "run"
      /\ rep' = IF i = None THEN Err(rep) ELSE LoopTurn(rep, i, FALSE)
      /\ UNCHANGED <<prog, gen, saved, phase, shards>>
  BY DEF Replay
<1>2. ExecInv(rep, "Trace", saved) /\ rep.pc \in 1 .. ProgramLength
  BY <1>1 DEF ReplayInv, ExecInv
<1>3. rep'.status = "err" \/ ExecInv(rep', "Trace", saved)
  <2>1. CASE i = None
    <3>1. rep' = Err(rep) /\ DOMAIN rep = Fields
      BY <1>1, <1>2, <2>1 DEF ExecInv, Sound, Fit, Typed
    <3> QED
      BY <3>1 DEF Err, Fields
  <2>2. CASE i # None
    <3>1. Instruction(i)
      BY <1>2, <2>2 DEF ReplayInv, ProgramOk
    <3>2. Sound(rep, "Trace", saved) /\ rep' = LoopTurn(rep, i, FALSE)
      BY <1>1, <1>2, <2>2 DEF ExecInv
    <3> HIDE DEF i
    <3> QED
      BY <1>1, <3>1, <3>2, TurnSound
  <2> QED
    BY <2>1, <2>2
<1> QED
  BY <1>1, <1>3 DEF ReplayInv, ProgramOk, ShardsOk

LEMMA EndReplayInv == ReplayInv /\ EndReplay => ReplayInv'
<1> SUFFICES ASSUME ReplayInv, EndReplay PROVE ReplayInv'
  OBVIOUS
<1> DEFINE w == WithPublicValues(rep, saved.current_shard)
           x == [BeginBatch(gen) EXCEPT !.records_clk = <<>>,
                                        !.uninitialized_memory_checkpoint = Empty]
<1>1. /\ phase = "replay" /\ rep.status \in {"batch", "done"}
      /\ shards' = shards \o w /\ UNCHANGED <<prog, rep>>
  BY DEF EndReplay
<1>2. /\ ExecInv(rep, "Trace", saved) /\ ExecInv(gen, "Checkpoint", saved)
      /\ gen.status \in {"batch", "done"} /\ ~gen.unconstrained
  BY <1>1 DEF ReplayInv, ExecInv
<1>3. ShardsOk'
  <2>1. rep.records \in Seq(TraceRecord)
    BY <1>2 DEF ExecInv, Sound, Fit, Typed
  <2> DEFINE T == {w[k] : k \in DOMAIN w}
  <2>2. \A k \in DOMAIN rep.records : rep.records[k].local \subseteq ForwardEvent
    <3>1. \A k \in DOMAIN rep.records : rep.records[k] \in TraceRecord
      BY <2>1
    <3>2. \A z \in TraceRecord : z.local \subseteq ForwardEvent
      BY DEF TraceRecord
    <3> QED
      BY <3>1, <3>2
  <2>3. /\ DOMAIN w = DOMAIN rep.records
        /\ \A k \in DOMAIN rep.records : w[k].local = rep.records[k].local
        /\ w = [k \in DOMAIN rep.records |-> w[k]]
    BY DEF WithPublicValues
  <2> HIDE DEF w
  <2>4. w \in Seq(T)
    <3>1. Len(rep.records) \in Nat /\ DOMAIN rep.records = 1 .. Len(rep.records)
      BY <2>1
    <3>2. w \in [1 .. Len(rep.records) -> T]
      BY <2>3, <3>1
    <3> QED
      BY <3>1, <3>2
  <2>5. \A z \in T : ForwardShard(z)
    BY <2>2, <2>3 DEF ForwardShard
  <2>6. PICK S : shards \in Seq(S) /\ \A z \in S : ForwardShard(z)
    BY DEF ReplayInv, ShardsOk
  <2> HIDE DEF T
  <2>7. shards \in Seq(S \cup T) /\ w \in Seq(S \cup T)
    BY <2>4, <2>6
  <2>8. shards' \in Seq(S \cup T) /\ \A z \in S \cup T : ForwardShard(z)
    BY <1>1, <2>5, <2>6, <2>7
  <2> QED
    BY <2>8 DEF ShardsOk
<1>4. CASE gen.status = "done"
  <2>1. phase' = "done" /\ UNCHANGED <<gen, saved>>
    BY <1>4 DEF EndReplay
  <2> QED
    BY <1>1, <1>3, <2>1 DEF ReplayInv, ProgramOk
<1>5. CASE gen.status # "done"
  <2>1. phase' = "generate" /\ gen' = x /\ saved' = x
    BY <1>5 DEF EndReplay
  <2>2. DOMAIN gen = Fields /\ Typed(gen)
    BY <1>2 DEF ExecInv, Sound, Fit, Typed
  <2>3. /\ Keeps(gen, x, {"mode", "emit", "memory_checkpoint", "records", "status",
                          "records_clk", "uninitialized_memory_checkpoint"})
        /\ x.mode = "Checkpoint" /\ x.memory_checkpoint = Empty /\ x.records = <<>>
        /\ x.status = "run" /\ x.uninitialized_memory_checkpoint = Empty
    BY <2>2 DEF BeginBatch, Keeps, Fields
  <2> HIDE DEF x
  <2>4. Keeps(gen, x, LooseFields \cup {"mode", "memory_checkpoint", "records", "status",
                                        "uninitialized_memory_checkpoint"})
    BY <2>3 DEF Keeps, LooseFields
  <2>5. Marks(x.uninitialized_memory_checkpoint, x.uninitialized_memory)
    BY <2>3 DEF Marks, Empty
  <2>6. ExecInv(x, "Checkpoint", x)
    BY <1>2, <1>5, <2>3, <2>4, <2>5, BatchSound
  <2>7. Begun(x)
    BY <2>3, <2>6 DEF ExecInv, Sound, Fit, Begun
  <2>8. ExecInv(rep, "Trace", x)
    BY <1>2, TraceOfAny
  <2> QED
    BY <1>1, <1>3, <2>1, <2>6, <2>7, <2>8 DEF ReplayInv, ProgramOk
<1> QED
  BY <1>4, <1>5

\* The inductive invariant: whatever the program does, the executor that generates
\* checkpoints and every executor that Executor::recover makes of one stay sound, so
\* recover always finds a checkpoint that is complete, typed and older than its clock.
THEOREM ReplayInvariant == Spec => []ReplayInv
<1>1. Init => ReplayInv
  BY InitInv
<1>2. ReplayInv /\ [Next]_vars => ReplayInv'
  <2> SUFFICES ASSUME ReplayInv, [Next]_vars PROVE ReplayInv'
    OBVIOUS
  <2>1. CASE Stop \/ UNCHANGED vars
    BY <2>1 DEF Stop, vars, ReplayInv, ProgramOk, ShardsOk
  <2> QED
    BY <2>1, GenerateInv, CheckpointInv, ReplayStepInv, EndReplayInv DEF Next
<1> QED
  BY <1>1, <1>2, PTL DEF Spec

\* Every local memory event that an execution record has, of mr, mw and the syscalls,
\* goes forward in (shard, timestamp), as the memory chips demand: also the first access
\* of a replay to a recovered record, and the first after an unconstrained block.
THEOREM AccessesMoveForwardHolds == Spec => []AccessesMoveForward
<1>1. ReplayInv => AccessesMoveForward
  <2> SUFFICES ASSUME ReplayInv, NEW e \in LocalEvents PROVE Earlier(e.initial, e.final)
    BY DEF AccessesMoveForward
  <2>1. PICK S : shards \in Seq(S) /\ \A z \in S : ForwardShard(z)
    BY DEF ReplayInv, ShardsOk
  <2>2. PICK k \in DOMAIN shards : e \in shards[k].local
    BY DEF LocalEvents
  <2>3. shards[k] \in S
    BY <2>1
  <2>4. e \in ForwardEvent
    BY <2>1, <2>2, <2>3 DEF ForwardShard
  <2> QED
    BY <2>4 DEF ForwardEvent
<1> QED
  BY <1>1, ReplayInvariant, PTL

-----------------------------------------------------------------------------
(* Blocks between the generator and the replay. *)

\* The history variable has the executor that entered the block of whoever executes.
BlockInv ==
    /\ phase = "generate" =>
          /\ gen.status = "err" \/ ~gen.unconstrained \/ Entered(before, gen)
          /\ rep.status # "err" /\ ~rep.unconstrained
    /\ phase = "replay" =>
          rep.status = "err" \/ ~rep.unconstrained \/ Entered(before, rep)

\* What BlockIsOneCall says of a step of one executor.
EndsLikeOneCall(ex, e, limit) ==
    ex.unconstrained /\ ~e.unconstrained /\ e.status # "err" =>
        Visible(e) = Visible(LoopTurn(before, [op |-> "EXIT"], limit))

LEMMA GenerateBlock ==
  ASSUME ReplayInv, BlockInv, Generate
  PROVE  BlockInv' /\ EndsLikeOneCall(gen, gen', TRUE) /\ rep' = rep
<1>1. /\ phase = "generate" /\ gen.status = "run" /\ rep' = rep /\ phase' = phase
  BY DEF Generate
<1>2. PICK i \in (IF prog[gen.pc] = None THEN Fresh ELSE {prog[gen.pc]}) :
        /\ gen' = LoopTurn(gen, i, TRUE)
        /\ before' = IF i.op = "ENTER" /\ ~gen.unconstrained THEN gen ELSE before
  BY DEF Generate
<1>3. ExecInv(gen, "Checkpoint", saved) /\ gen.pc \in 1 .. ProgramLength
  BY <1>1 DEF ReplayInv, ExecInv
<1>4. Instruction(i)
  <2>1. CASE prog[gen.pc] = None
    BY <1>2, <2>1, CasesAssumption DEF Fresh
  <2>2. CASE prog[gen.pc] # None
    BY <1>2, <1>3, <2>2 DEF ReplayInv, ProgramOk
  <2> QED
    BY <2>1, <2>2
<1>5. /\ Sound(gen, "Checkpoint", saved)
      /\ gen.unconstrained => Entered(before, gen)
  BY <1>1, <1>3 DEF ExecInv, BlockInv
<1>6. gen'.status # "err" => InBlocks(gen, gen', before, before', TRUE)
  BY <1>1, <1>2, <1>4, <1>5, BlockStep
<1>7. BlockInv'
  BY <1>1, <1>6 DEF BlockInv, InBlocks
<1> QED
  BY <1>1, <1>6, <1>7 DEF EndsLikeOneCall, InBlocks

LEMMA ReplayBlock ==
  ASSUME ReplayInv, BlockInv, Replay
  PROVE  BlockInv' /\ EndsLikeOneCall(rep, rep', FALSE) /\ gen' = gen
<1> DEFINE i == prog[rep.pc]
<1>1. /\ phase = "replay" /\ rep.status = "run" /\ gen' = gen /\ phase' = phase
      /\ rep' = IF i = None THEN Err(rep) ELSE LoopTurn(rep, i, FALSE)
      /\ before' = IF i # None /\ i.op = "ENTER" /\ ~rep.unconstrained
                   THEN rep ELSE before
  BY DEF Replay
<1>2. ExecInv(rep, "Trace", saved) /\ rep.pc \in 1 .. ProgramLength
  BY <1>1 DEF ReplayInv, ExecInv
<1>3. CASE i = None
  <2>1. rep' = Err(rep) /\ DOMAIN rep = Fields
    BY <1>1, <1>2, <1>3 DEF ExecInv, Sound, Fit, Typed
  <2>2. rep'.status = "err"
    BY <2>1 DEF Err, Fields
  <2> QED
    BY <1>1, <2>2 DEF BlockInv, EndsLikeOneCall
<1>4. CASE i # None
  <2>1. Instruction(i)
    BY <1>2, <1>4 DEF ReplayInv, ProgramOk
  <2>2. /\ Sound(rep, "Trace", saved)
        /\ rep.unconstrained => Entered(before, rep)
    BY <1>1, <1>2 DEF ExecInv, BlockInv
  <2>3. /\ rep' = LoopTurn(rep, i, FALSE)
        /\ before' = IF i.op = "ENTER" /\ ~rep.unconstrained THEN rep ELSE before
    BY <1>1, <1>4
  <2> HIDE DEF i
  <2>4. rep'.status # "err" => InBlocks(rep, rep', before, before', FALSE)
    BY <1>1, <2>1, <2>2, <2>3, BlockStep
  <2>5. BlockInv'
    BY <1>1, <2>4 DEF BlockInv, InBlocks
  <2> QED
    BY <1>1, <2>4, <2>5 DEF EndsLikeOneCall, InBlocks
<1> QED
  BY <1>3, <1>4

\* Checkpoints are made and replays end outside blocks.
LEMMA BetweenBlock ==
  ASSUME ReplayInv, ReplayInv', BlockInv, Checkpoint \/ EndReplay
  PROVE  BlockInv' /\ (~gen.unconstrained \/ gen' = gen) /\ (~rep.unconstrained \/ rep' = rep)
<1>1. CASE Checkpoint
  <2>1. /\ phase = "generate" /\ phase' = "replay" /\ gen' = gen
        /\ rep' = Recover(MakeCheckpoint(saved, gen)) /\ gen.status \in {"batch", "done"}
    BY <1>1 DEF Checkpoint
  <2>2. ~rep.unconstrained
    BY <2>1 DEF BlockInv
  <2>3. ~rep'.unconstrained
    <3> DEFINE c == MakeCheckpoint(saved, gen)
    <3> HIDE DEF c
    <3>1. ~Recover(c).unconstrained
      BY DEF Recover, Initialize, NewExecutor
    <3> QED
      BY <2>1, <3>1 DEF c
  <2> QED
    BY <2>1, <2>2, <2>3 DEF BlockInv
<1>2. CASE EndReplay
  <2>1. /\ phase = "replay" /\ rep.status \in {"batch", "done"} /\ rep' = rep
    BY <1>2 DEF EndReplay
  <2>2. /\ ExecInv(rep, "Trace", saved) /\ ExecInv(gen, "Checkpoint", saved)
        /\ gen.status \in {"batch", "done"}
    BY <2>1 DEF ReplayInv
  <2>3. ~rep.unconstrained /\ ~gen.unconstrained /\ DOMAIN gen = Fields
    BY <2>1, <2>2 DEF ExecInv, Sound, Fit, Typed
  <2>4. \/ phase' = "done"
        \/ /\ phase' = "generate"
           /\ gen' = [BeginBatch(gen) EXCEPT !.records_clk = <<>>,
                                             !.uninitialized_memory_checkpoint = Empty]
    BY <1>2 DEF EndReplay
  <2>5. phase' = "generate" => ~gen'.unconstrained
    BY <2>3, <2>4 DEF BeginBatch, Fields
  <2>6. phase' # "replay"
    BY <2>4
  <2> QED
    BY <2>1, <2>3, <2>5, <2>6 DEF BlockInv
<1> QED
  BY <1>1, <1>2

LEMMA BlockInit == Init => BlockInv
<1> SUFFICES ASSUME Init PROVE BlockInv
  OBVIOUS
<1>1. PICK c \in Cases :
        /\ gen = Initialize([BeginBatch(NewExecutor(ContextHooks, c.opts)) EXCEPT
                               !.proof_stream = ProofStream])
        /\ rep = NewExecutor(DefaultHooks, c.opts)
        /\ phase = "generate"
  BY DEF Init
<1>2. rep.status # "err" /\ ~rep.unconstrained
  BY <1>1 DEF NewExecutor
<1>3. ~gen.unconstrained
  <2> DEFINE n == NewExecutor(ContextHooks, c.opts)
             e == [BeginBatch(n) EXCEPT !.proof_stream = ProofStream]
  <2>1. ~n.unconstrained /\ DOMAIN n = Fields
    BY NewIsWhole DEF NewExecutor
  <2>2. gen = Initialize(e)
    BY <1>1
  <2> HIDE DEF n
  <2>3. ~e.unconstrained /\ DOMAIN e = Fields
    BY <2>1 DEF BeginBatch, Fields
  <2> HIDE DEF e
  <2> QED
    BY <2>2, <2>3 DEF Initialize, Fields
<1> QED
  BY <1>1, <1>2, <1>3 DEF BlockInv

\* As long as an executor is inside an unconstrained block, what EXIT_UNCONSTRAINED would
\* restore is the executor that called ENTER_UNCONSTRAINED, past that call's operands, but
\* for the fields that unconstrained code may write.
THEOREM BlockInvariant == Spec => []BlockInv
<1>1. Init => BlockInv
  BY BlockInit
<1>2. ReplayInv /\ ReplayInv' /\ BlockInv /\ [Next]_vars => BlockInv'
  <2> SUFFICES ASSUME ReplayInv, ReplayInv', BlockInv, [Next]_vars PROVE BlockInv'
    OBVIOUS
  <2>1. CASE Stop \/ UNCHANGED vars
    BY <2>1 DEF Stop, vars, BlockInv
  <2> QED
    BY <2>1, GenerateBlock, BetweenBlock, ReplayBlock DEF Next
<1> QED
  BY <1>1, <1>2, ReplayInvariant, PTL DEF Spec

\* An unconstrained block leaves no trace in memory, clocks, records, shards and hints: the
\* turn that ends it leaves the executor as one call of EXIT_UNCONSTRAINED in the place of
\* ENTER_UNCONSTRAINED would have, in the generator and in the replay.
THEOREM BlockIsOneCallHolds == Spec => BlockIsOneCall
<1> DEFINE Step == \A ex \in {<<gen, gen', TRUE>>, <<rep, rep', FALSE>>} :
                      ex[1].unconstrained /\ ~ex[2].unconstrained /\ ex[2].status # "err" =>
                          Visible(ex[2]) = Visible(LoopTurn(before, [op |-> "EXIT"], ex[3]))
<1>1. EndsLikeOneCall(gen, gen', TRUE) /\ EndsLikeOneCall(rep, rep', FALSE) => Step
  <2> SUFFICES ASSUME EndsLikeOneCall(gen, gen', TRUE), EndsLikeOneCall(rep, rep', FALSE),
                      NEW ex \in {<<gen, gen', TRUE>>, <<rep, rep', FALSE>>}
               PROVE  EndsLikeOneCall(ex[1], ex[2], ex[3])
    BY DEF EndsLikeOneCall
  <2>1. ASSUME NEW a, NEW b, NEW c
        PROVE  <<a, b, c>>[1] = a /\ <<a, b, c>>[2] = b /\ <<a, b, c>>[3] = c
    OBVIOUS
  <2>2. CASE ex = <<gen, gen', TRUE>>
    <3>1. ex[1] = gen /\ ex[2] = gen' /\ ex[3] = TRUE
      BY <2>1, <2>2, Zenon
    <3> QED
      BY <3>1
  <2>3. CASE ex = <<rep, rep', FALSE>>
    <3>1. ex[1] = rep /\ ex[2] = rep' /\ ex[3] = FALSE
      BY <2>1, <2>3, Zenon
    <3> QED
      BY <3>1
  <2> QED
    BY <2>2, <2>3
<1>2. ReplayInv /\ ReplayInv' /\ BlockInv /\ [Next]_vars => [Step]_vars
  <2> SUFFICES ASSUME ReplayInv, ReplayInv', BlockInv, Next
               PROVE  EndsLikeOneCall(gen, gen', TRUE) /\ EndsLikeOneCall(rep, rep', FALSE)
    BY <1>1
  <2>1. CASE Generate
    BY <2>1, GenerateBlock DEF EndsLikeOneCall
  <2>2. CASE Checkpoint \/ EndReplay
    BY <2>2, BetweenBlock DEF EndsLikeOneCall
  <2>3. CASE Replay
    BY <2>3, ReplayBlock DEF EndsLikeOneCall
  <2>4. CASE Stop
    BY <2>4 DEF Stop, vars, EndsLikeOneCall
  <2> QED
    BY <2>1, <2>2, <2>3, <2>4 DEF Next
<1> QED
  BY <1>2, ReplayInvariant, BlockInvariant, PTL DEF Spec, BlockIsOneCall

-----------------------------------------------------------------------------
(* The generator's checkpoint says what the batch began with. *)

\* An executor that records what it touches, also what EXIT_UNCONSTRAINED will restore.
Ready(g) ==
    /\ DOMAIN g = Fields
    /\ g.mode = "Checkpoint" \/ g.unconstrained
    /\ g.unconstrained => DOMAIN g.fork.memory_diff \subseteq DOMAIN g.memory_checkpoint

\* Maps m and n have the same at b.
SameAt(m, n, b) == /\ b \in DOMAIN m <=> b \in DOMAIN n
                   /\ b \in DOMAIN m => m[b] = n[b]

\* Between g and e the checkpoint has grown by what was changed, as it was at g.
Extends(g, e) ==
    /\ DOMAIN g.memory_checkpoint \subseteq DOMAIN e.memory_checkpoint
    /\ \A b \in DOMAIN e.memory_checkpoint :
          e.memory_checkpoint[b] = IF b \in DOMAIN g.memory_checkpoint
                                   THEN g.memory_checkpoint[b] ELSE Get(g.memory, b)
    /\ \A b : b \notin DOMAIN e.memory_checkpoint => SameAt(e.memory, g.memory, b)
    /\ DOMAIN g.uninitialized_memory_checkpoint \subseteq DOMAIN e.uninitialized_memory_checkpoint
    /\ \A b \in DOMAIN e.uninitialized_memory_checkpoint :
          e.uninitialized_memory_checkpoint[b] =
              IF b \in DOMAIN g.uninitialized_memory_checkpoint
              THEN g.uninitialized_memory_checkpoint[b] ELSE InitialValue(g, b) # 0
    /\ \A b : b \notin DOMAIN e.uninitialized_memory_checkpoint =>
                 SameAt(e.uninitialized_memory, g.uninitialized_memory, b)
    /\ \A b \in DOMAIN g.uninitialized_memory :
          /\ b \in DOMAIN e.uninitialized_memory
          /\ e.uninitialized_memory[b] = g.uninitialized_memory[b]

\* What Extends looks at.
ExtendedFields == {"memory_checkpoint", "memory", "uninitialized_memory_checkpoint",
                   "uninitialized_memory"}

LEMMA ExtendsSelf ==
  ASSUME NEW g, NEW e, \A f \in ExtendedFields : e[f] = g[f]
  PROVE  Extends(g, e)
<1>1. /\ e.memory_checkpoint = g.memory_checkpoint /\ e.memory = g.memory
      /\ e.uninitialized_memory_checkpoint = g.uninitialized_memory_checkpoint
      /\ e.uninitialized_memory = g.uninitialized_memory
  BY DEF ExtendedFields
<1> QED
  BY <1>1 DEF Extends, SameAt

LEMMA ExtendsTrans ==
  ASSUME NEW g, NEW e, NEW d, Extends(g, e), Extends(e, d)
  PROVE  Extends(g, d)
<1>1. /\ DOMAIN g.memory_checkpoint \subseteq DOMAIN d.memory_checkpoint
      /\ DOMAIN g.uninitialized_memory_checkpoint \subseteq DOMAIN d.uninitialized_memory_checkpoint
  BY DEF Extends
<1>2. ASSUME NEW b \in DOMAIN d.memory_checkpoint
      PROVE  d.memory_checkpoint[b] = IF b \in DOMAIN g.memory_checkpoint
                                      THEN g.memory_checkpoint[b] ELSE Get(g.memory, b)
  <2>1. b \notin DOMAIN e.memory_checkpoint => Get(e.memory, b) = Get(g.memory, b)
    BY DEF Extends, SameAt, Get
  <2> QED
    BY <2>1 DEF Extends
<1>3. ASSUME NEW b, b \notin DOMAIN d.memory_checkpoint PROVE SameAt(d.memory, g.memory, b)
  BY <1>3 DEF Extends, SameAt
<1>4. ASSUME NEW b \in DOMAIN d.uninitialized_memory_checkpoint
      PROVE  d.uninitialized_memory_checkpoint[b] =
                IF b \in DOMAIN g.uninitialized_memory_checkpoint
                THEN g.uninitialized_memory_checkpoint[b] ELSE InitialValue(g, b) # 0
  <2>1. b \notin DOMAIN e.uninitialized_memory_checkpoint => InitialValue(e, b) = InitialValue(g, b)
    BY DEF Extends, SameAt, InitialValue
  <2> QED
    BY <2>1 DEF Extends
<1>5. ASSUME NEW b, b \notin DOMAIN d.uninitialized_memory_checkpoint
      PROVE  SameAt(d.uninitialized_memory, g.uninitialized_memory, b)
  BY <1>5 DEF Extends, SameAt
<1>6. ASSUME NEW b \in DOMAIN g.uninitialized_memory
      PROVE  /\ b \in DOMAIN d.uninitialized_memory
             /\ d.uninitialized_memory[b] = g.uninitialized_memory[b]
  BY DEF Extends
<1> QED
  BY <1>1, <1>2, <1>3, <1>4, <1>5, <1>6 DEF Extends

\* A look at a, and nothing else.
LEMMA PeekExtends ==
  ASSUME NEW g, NEW a, Ready(g)
  PROVE  /\ Extends(g, Peek(g, a)) /\ Ready(Peek(g, a))
         /\ a \in DOMAIN Peek(g, a).memory_checkpoint
<1> DEFINE e == Peek(g, a)
<1>1. /\ Keeps(g, e, {"memory_checkpoint"})
      /\ e.memory_checkpoint = OrInsert(g.memory_checkpoint, a, Get(g.memory, a))
  BY PeekFacts DEF Ready
<1> HIDE DEF e
<1>2. /\ DOMAIN e = Fields /\ e.memory = g.memory /\ e.mode = g.mode
      /\ e.unconstrained = g.unconstrained /\ e.fork = g.fork
      /\ e.uninitialized_memory_checkpoint = g.uninitialized_memory_checkpoint
      /\ e.uninitialized_memory = g.uninitialized_memory
  BY <1>1 DEF Keeps, Fields
<1>3. /\ DOMAIN e.memory_checkpoint = DOMAIN g.memory_checkpoint \cup {a}
      /\ \A b \in DOMAIN e.memory_checkpoint :
            e.memory_checkpoint[b] = IF b \in DOMAIN g.memory_checkpoint
                                     THEN g.memory_checkpoint[b] ELSE Get(g.memory, b)
  BY <1>1 DEF OrInsert
<1>4. Extends(g, e)
  BY <1>2, <1>3 DEF Extends, SameAt
<1>5. Ready(e)
  BY <1>2, <1>3 DEF Ready
<1> QED
  BY <1>3, <1>4, <1>5 DEF e

LEMMA TouchCounts ==
  ASSUME NEW ex, NEW a, NEW v, NEW ts, NEW b, DOMAIN ex = Fields
  PROVE  /\ Touch(ex, a, v, ts, b).local_mem =
                IF ~ex.unconstrained /\ a \in Addrs
                   /\ (RecordOf(ex, a).shard # ex.current_shard \/ b)
                THEN ex.local_mem + 1 ELSE ex.local_mem
         /\ Touch(ex, a, v, ts, b).uninitialized_memory_checkpoint =
                IF a \in DOMAIN ex.memory THEN ex.uninitialized_memory_checkpoint
                ELSE OrInsert(ex.uninitialized_memory_checkpoint, a, InitialValue(ex, a) # 0)
<1> DEFINE e1 == Peek(ex, a)
           e2 == SaveDiff(e1, a)
           e3 == MarkUninitialized(e2, a)
           e4 == CountLocal(e3, a, b)
           r == [value |-> v, shard |-> ex.current_shard, timestamp |-> ts]
           e5 == [e4 EXCEPT !.memory = Insert(@, a, r)]
<1>1. Keeps(ex, e1, {"memory_checkpoint"})
  BY PeekFacts
<1>2. Keeps(e1, e2, {"fork"})
  BY <1>1, SaveDiffFacts DEF Keeps
<1> HIDE DEF e1
<1> HIDE DEF e2
<1>3. Keeps(ex, e2, {"memory_checkpoint", "fork"})
  BY <1>1, <1>2 DEF Keeps
<1>4. /\ DOMAIN e2 = Fields /\ e2.memory = ex.memory
      /\ e2.uninitialized_memory = ex.uninitialized_memory
      /\ e2.uninitialized_memory_checkpoint = ex.uninitialized_memory_checkpoint
      /\ e2.unconstrained = ex.unconstrained /\ e2.local_mem = ex.local_mem
      /\ e2.current_shard = ex.current_shard
  BY <1>3 DEF Keeps, Fields
<1>5. /\ Keeps(e2, e3, {"uninitialized_memory_checkpoint"})
      /\ e3.uninitialized_memory_checkpoint =
            IF a \in DOMAIN ex.memory THEN ex.uninitialized_memory_checkpoint
            ELSE OrInsert(ex.uninitialized_memory_checkpoint, a, InitialValue(ex, a) # 0)
  BY <1>4 DEF MarkUninitialized, Keeps, Fields, InitialValue
<1> HIDE DEF e3
<1>6. /\ DOMAIN e3 = Fields /\ e3.memory = ex.memory
      /\ e3.uninitialized_memory = ex.uninitialized_memory
      /\ e3.unconstrained = ex.unconstrained /\ e3.local_mem = ex.local_mem
      /\ e3.current_shard = ex.current_shard
  BY <1>4, <1>5 DEF Keeps, Fields
<1>7. RecordOf(e3, a) = RecordOf(ex, a)
  BY <1>6 DEF RecordOf, InitialValue
<1>8. /\ e4.uninitialized_memory_checkpoint = e3.uninitialized_memory_checkpoint
      /\ DOMAIN e4 = Fields
      /\ e4.local_mem = IF ~ex.unconstrained /\ a \in Addrs
                           /\ (RecordOf(ex, a).shard # ex.current_shard \/ b)
                        THEN ex.local_mem + 1 ELSE ex.local_mem
  BY <1>6, <1>7 DEF CountLocal, Fields
<1> HIDE DEF e4
<1>9. /\ e5.local_mem = e4.local_mem
      /\ e5.uninitialized_memory_checkpoint = e4.uninitialized_memory_checkpoint
  BY <1>8 DEF Fields
<1>10. Touch(ex, a, v, ts, b) = e5
  BY DEF Touch, e4, e3, e2, e1
<1> QED
  BY <1>5, <1>8, <1>9, <1>10

LEMMA TouchExtends ==
  ASSUME NEW g, NEW a, NEW v, NEW ts, NEW c, Ready(g)
  PROVE  /\ Extends(g, Touch(g, a, v, ts, c)) /\ Ready(Touch(g, a, v, ts, c))
         /\ a \in DOMAIN Touch(g, a, v, ts, c).memory_checkpoint
         /\ \/ a \in DOMAIN g.memory
            \/ a \in DOMAIN Touch(g, a, v, ts, c).uninitialized_memory_checkpoint
<1> DEFINE e == Touch(g, a, v, ts, c)
           p == Peek(g, a)
           r == [value |-> v, shard |-> g.current_shard, timestamp |-> ts]
<1>1. /\ Keeps(g, e, TouchedFields) /\ e.memory = Insert(g.memory, a, r)
      /\ e.memory_checkpoint = p.memory_checkpoint
      /\ e.fork = SaveDiff(g, a).fork
  BY TouchFacts DEF Ready, Touches
<1>2. e.uninitialized_memory_checkpoint =
                IF a \in DOMAIN g.memory THEN g.uninitialized_memory_checkpoint
                ELSE OrInsert(g.uninitialized_memory_checkpoint, a, InitialValue(g, a) # 0)
  BY TouchCounts DEF Ready
<1>3. Extends(g, p) /\ Ready(p) /\ a \in DOMAIN p.memory_checkpoint
  BY PeekExtends
<1>4. Keeps(g, p, {"memory_checkpoint"})
  BY PeekFacts DEF Ready
<1> HIDE DEF e, p, r
<1>5. /\ DOMAIN e = Fields /\ e.mode = g.mode /\ e.unconstrained = g.unconstrained
      /\ e.uninitialized_memory = g.uninitialized_memory /\ p.memory = g.memory
      /\ p.fork = g.fork /\ p.unconstrained = g.unconstrained
  BY <1>1, <1>4 DEF Keeps, Fields, TouchedFields
<1>6. \A b : b \notin DOMAIN e.memory_checkpoint => SameAt(e.memory, g.memory, b)
  <2>1. \A b : b # a => SameAt(e.memory, g.memory, b)
    BY <1>1 DEF Insert, SameAt
  <2> QED
    BY <1>1, <1>3, <2>1
<1>7. /\ DOMAIN g.uninitialized_memory_checkpoint \subseteq DOMAIN e.uninitialized_memory_checkpoint
      /\ \A b \in DOMAIN e.uninitialized_memory_checkpoint :
          e.uninitialized_memory_checkpoint[b] =
              IF b \in DOMAIN g.uninitialized_memory_checkpoint
              THEN g.uninitialized_memory_checkpoint[b] ELSE InitialValue(g, b) # 0
      /\ a \in DOMAIN g.memory \/ a \in DOMAIN e.uninitialized_memory_checkpoint
  BY <1>2 DEF OrInsert
<1>8. Extends(g, e)
  BY <1>1, <1>3, <1>5, <1>6, <1>7 DEF Extends, SameAt
<1>9. Ready(e)
  <2>1. e.unconstrained => DOMAIN e.fork.memory_diff \subseteq DOMAIN g.fork.memory_diff \cup {a}
    <3>1. CASE g.unconstrained
      <4>1. e.fork = [g.fork EXCEPT !.memory_diff = OrInsert(@, a, Get(g.memory, a))]
        BY <1>1, <3>1, SaveDiffFacts DEF Ready
      <4> DEFINE d == OrInsert(g.fork.memory_diff, a, Get(g.memory, a))
      <4>2. DOMAIN d = DOMAIN g.fork.memory_diff \cup {a}
        BY DEF OrInsert
      <4> HIDE DEF d
      <4>3. e.fork.memory_diff = d \/ e.fork = g.fork
        BY <4>1 DEF d
      <4> QED
        BY <4>2, <4>3
    <3> QED
      BY <1>5, <3>1
  <2> QED
    BY <1>1, <1>3, <1>5, <2>1 DEF Ready
<1> QED
  BY <1>1, <1>3, <1>7, <1>8, <1>9 DEF e

LEMMA AccessExtends ==
  ASSUME NEW g, NEW a, NEW v, NEW pos, Ready(g)
  PROVE  /\ Extends(g, Access(g, a, v, pos)) /\ Ready(Access(g, a, v, pos))
         /\ a \in DOMAIN Access(g, a, v, pos).memory_checkpoint
         /\ \/ a \in DOMAIN g.memory
            \/ a \in DOMAIN Access(g, a, v, pos).uninitialized_memory_checkpoint
<1> DEFINE ts == g.clk + pos
           t == Touch(g, a, v, ts, FALSE)
<1>1. ~Tracing(g) => Access(g, a, v, pos) = t
  BY DEF Access, WithLocalEvent
<1>2. ~Tracing(g)
  BY DEF Ready, Tracing
<1> HIDE DEF ts
<1>3. /\ Extends(g, t) /\ Ready(t) /\ a \in DOMAIN t.memory_checkpoint
      /\ a \in DOMAIN g.memory \/ a \in DOMAIN t.uninitialized_memory_checkpoint
  BY TouchExtends
<1> QED
  BY <1>1, <1>2, <1>3

-----------------------------------------------------------------------------
(* The generator and the replay in step. *)

SharedFields == {"opts", "pc", "next_pc", "clk", "global_clk", "current_shard", "exited",
                 "next_is_delayslot", "input_stream", "input_stream_ptr",
                 "public_values_stream", "unconstrained", "local_mem", "status"}

\* The replay has the locations of K, as the generator has them.
SameMemory(g, r, K) == /\ DOMAIN r.memory \subseteq K
                       /\ \A b \in K : SameAt(r.memory, g.memory, b)

\* Words of H that are not in memory read the same.
SameHints(g, r, H) ==
    /\ DOMAIN r.uninitialized_memory \subseteq DOMAIN g.uninitialized_memory
    /\ \A b \in H : InitialValue(r, b) = InitialValue(g, b)

SameBlock(g, r, K) ==
    IF g.unconstrained
    THEN /\ g.mode = "Simple" /\ r.mode = "Simple"
         /\ DOMAIN g.fork = ForkFields /\ DOMAIN r.fork = ForkFields
         /\ g.fork.mode = "Checkpoint" /\ r.fork.mode = "Trace"
         /\ r.fork.global_clk = g.fork.global_clk /\ r.fork.clk = g.fork.clk
         /\ r.fork.pc = g.fork.pc /\ r.fork.memory_diff = g.fork.memory_diff
         /\ DOMAIN g.fork.memory_diff \subseteq K
    ELSE g.mode = "Checkpoint" /\ r.mode = "Trace"

\* The replay r is where the generator was at g.
Sim(g, r, K, H) ==
    /\ DOMAIN g = Fields /\ DOMAIN r = Fields
    /\ \A f \in SharedFields : r[f] = g[f]
    /\ SameMemory(g, r, K) /\ SameHints(g, r, H) /\ SameBlock(g, r, K)
    /\ Len(r.records) = Len(g.records)
    /\ ~r.verify_deferred /\ r.hooks = DefaultHooks /\ g.hooks = ContextHooks

\* What g touches is in K and H.
Within(g, K, H) == /\ DOMAIN g.memory_checkpoint \subseteq K
                   /\ DOMAIN g.uninitialized_memory_checkpoint \subseteq H

LEMMA WithinBefore ==
  ASSUME NEW g, NEW e, NEW K, NEW H, Extends(g, e), Within(e, K, H)
  PROVE  Within(g, K, H)
BY DEF Extends, Within

\* The fields of Sim that stand for themselves.
PlainFields == SharedFields \cup {"memory", "uninitialized_memory", "fork", "mode", "records",
                                  "verify_deferred", "hooks"}

LEMMA SimSame ==
  ASSUME NEW g, NEW r, NEW e, NEW d, NEW K, NEW H, Sim(g, r, K, H),
         DOMAIN e = Fields, DOMAIN d = Fields,
         \A f \in PlainFields : e[f] = g[f], \A f \in PlainFields : d[f] = r[f]
  PROVE  Sim(e, d, K, H)
<1>1. /\ e.memory = g.memory /\ d.memory = r.memory
      /\ e.uninitialized_memory = g.uninitialized_memory
      /\ d.uninitialized_memory = r.uninitialized_memory
      /\ e.fork = g.fork /\ d.fork = r.fork /\ e.mode = g.mode /\ d.mode = r.mode
      /\ e.records = g.records /\ d.records = r.records
      /\ d.verify_deferred = r.verify_deferred /\ d.hooks = r.hooks /\ e.hooks = g.hooks
      /\ e.unconstrained = g.unconstrained
  BY DEF PlainFields, SharedFields
<1>2. \A f \in SharedFields : d[f] = e[f]
  BY DEF Sim, PlainFields
<1>3. SameMemory(e, d, K) /\ SameHints(e, d, H) /\ SameBlock(e, d, K)
  BY <1>1 DEF Sim, SameMemory, SameHints, SameBlock, InitialValue
<1> QED
  BY <1>1, <1>2, <1>3 DEF Sim

\* Shared fields may change alike.
LEMMA SimShared ==
  ASSUME NEW g, NEW r, NEW e, NEW d, NEW K, NEW H, NEW F, Sim(g, r, K, H),
         F \subseteq SharedFields \ {"unconstrained"},
         Keeps(g, e, F), Keeps(r, d, F), \A f \in F : d[f] = e[f]
  PROVE  Sim(e, d, K, H)
<1>1. PlainFields \ SharedFields \subseteq Fields \ F /\ "unconstrained" \in Fields \ F
      /\ SharedFields \subseteq Fields
  BY DEF PlainFields, SharedFields, Fields
<1>2. /\ e.memory = g.memory /\ d.memory = r.memory
      /\ e.uninitialized_memory = g.uninitialized_memory
      /\ d.uninitialized_memory = r.uninitialized_memory
      /\ e.fork = g.fork /\ d.fork = r.fork /\ e.mode = g.mode /\ d.mode = r.mode
      /\ e.records = g.records /\ d.records = r.records
      /\ d.verify_deferred = r.verify_deferred /\ d.hooks = r.hooks /\ e.hooks = g.hooks
      /\ e.unconstrained = g.unconstrained
  BY <1>1 DEF Keeps, PlainFields, SharedFields
<1>3. ASSUME NEW f \in SharedFields PROVE d[f] = e[f]
  BY <1>1, <1>3 DEF Keeps, Sim
<1>4. SameMemory(e, d, K) /\ SameHints(e, d, H) /\ SameBlock(e, d, K)
  BY <1>2 DEF Sim, SameMemory, SameHints, SameBlock, InitialValue
<1> QED
  BY <1>2, <1>3, <1>4 DEF Sim, Keeps

LEMMA SimFields ==
  ASSUME NEW g, NEW r, NEW K, NEW H, Sim(g, r, K, H)
  PROVE  /\ r.opts = g.opts /\ r.pc = g.pc /\ r.next_pc = g.next_pc /\ r.clk = g.clk
         /\ r.global_clk = g.global_clk /\ r.current_shard = g.current_shard
         /\ r.exited = g.exited /\ r.next_is_delayslot = g.next_is_delayslot
         /\ r.input_stream = g.input_stream /\ r.input_stream_ptr = g.input_stream_ptr
         /\ r.public_values_stream = g.public_values_stream
         /\ r.unconstrained = g.unconstrained /\ r.local_mem = g.local_mem
         /\ r.status = g.status
BY DEF Sim, SharedFields

LEMMA PeekSim ==
  ASSUME NEW g, NEW r, NEW K, NEW H, NEW a, Sim(g, r, K, H)
  PROVE  Sim(Peek(g, a), Peek(r, a), K, H)
<1> DEFINE e == Peek(g, a)
           d == Peek(r, a)
<1>1. Keeps(g, e, {"memory_checkpoint"}) /\ Keeps(r, d, {"memory_checkpoint"})
  BY PeekFacts DEF Sim
<1> HIDE DEF e, d
<1>2. PlainFields \subseteq Fields \ {"memory_checkpoint"}
  BY DEF PlainFields, SharedFields, Fields
<1>3. Sim(e, d, K, H)
  BY <1>1, <1>2, SimSame DEF Keeps
<1> QED
  BY <1>3 DEF e, d

\* What the replay reads.
LEMMA ReadsSame ==
  ASSUME NEW g, NEW r, NEW K, NEW H, NEW a \in K, Sim(g, r, K, H)
  PROVE  /\ PeekValue(r, a) = PeekValue(g, a) /\ Get(r.memory, a) = Get(g.memory, a)
         /\ a \in DOMAIN r.memory <=> a \in DOMAIN g.memory
         /\ a \in DOMAIN g.memory \/ a \in H => RecordOf(r, a) = RecordOf(g, a)
<1>1. SameAt(r.memory, g.memory, a)
  BY DEF Sim, SameMemory
<1>2. a \in H => InitialValue(r, a) = InitialValue(g, a)
  BY DEF Sim, SameHints
<1> QED
  BY <1>1, <1>2 DEF SameAt, PeekValue, Get, RecordOf

LEMMA TouchSim ==
  ASSUME NEW g, NEW r, NEW K, NEW H, NEW a \in K, NEW v, NEW ts, NEW c, Sim(g, r, K, H),
         a \in DOMAIN g.memory \/ a \in H
  PROVE  Sim(Touch(g, a, v, ts, c), Touch(r, a, v, ts, c), K, H)
<1> DEFINE e == Touch(g, a, v, ts, c)
           d == Touch(r, a, v, ts, c)
           x == [value |-> v, shard |-> g.current_shard, timestamp |-> ts]
           count == ~g.unconstrained /\ a \in Addrs
                    /\ (RecordOf(g, a).shard # g.current_shard \/ c)
<1>1. /\ r.current_shard = g.current_shard /\ r.unconstrained = g.unconstrained
      /\ r.local_mem = g.local_mem /\ DOMAIN g = Fields /\ DOMAIN r = Fields
  BY SimFields DEF Sim
<1>2. RecordOf(r, a) = RecordOf(g, a) /\ Get(r.memory, a) = Get(g.memory, a)
  BY ReadsSame
<1>3. /\ Keeps(g, e, TouchedFields) /\ e.memory = Insert(g.memory, a, x)
      /\ e.fork = SaveDiff(g, a).fork
      /\ Keeps(r, d, TouchedFields) /\ d.memory = Insert(r.memory, a, x)
      /\ d.fork = SaveDiff(r, a).fork
  <2>1. Touches(g, e, a, v, ts) /\ Touches(r, d, a, v, ts)
    BY <1>1, TouchFacts
  <2>2. Keeps(g, e, TouchedFields) /\ Keeps(r, d, TouchedFields)
    BY <2>1 DEF Touches
  <2>3. e.memory = Insert(g.memory, a, x) /\ d.memory = Insert(r.memory, a, x)
    BY <1>1, <2>1 DEF Touches
  <2> QED
    BY <2>1, <2>2, <2>3 DEF Touches
<1>4. /\ e.local_mem = IF count THEN g.local_mem + 1 ELSE g.local_mem
      /\ d.local_mem = IF count THEN g.local_mem + 1 ELSE g.local_mem
  <2>1. e.local_mem = IF count THEN g.local_mem + 1 ELSE g.local_mem
    BY <1>1, TouchCounts
  <2>2. d.local_mem = IF ~r.unconstrained /\ a \in Addrs
                         /\ (RecordOf(r, a).shard # r.current_shard \/ c)
                      THEN r.local_mem + 1 ELSE r.local_mem
    BY <1>1, TouchCounts
  <2> QED
    BY <1>1, <1>2, <2>1, <2>2
<1>5. /\ e.fork = IF g.unconstrained
                  THEN [g.fork EXCEPT !.memory_diff = OrInsert(@, a, Get(g.memory, a))]
                  ELSE g.fork
      /\ d.fork = IF g.unconstrained
                  THEN [r.fork EXCEPT !.memory_diff = OrInsert(@, a, Get(g.memory, a))]
                  ELSE r.fork
  BY <1>1, <1>2, <1>3, SaveDiffFacts
<1> HIDE DEF e, d, x, count
<1>6. /\ DOMAIN e = Fields /\ DOMAIN d = Fields
      /\ e.uninitialized_memory = g.uninitialized_memory
      /\ d.uninitialized_memory = r.uninitialized_memory
      /\ e.mode = g.mode /\ d.mode = r.mode
      /\ e.records = g.records /\ d.records = r.records
      /\ d.verify_deferred = r.verify_deferred /\ d.hooks = r.hooks /\ e.hooks = g.hooks
      /\ e.unconstrained = g.unconstrained
  BY <1>3 DEF Keeps, TouchedFields, Fields
<1>7. ASSUME NEW f \in SharedFields PROVE d[f] = e[f]
  <2>1. CASE f = "local_mem"
    BY <1>4, <2>1
  <2>2. CASE f # "local_mem"
    <3>1. f \in Fields \ TouchedFields
      BY <2>2 DEF SharedFields, Fields, TouchedFields
    <3> QED
      BY <1>3, <3>1 DEF Keeps, Sim
  <2> QED
    BY <2>1, <2>2
<1>8. SameMemory(e, d, K)
  <2>1. DOMAIN r.memory \subseteq K /\ \A b \in K : SameAt(r.memory, g.memory, b)
    BY DEF Sim, SameMemory
  <2>2. DOMAIN d.memory \subseteq K
    BY <1>3, <2>1 DEF Insert
  <2>3. \A b \in K : SameAt(d.memory, e.memory, b)
    BY <1>3, <2>1 DEF Insert, SameAt
  <2> QED
    BY <2>2, <2>3 DEF SameMemory
<1>9. SameHints(e, d, H)
  BY <1>6 DEF Sim, SameHints, InitialValue
<1>10. SameBlock(e, d, K)
  <2>1. CASE ~g.unconstrained
    BY <1>6, <2>1 DEF Sim, SameBlock
  <2>2. CASE g.unconstrained
    <3> DEFINE p == OrInsert(g.fork.memory_diff, a, Get(g.memory, a))
               q == OrInsert(r.fork.memory_diff, a, Get(g.memory, a))
    <3>1. /\ DOMAIN g.fork = ForkFields /\ DOMAIN r.fork = ForkFields
          /\ g.fork.mode = "Checkpoint" /\ r.fork.mode = "Trace"
          /\ r.fork.global_clk = g.fork.global_clk /\ r.fork.clk = g.fork.clk
          /\ r.fork.pc = g.fork.pc /\ r.fork.memory_diff = g.fork.memory_diff
          /\ DOMAIN g.fork.memory_diff \subseteq K /\ g.mode = "Simple" /\ r.mode = "Simple"
      BY <2>2 DEF Sim, SameBlock
    <3>2. p = q /\ DOMAIN p \subseteq K
      BY <3>1 DEF OrInsert
    <3>3. e.fork = [g.fork EXCEPT !.memory_diff = p] /\ d.fork = [r.fork EXCEPT !.memory_diff = q]
      BY <1>5, <2>2
    <3> HIDE DEF p, q
    <3>4. /\ DOMAIN e.fork = ForkFields /\ DOMAIN d.fork = ForkFields
          /\ e.fork.mode = "Checkpoint" /\ d.fork.mode = "Trace"
          /\ d.fork.global_clk = e.fork.global_clk /\ d.fork.clk = e.fork.clk
          /\ d.fork.pc = e.fork.pc /\ d.fork.memory_diff = e.fork.memory_diff
          /\ e.fork.memory_diff = p
      BY <3>1, <3>2, <3>3 DEF ForkFields
    <3> QED
      BY <1>6, <2>2, <3>1, <3>2, <3>4 DEF SameBlock
  <2> QED
    BY <2>1, <2>2
<1>11. Sim(e, d, K, H)
  BY <1>6, <1>7, <1>8, <1>9, <1>10 DEF Sim
<1> QED
  BY <1>11 DEF e, d

LEMMA AccessSim ==
  ASSUME NEW g, NEW r, NEW K, NEW H, NEW a \in K, NEW v, NEW pos, Sim(g, r, K, H),
         a \in DOMAIN g.memory \/ a \in H
  PROVE  Sim(Access(g, a, v, pos), Access(r, a, v, pos), K, H)
<1> DEFINE ts == g.clk + pos
           e == Touch(g, a, v, ts, FALSE)
           d == Touch(r, a, v, ts, FALSE)
           l == LocalEvent(d.local_memory_access, a, RecordOf(r, a), d.memory[a])
           d1 == [d EXCEPT !.local_memory_access = l]
<1>1. r.clk = g.clk /\ ~Tracing(g)
  BY SimFields DEF Sim, SameBlock, Tracing
<1>2. Access(g, a, v, pos) = e /\ Access(r, a, v, pos) \in {d, d1}
  BY <1>1 DEF Access, WithLocalEvent
<1> HIDE DEF ts
<1>3. Sim(e, d, K, H)
  BY TouchSim
<1> HIDE DEF e, d, l
<1>4. Sim(e, d1, K, H)
  <2>1. DOMAIN d1 = Fields /\ DOMAIN e = Fields
    BY <1>3 DEF Sim
  <2>2. \A f \in PlainFields : d1[f] = d[f]
    BY <1>3 DEF Sim, PlainFields, SharedFields, Fields
  <2> HIDE DEF d1
  <2> QED
    BY <1>3, <2>1, <2>2, SimSame
<1> QED
  BY <1>2, <1>3, <1>4

LEMMA SyscallWriteSim ==
  ASSUME NEW g, NEW r, NEW K, NEW H, NEW a \in K, NEW v, Sim(g, r, K, H),
         a \in DOMAIN g.memory \/ a \in H, Ready(g)
  PROVE  /\ Sim(SyscallWrite(g, a, v), SyscallWrite(r, a, v), K, H)
         /\ SyscallWrite(g, a, v) = Touch(g, a, v, g.clk, TRUE)
<1> DEFINE ts == g.clk
           e == Touch(g, a, v, ts, TRUE)
           d == Touch(r, a, v, ts, TRUE)
<1>1. r.clk = g.clk /\ ~Tracing(g)
  BY SimFields DEF Sim, SameBlock, Tracing
<1>2. SyscallWrite(g, a, v) = e /\ SyscallWrite(r, a, v) = WithSyscallEvent(r, d, a)
  BY <1>1 DEF SyscallWrite, WithSyscallEvent
<1> HIDE DEF ts
<1>3. Sim(e, d, K, H)
  BY TouchSim
<1> HIDE DEF e, d
<1>4. /\ DOMAIN WithSyscallEvent(r, d, a) = Fields
      /\ \A f \in PlainFields : WithSyscallEvent(r, d, a)[f] = d[f]
  <2> DEFINE event == [addr |-> a, initial |-> RecordOf(r, a), final |-> d.memory[a]]
             cpu == {r.local_memory_access[b] : b \in {a} \cap DOMAIN r.local_memory_access}
             x == d.record.local \cup cpu \cup {event}
             y == RemoveKey(d.local_memory_access, a)
             w == [d EXCEPT !.record.local = x, !.local_memory_access = y]
  <2>1. DOMAIN d = Fields
    BY <1>3 DEF Sim
  <2>2. WithSyscallEvent(r, d, a) = IF Tracing(r) THEN w ELSE d
    BY DEF WithSyscallEvent
  <2> HIDE DEF x, y
  <2>3. DOMAIN w = Fields /\ \A f \in PlainFields : w[f] = d[f]
    BY <2>1 DEF PlainFields, SharedFields, Fields
  <2> HIDE DEF w
  <2> QED
    BY <2>1, <2>2, <2>3
<1>5. Sim(e, WithSyscallEvent(r, d, a), K, H)
  <2> DEFINE w == WithSyscallEvent(r, d, a)
  <2>1. DOMAIN e = Fields
    BY <1>3 DEF Sim
  <2> HIDE DEF w
  <2>2. DOMAIN w = Fields /\ \A f \in PlainFields : w[f] = d[f]
    BY <1>4 DEF w
  <2>3. Sim(e, w, K, H)
    BY <1>3, <2>1, <2>2, SimSame
  <2> QED
    BY <2>3 DEF w
<1> QED
  BY <1>2, <1>5 DEF ts, e

LEMMA RetireSim ==
  ASSUME NEW g, NEW r, NEW K, NEW H, NEW pc, NEW next, NEW nextNext, Sim(g, r, K, H)
  PROVE  Sim(Retire(g, pc, next, nextNext), Retire(r, pc, next, nextNext), K, H)
<1> DEFINE e == Retire(g, pc, next, nextNext)
           d == Retire(r, pc, next, nextNext)
<1>1. r.clk = g.clk
  BY SimFields
<1>2. Retired(g, e, pc, next, nextNext) /\ Retired(r, d, pc, next, nextNext)
  BY RetireFacts DEF Sim
<1> HIDE DEF e, d
<1> DEFINE F == {"clk", "pc", "next_pc"}
           d1 == [d EXCEPT !.record = r.record]
           e1 == [e EXCEPT !.record = g.record]
<1>3. Keeps(g, e1, F) /\ Keeps(r, d1, F) /\ \A f \in F : d1[f] = e1[f]
  BY <1>1, <1>2 DEF Retired, Keeps, Fields
<1>4. F \subseteq SharedFields \ {"unconstrained"}
  BY DEF SharedFields
<1>5. /\ DOMAIN d = Fields /\ DOMAIN e = Fields
      /\ \A f \in PlainFields : d[f] = d1[f]
      /\ \A f \in PlainFields : e[f] = e1[f]
  BY <1>2 DEF PlainFields, SharedFields, Fields, Retired, Keeps
<1> HIDE DEF F, d1, e1
<1>6. Sim(e1, d1, K, H)
  BY <1>3, <1>4, SimShared
<1>7. Sim(e, d, K, H)
  BY <1>5, <1>6, SimSame
<1> QED
  BY <1>7 DEF e, d

LEMMA RetireExtends ==
  ASSUME NEW g, NEW pc, NEW next, NEW nextNext, Ready(g)
  PROVE  Extends(g, Retire(g, pc, next, nextNext)) /\ Ready(Retire(g, pc, next, nextNext))
<1> DEFINE e == Retire(g, pc, next, nextNext)
<1>1. Keeps(g, e, {"clk", "pc", "next_pc", "record"})
  BY RetireFacts DEF Retired, Ready
<1> HIDE DEF e
<1>2. /\ \A f \in ExtendedFields : e[f] = g[f]
      /\ DOMAIN e = Fields /\ e.mode = g.mode /\ e.unconstrained = g.unconstrained
      /\ e.fork = g.fork /\ e.memory_checkpoint = g.memory_checkpoint
  BY <1>1 DEF Keeps, Fields, ExtendedFields
<1>3. Extends(g, e) /\ Ready(e)
  BY <1>2, ExtendsSelf DEF Ready
<1> QED
  BY <1>3 DEF e

-----------------------------------------------------------------------------
(* Instructions in step. *)

\* The generator has come from g to e, the replay from r to d.
Steps(g, e, r, d, K, H) ==
    /\ Extends(g, e) /\ Ready(e)
    /\ Sim(g, r, K, H) /\ Within(e, K, H) => Sim(e, d, K, H)

LEMMA StepsNone ==
  ASSUME NEW g, NEW r, NEW K, NEW H, Ready(g)
  PROVE  Steps(g, g, r, r, K, H)
BY ExtendsSelf DEF Steps

LEMMA StepsTrans ==
  ASSUME NEW g, NEW e, NEW f, NEW r, NEW d, NEW h, NEW K, NEW H,
         Steps(g, e, r, d, K, H), Steps(e, f, d, h, K, H)
  PROVE  Steps(g, f, r, h, K, H)
<1>1. Extends(g, f)
  BY ExtendsTrans DEF Steps
<1>2. Within(f, K, H) => Within(e, K, H)
  BY WithinBefore DEF Steps
<1> QED
  BY <1>1, <1>2 DEF Steps

LEMMA StepsPeek ==
  ASSUME NEW g, NEW e, NEW r, NEW d, NEW K, NEW H, NEW a, Steps(g, e, r, d, K, H)
  PROVE  Steps(g, Peek(e, a), r, Peek(d, a), K, H)
<1>1. Steps(e, Peek(e, a), d, Peek(d, a), K, H)
  BY PeekExtends, PeekSim DEF Steps
<1> QED
  BY <1>1, StepsTrans

\* The replay reads what the generator reads, if the generator goes on to access it.
LEMMA StepsValue ==
  ASSUME NEW g, NEW r, NEW K, NEW H, NEW a, NEW v, NEW pos, NEW e, Ready(g), Sim(g, r, K, H),
         Extends(Access(g, a, v, pos), e), Within(e, K, H)
  PROVE  /\ RecordOf(r, a) = RecordOf(g, a) /\ PeekValue(r, a) = PeekValue(g, a)
         /\ a \in K /\ (a \in DOMAIN g.memory \/ a \in H)
<1>1. Within(Access(g, a, v, pos), K, H)
  BY WithinBefore
<1>2. a \in K /\ (a \in DOMAIN g.memory \/ a \in H)
  BY <1>1, AccessExtends DEF Within
<1> QED
  BY <1>2, ReadsSame

LEMMA StepsAccess ==
  ASSUME NEW g, NEW e, NEW r, NEW d, NEW K, NEW H, NEW a, NEW v, NEW w, NEW pos,
         Steps(g, e, r, d, K, H),
         Sim(g, r, K, H) /\ Within(Access(e, a, v, pos), K, H) => v = w
  PROVE  Steps(g, Access(e, a, v, pos), r, Access(d, a, w, pos), K, H)
<1> DEFINE f == Access(e, a, v, pos)
<1>1. /\ Extends(e, f) /\ Ready(f) /\ a \in DOMAIN f.memory_checkpoint
      /\ a \in DOMAIN e.memory \/ a \in DOMAIN f.uninitialized_memory_checkpoint
  BY AccessExtends DEF Steps
<1>2. Extends(g, f)
  BY <1>1, ExtendsTrans DEF Steps
<1>3. ASSUME Sim(g, r, K, H), Within(f, K, H)
      PROVE  Sim(f, Access(d, a, w, pos), K, H)
  <2>1. Within(e, K, H) /\ v = w
    BY <1>1, <1>3, WithinBefore
  <2>2. Sim(e, d, K, H)
    BY <1>3, <2>1 DEF Steps
  <2>3. a \in K /\ (a \in DOMAIN e.memory \/ a \in H)
    BY <1>1, <1>3 DEF Within
  <2> QED
    BY <2>1, <2>2, <2>3, AccessSim
<1> QED
  BY <1>1, <1>2, <1>3 DEF Steps

LEMMA StepsRead ==
  ASSUME NEW g, NEW e, NEW r, NEW d, NEW K, NEW H, NEW a, NEW pos, Steps(g, e, r, d, K, H)
  PROVE  Steps(g, Read(e, a, pos), r, Read(d, a, pos), K, H)
<1> DEFINE v == RecordOf(e, a).value
           w == RecordOf(d, a).value
           f == Access(e, a, v, pos)
<1>1. Read(e, a, pos) = Access(e, a, v, pos) /\ Read(d, a, pos) = Access(d, a, w, pos)
  BY DEF Read
<1>2. ASSUME Sim(g, r, K, H), Within(f, K, H) PROVE v = w
  <2>1. Ready(e) /\ Extends(e, f) /\ Extends(f, f)
    <3> HIDE DEF v
    <3> QED
      BY AccessExtends, ExtendsSelf DEF Steps
  <2>2. Within(e, K, H)
    BY <1>2, <2>1, WithinBefore
  <2>3. Sim(e, d, K, H)
    BY <1>2, <2>2 DEF Steps
  <2>4. RecordOf(d, a) = RecordOf(e, a)
    <3> HIDE DEF v
    <3> QED
      BY <1>2, <2>1, <2>3, StepsValue
  <2> QED
    BY <2>4
<1> HIDE DEF v, w
<1>3. Steps(g, Access(e, a, v, pos), r, Access(d, a, w, pos), K, H)
  BY <1>2, StepsAccess
<1> QED
  BY <1>1, <1>3

\* The same shared fields change alike.
LEMMA StepsShared ==
  ASSUME NEW g, NEW e, NEW r, NEW d, NEW K, NEW H, NEW F, NEW f, NEW h,
         Steps(g, e, r, d, K, H), F \subseteq SharedFields \ {"unconstrained"},
         Keeps(e, f, F), DOMAIN d = Fields => Keeps(d, h, F),
         Sim(g, r, K, H) /\ Within(f, K, H) /\ Sim(e, d, K, H) => \A x \in F : h[x] = f[x]
  PROVE  Steps(g, f, r, h, K, H)
<1>1. F \cap (ExtendedFields \cup {"mode", "unconstrained", "fork"}) = {}
      /\ ExtendedFields \cup {"mode", "unconstrained", "fork"} \subseteq Fields
  BY DEF ExtendedFields, SharedFields, Fields
<1>2. /\ \A x \in ExtendedFields : f[x] = e[x]
      /\ f.mode = e.mode /\ f.unconstrained = e.unconstrained /\ f.fork = e.fork
      /\ f.memory_checkpoint = e.memory_checkpoint /\ DOMAIN f = Fields
  BY <1>1 DEF Keeps, ExtendedFields
<1>3. Extends(e, f) /\ Ready(f)
  BY <1>2, ExtendsSelf DEF Ready, Steps
<1>4. Extends(g, f)
  BY <1>3, ExtendsTrans DEF Steps
<1>5. ASSUME Sim(g, r, K, H), Within(f, K, H) PROVE Sim(f, h, K, H)
  <2>1. Sim(e, d, K, H)
    BY <1>3, <1>5, WithinBefore DEF Steps
  <2>2. Keeps(d, h, F)
    BY <2>1 DEF Sim
  <2> QED
    BY <1>5, <2>1, <2>2, SimShared
<1> QED
  BY <1>3, <1>4, <1>5 DEF Steps

LEMMA StepsRetire ==
  ASSUME NEW g, NEW e, NEW r, NEW d, NEW K, NEW H, NEW pc, NEW next, NEW nn,
         NEW pc2, NEW next2, NEW nn2, Steps(g, e, r, d, K, H),
         Sim(g, r, K, H) /\ Within(e, K, H) /\ Sim(e, d, K, H) =>
             pc2 = pc /\ next2 = next /\ nn2 = nn
  PROVE  Steps(g, Retire(e, pc, next, nn), r, Retire(d, pc2, next2, nn2), K, H)
<1> DEFINE f == Retire(e, pc, next, nn)
<1>1. Extends(e, f) /\ Ready(f)
  BY RetireExtends DEF Steps
<1>2. Extends(g, f)
  BY <1>1, ExtendsTrans DEF Steps
<1>3. ASSUME Sim(g, r, K, H), Within(f, K, H)
      PROVE  Sim(f, Retire(d, pc2, next2, nn2), K, H)
  <2>1. Within(e, K, H)
    BY <1>1, <1>3, WithinBefore
  <2>2. Sim(e, d, K, H)
    BY <1>3, <2>1 DEF Steps
  <2> QED
    BY <1>3, <2>1, <2>2, RetireSim
<1> QED
  BY <1>1, <1>2, <1>3 DEF Steps

LEMMA StepsSequential ==
  ASSUME NEW g, NEW e, NEW r, NEW d, NEW K, NEW H, Steps(g, e, r, d, K, H)
  PROVE  Steps(g, Sequential(e), r, Sequential(d), K, H)
<1>1. Sim(e, d, K, H) => d.pc = e.pc /\ d.next_pc = e.next_pc
  BY SimFields
<1> QED
  BY <1>1, StepsRetire DEF Sequential

\* What g has at a, told from a later state that still has it.
LEMMA StepsFirst ==
  ASSUME NEW g, NEW r, NEW K, NEW H, NEW a, NEW v, NEW pos, NEW e, Ready(g),
         Extends(Access(g, a, v, pos), e)
  PROVE  Sim(g, r, K, H) /\ Within(e, K, H) =>
            RecordOf(r, a) = RecordOf(g, a) /\ PeekValue(r, a) = PeekValue(g, a)
BY StepsValue

LEMMA ADDISteps ==
  ASSUME NEW g, NEW r, NEW K, NEW H, Ready(g)
  PROVE  Steps(g, ADDI(g), r, ADDI(r), K, H)
<1> DEFINE x == RecordOf(g, R).value
           y == RecordOf(r, R).value
           v == (x + 1) % 4
           w == (y + 1) % 4
           e == Access(g, R, x, PosB)
           d == Access(r, R, y, PosB)
<1>1. ADDI(g) = Sequential(Access(e, R, v, PosA)) /\ ADDI(r) = Sequential(Access(d, R, w, PosA))
  BY DEF ADDI, Write, Read
<1>2. Steps(g, e, r, d, K, H)
  <2>1. Steps(g, Read(g, R, PosB), r, Read(r, R, PosB), K, H)
    BY StepsNone, StepsRead
  <2> QED
    BY <2>1 DEF Read
<1>3. Sim(g, r, K, H) /\ Within(Access(e, R, v, PosA), K, H) => v = w
  <2> DEFINE f == Access(e, R, v, PosA)
  <2>1. Extends(e, f)
    <3> HIDE DEF e, v
    <3> QED
      BY <1>2, AccessExtends DEF Steps
  <2> HIDE DEF f
  <2>2. Sim(g, r, K, H) /\ Within(f, K, H) => RecordOf(r, R) = RecordOf(g, R)
    <3> HIDE DEF x
    <3> QED
      BY <2>1, StepsFirst
  <2> QED
    BY <2>2 DEF f
<1> HIDE DEF x, y, v, w, e, d
<1>4. Steps(g, Access(e, R, v, PosA), r, Access(d, R, w, PosA), K, H)
  BY <1>2, <1>3, StepsAccess
<1> QED
  BY <1>1, <1>4, StepsSequential

LEMMA PeekReads ==
  ASSUME NEW ex, NEW a, NEW b, DOMAIN ex = Fields
  PROVE  /\ RecordOf(Peek(ex, a), b) = RecordOf(ex, b)
         /\ PeekValue(Peek(ex, a), b) = PeekValue(ex, b)
         /\ Peek(ex, a).memory = ex.memory
<1> DEFINE e == Peek(ex, a)
<1>1. Keeps(ex, e, {"memory_checkpoint"})
  BY PeekFacts
<1> HIDE DEF e
<1>2. e.memory = ex.memory /\ e.uninitialized_memory = ex.uninitialized_memory
  BY <1>1 DEF Keeps, Fields
<1>3. RecordOf(e, b) = RecordOf(ex, b) /\ PeekValue(e, b) = PeekValue(ex, b)
  BY <1>2 DEF RecordOf, PeekValue, InitialValue
<1> QED
  BY <1>2, <1>3 DEF e

LEMMA LWSteps ==
  ASSUME NEW g, NEW r, NEW K, NEW H, NEW a, Ready(g), DOMAIN r = Fields
  PROVE  Steps(g, LW(g, a), r, LW(r, a), K, H)
<1> DEFINE p == Peek(g, R)
           q == Peek(r, R)
           e == Read(p, a, PosMemory)
           d == Read(q, a, PosMemory)
           v == RecordOf(g, a).value
           w == RecordOf(r, a).value
<1>1. LW(g, a) = Sequential(Access(e, R, v, PosA)) /\ LW(r, a) = Sequential(Access(d, R, w, PosA))
  BY DEF LW, Write
<1>2. Steps(g, p, r, q, K, H)
  BY StepsNone, StepsPeek
<1>3. RecordOf(p, a).value = v /\ RecordOf(q, a).value = w
  BY PeekReads DEF Ready
<1> HIDE DEF p, q, v, w
<1>4. Steps(g, e, r, d, K, H)
  BY <1>2, StepsRead
<1>5. e = Access(p, a, v, PosMemory) /\ d = Access(q, a, w, PosMemory)
  BY <1>3 DEF Read
<1> HIDE DEF e, d
<1>6. ASSUME Sim(g, r, K, H), Within(Access(e, R, v, PosA), K, H) PROVE v = w
  <2>1. Ready(p) /\ Extends(e, Access(e, R, v, PosA)) /\ Extends(p, e)
    BY <1>2, <1>4, <1>5, AccessExtends DEF Steps
  <2>2. Within(p, K, H)
    BY <1>6, <2>1, WithinBefore
  <2>3. Sim(p, q, K, H)
    BY <1>2, <1>6, <2>2 DEF Steps
  <2>4. RecordOf(q, a) = RecordOf(p, a)
    BY <1>5, <1>6, <2>1, <2>3, StepsFirst
  <2> QED
    BY <1>3, <2>4
<1>7. Steps(g, Access(e, R, v, PosA), r, Access(d, R, w, PosA), K, H)
  BY <1>4, <1>6, StepsAccess
<1> QED
  BY <1>1, <1>7, StepsSequential

\* A store of what the function store makes of $r and the old word.
LEMMA StoreSteps ==
  ASSUME NEW g, NEW r, NEW K, NEW H, NEW a, NEW v, NEW w, Ready(g), DOMAIN r = Fields,
         RecordOf(r, R) = RecordOf(g, R) /\ PeekValue(r, a) = PeekValue(g, a) => v = w
  PROVE  Steps(g, Sequential(Write(Peek(Read(g, R, PosA), a), a, v, PosMemory)),
               r, Sequential(Write(Peek(Read(r, R, PosA), a), a, w, PosMemory)), K, H)
<1> DEFINE e == Read(g, R, PosA)
           d == Read(r, R, PosA)
           p == Peek(e, a)
           q == Peek(d, a)
           f == Access(p, a, v, PosMemory)
<1>1. Steps(g, e, r, d, K, H)
  BY StepsNone, StepsRead
<1>2. e = Access(g, R, RecordOf(g, R).value, PosA)
  BY DEF Read
<1> HIDE DEF e, d
<1>3. Steps(g, p, r, q, K, H) /\ Extends(e, p)
  BY <1>1, StepsPeek, PeekExtends DEF Steps
<1> HIDE DEF p, q
<1>4. ASSUME Sim(g, r, K, H), Within(f, K, H) PROVE v = w
  <2>1. Extends(p, f) /\ a \in DOMAIN f.memory_checkpoint
    BY <1>3, AccessExtends DEF Steps
  <2>2. Extends(e, f)
    BY <1>3, <2>1, ExtendsTrans
  <2> HIDE DEF f
  <2> DEFINE x == RecordOf(g, R).value
  <2>3. RecordOf(r, R) = RecordOf(g, R)
    <3> HIDE DEF x
    <3> QED
      BY <1>2, <1>4, <2>2, StepsFirst DEF x
  <2>4. a \in K
    BY <1>4, <2>1 DEF Within
  <2>5. PeekValue(r, a) = PeekValue(g, a)
    BY <1>4, <2>4, ReadsSame
  <2> QED
    BY <2>3, <2>5
<1>5. Steps(g, f, r, Access(q, a, w, PosMemory), K, H)
  BY <1>3, <1>4, StepsAccess
<1> HIDE DEF f
<1>6. Steps(g, Sequential(f), r, Sequential(Access(q, a, w, PosMemory)), K, H)
  BY <1>5, StepsSequential
<1> QED
  BY <1>6 DEF f, p, q, e, d, Write

LEMMA SWSteps ==
  ASSUME NEW g, NEW r, NEW K, NEW H, NEW a, Ready(g), DOMAIN r = Fields
  PROVE  Steps(g, SW(g, a), r, SW(r, a), K, H) /\ Steps(g, SB(g, a), r, SB(r, a), K, H)
<1> DEFINE v == RecordOf(g, R).value
           w == RecordOf(r, R).value
           v2 == 2 * (PeekValue(g, a) \div 2) + (RecordOf(g, R).value % 2)
           w2 == 2 * (PeekValue(r, a) \div 2) + (RecordOf(r, R).value % 2)
<1>1. RecordOf(r, R) = RecordOf(g, R) /\ PeekValue(r, a) = PeekValue(g, a) => v = w /\ v2 = w2
  OBVIOUS
<1>2. /\ SW(g, a) = Sequential(Write(Peek(Read(g, R, PosA), a), a, v, PosMemory))
      /\ SW(r, a) = Sequential(Write(Peek(Read(r, R, PosA), a), a, w, PosMemory))
      /\ SB(g, a) = Sequential(Write(Peek(Read(g, R, PosA), a), a, v2, PosMemory))
      /\ SB(r, a) = Sequential(Write(Peek(Read(r, R, PosA), a), a, w2, PosMemory))
  BY DEF SW, SB
<1> HIDE DEF v, w, v2, w2
<1> QED
  BY <1>1, <1>2, StoreSteps

LEMMA BLEZSteps ==
  ASSUME NEW g, NEW r, NEW K, NEW H, NEW target, Ready(g), DOMAIN r = Fields
  PROVE  Steps(g, BLEZ(g, target), r, BLEZ(r, target), K, H)
<1> DEFINE e == Read(g, V0, PosA)
           d == Read(r, V0, PosA)
           f == [e EXCEPT !.next_is_delayslot = TRUE]
           h == [d EXCEPT !.next_is_delayslot = TRUE]
           n == IF RecordOf(g, V0).value = 0 THEN target ELSE g.next_pc + 1
           m == IF RecordOf(r, V0).value = 0 THEN target ELSE r.next_pc + 1
<1>1. Steps(g, e, r, d, K, H)
  BY StepsNone, StepsRead
<1>2. e = Access(g, V0, RecordOf(g, V0).value, PosA)
  BY DEF Read
<1>3. BLEZ(g, target) = Retire(f, g.pc, g.next_pc, n) /\ BLEZ(r, target) = Retire(h, r.pc, r.next_pc, m)
  BY DEF BLEZ
<1>4. ASSUME Sim(g, r, K, H), Within(e, K, H)
      PROVE  r.pc = g.pc /\ r.next_pc = g.next_pc /\ m = n
  <2>1. r.pc = g.pc /\ r.next_pc = g.next_pc
    BY <1>4, SimFields
  <2> DEFINE x == RecordOf(g, V0).value
  <2>2. RecordOf(r, V0) = RecordOf(g, V0)
    <3>1. e = Access(g, V0, x, PosA) /\ Extends(e, e)
      BY <1>2, ExtendsSelf
    <3> HIDE DEF x, e
    <3> QED
      BY <1>4, <3>1, StepsFirst
  <2> QED
    BY <2>1, <2>2
<1> HIDE DEF n, m, e, d
<1> DEFINE F == {"next_is_delayslot"}
<1>5. /\ Keeps(e, f, F) /\ f.next_is_delayslot = TRUE
      /\ DOMAIN d = Fields => Keeps(d, h, F) /\ h.next_is_delayslot = TRUE
  BY <1>1 DEF Steps, Ready, Keeps, Fields
<1>6. F \subseteq SharedFields \ {"unconstrained"}
  BY DEF SharedFields
<1> HIDE DEF f, h
<1>7. Extends(e, f)
  BY <1>5, ExtendsSelf DEF Keeps, ExtendedFields, Fields
<1>8. Steps(g, f, r, h, K, H)
  <2>1. Sim(e, d, K, H) => \A x \in F : h[x] = f[x]
    BY <1>5 DEF Sim
  <2> HIDE DEF F
  <2> QED
    BY <1>1, <1>5, <1>6, <2>1, StepsShared
<1>9. Sim(g, r, K, H) /\ Within(f, K, H) => r.pc = g.pc /\ r.next_pc = g.next_pc /\ m = n
  BY <1>4, <1>7, WithinBefore
<1> QED
  BY <1>3, <1>8, <1>9, StepsRetire

-----------------------------------------------------------------------------
(* Syscalls in step. *)

\* The generator's call y failed, or the replay's call z does the same.
CallSteps(g, y, r, z, K, H) ==
    \/ y.ex.status = "err"
    \/ /\ Steps(g, y.ex, r, z.ex, K, H)
       /\ Sim(g, r, K, H) /\ Within(y.ex, K, H) /\ Sim(y.ex, z.ex, K, H) =>
             z.ret = y.ret /\ z.next = y.next /\ z.cycles = y.cycles

LEMMA StepsSame ==
  ASSUME NEW g, NEW e, NEW r, NEW d, NEW h, NEW K, NEW H, Steps(g, e, r, d, K, H),
         Sim(g, r, K, H) /\ Within(e, K, H) /\ Sim(e, d, K, H) => h = d
  PROVE  Steps(g, e, r, h, K, H)
BY DEF Steps

LEMMA EndSteps ==
  ASSUME NEW g, NEW y, NEW r, NEW z, NEW K, NEW H, CallSteps(g, y, r, z, K, H),
         EndSyscall(y).status # "err"
  PROVE  Steps(g, EndSyscall(y), r, EndSyscall(z), K, H)
<1> DEFINE ex == y.ex
           dx == z.ex
           v == IF y.ret = None THEN SyscallId ELSE y.ret
           w == IF z.ret = None THEN SyscallId ELSE z.ret
           a == Access(ex, V0, v, PosA)
           b == Access(dx, V0, w, PosA)
           e == [a EXCEPT !.clk = @ + y.cycles]
           d == [b EXCEPT !.clk = @ + z.cycles]
           f == Retire(e, ex.pc, y.next, y.next + 1)
           h == Retire(d, dx.pc, z.next, z.next + 1)
<1>1. /\ EndSyscall(y) = IF ex.status = "err" THEN ex ELSE f
      /\ EndSyscall(z) = IF dx.status = "err" THEN dx ELSE h
  BY DEF EndSyscall, Write
<1>2. ex.status # "err"
  BY <1>1
<1>3. /\ Steps(g, ex, r, dx, K, H)
      /\ Sim(g, r, K, H) /\ Within(ex, K, H) /\ Sim(ex, dx, K, H) =>
             z.ret = y.ret /\ z.next = y.next /\ z.cycles = y.cycles
  BY <1>2 DEF CallSteps
<1>4. Sim(g, r, K, H) /\ Within(ex, K, H) =>
         Sim(ex, dx, K, H) /\ v = w /\ z.next = y.next /\ z.cycles = y.cycles
  BY <1>3 DEF Steps
<1> HIDE DEF ex, dx, v, w
<1>5. Extends(ex, a) /\ Ready(a)
  BY <1>3, AccessExtends DEF Steps
<1>6. Steps(g, a, r, b, K, H)
  <2>1. Sim(g, r, K, H) /\ Within(a, K, H) => v = w
    BY <1>4, <1>5, WithinBefore
  <2> QED
    BY <1>3, <2>1, StepsAccess
<1> HIDE DEF a, b
<1> DEFINE F == {"clk"}
<1>7. /\ Keeps(a, e, F) /\ e.clk = a.clk + y.cycles
      /\ DOMAIN b = Fields => Keeps(b, d, F) /\ d.clk = b.clk + z.cycles
  BY <1>5 DEF Keeps, Fields, Ready
<1> HIDE DEF e, d
<1>8. Steps(g, e, r, d, K, H)
  <2>1. F \subseteq SharedFields \ {"unconstrained"}
    BY DEF SharedFields
  <2>2. Extends(a, e)
    BY <1>7, ExtendsSelf DEF Keeps, ExtendedFields, Fields
  <2>3. Within(e, K, H) => Within(ex, K, H)
    BY <1>5, <2>2, WithinBefore
  <2>4. Sim(g, r, K, H) /\ Within(e, K, H) /\ Sim(a, b, K, H) => \A x \in F : d[x] = e[x]
    BY <1>4, <1>7, <2>3, SimFields DEF Sim
  <2> HIDE DEF F
  <2> QED
    BY <1>6, <1>7, <2>1, <2>4, StepsShared
<1>9. Extends(ex, e)
  <2>1. Extends(a, e)
    BY <1>7, ExtendsSelf DEF Keeps, ExtendedFields, Fields
  <2> QED
    BY <1>5, <2>1, ExtendsTrans
<1>10. Sim(g, r, K, H) /\ Within(e, K, H) =>
          dx.pc = ex.pc /\ z.next = y.next /\ dx.status # "err"
  <2>1. Within(e, K, H) => Within(ex, K, H)
    BY <1>9, WithinBefore
  <2> QED
    BY <1>2, <1>4, <2>1, SimFields
<1>11. Steps(g, f, r, h, K, H)
  <2> DEFINE n == y.next + 1
             m == z.next + 1
  <2>1. Sim(g, r, K, H) /\ Within(e, K, H) => dx.pc = ex.pc /\ z.next = y.next /\ m = n
    BY <1>10
  <2> HIDE DEF n, m
  <2>2. Steps(g, Retire(e, ex.pc, y.next, n), r, Retire(d, dx.pc, z.next, m), K, H)
    BY <1>8, <2>1, StepsRetire
  <2> QED
    BY <2>2 DEF n, m
<1>12. Within(f, K, H) => Within(e, K, H)
  <2>1. Extends(e, f)
    BY <1>8, RetireExtends DEF Steps
  <2> QED
    BY <2>1, WithinBefore
<1> HIDE DEF f, h
<1> QED
  BY <1>1, <1>2, <1>10, <1>11, <1>12, StepsSame

\* Fields that Sim and Extends do not mention.
LEMMA StepsSilent ==
  ASSUME NEW g, NEW e, NEW r, NEW d, NEW K, NEW H, NEW F, NEW f, NEW h,
         Steps(g, e, r, d, K, H), F \cap (PlainFields \cup ExtendedFields) = {},
         Keeps(e, f, F), DOMAIN d = Fields => Keeps(d, h, F)
  PROVE  Steps(g, f, r, h, K, H)
<1>1. PlainFields \cup ExtendedFields \subseteq Fields \ F
  BY DEF PlainFields, SharedFields, ExtendedFields, Fields
<1>2. /\ \A x \in ExtendedFields : f[x] = e[x]
      /\ \A x \in PlainFields : f[x] = e[x]
      /\ DOMAIN d = Fields => DOMAIN h = Fields /\ \A x \in PlainFields : h[x] = d[x]
      /\ DOMAIN f = Fields
  BY <1>1 DEF Keeps
<1>3. Extends(e, f)
  BY <1>2, ExtendsSelf
<1>4. Ready(f)
  <2>1. f.mode = e.mode /\ f.unconstrained = e.unconstrained /\ f.fork = e.fork
        /\ f.memory_checkpoint = e.memory_checkpoint
    BY <1>2 DEF PlainFields, SharedFields, ExtendedFields
  <2> QED
    BY <1>2, <2>1 DEF Ready, Steps
<1>5. Sim(g, r, K, H) /\ Within(f, K, H) => Sim(f, h, K, H)
  <2> SUFFICES ASSUME Sim(g, r, K, H), Within(f, K, H) PROVE Sim(f, h, K, H)
    OBVIOUS
  <2>1. Sim(e, d, K, H)
    BY <1>3, WithinBefore DEF Steps
  <2>2. DOMAIN d = Fields
    BY <2>1 DEF Sim
  <2> QED
    BY <1>2, <2>1, <2>2, SimSame
<1> QED
  BY <1>3, <1>4, <1>5, ExtendsTrans DEF Steps

\* A call that returns ret, where the program goes on.
LEMMA RetSteps ==
  ASSUME NEW g, NEW e, NEW r, NEW d, NEW K, NEW H, NEW ret, Steps(g, e, r, d, K, H)
  PROVE  CallSteps(g, Ret(e, ret), r, Ret(d, ret), K, H)
<1> DEFINE y == Ret(e, ret)
           z == Ret(d, ret)
<1>1. /\ y.ex = e /\ y.ret = ret /\ y.next = e.pc + 1 /\ y.cycles = 0
      /\ z.ex = d /\ z.ret = ret /\ z.next = d.pc + 1 /\ z.cycles = 0
  BY DEF Ret
<1> HIDE DEF y, z
<1>2. Sim(e, d, K, H) => d.pc = e.pc
  BY SimFields
<1>3. CallSteps(g, y, r, z, K, H)
  BY <1>1, <1>2 DEF CallSteps
<1> QED
  BY <1>3 DEF y, z

LEMMA CallSame ==
  ASSUME NEW g, NEW y, NEW r, NEW z, NEW z2, NEW K, NEW H, CallSteps(g, y, r, z, K, H),
         Sim(g, r, K, H) /\ Within(y.ex, K, H) => z2 = z
  PROVE  CallSteps(g, y, r, z2, K, H)
BY DEF CallSteps, Steps

LEMMA HaltSteps ==
  ASSUME NEW g, NEW r, NEW K, NEW H, Ready(g)
  PROVE  CallSteps(g, HALT(g), r, HALT(r), K, H)
<1> DEFINE e == [g EXCEPT !.exited = TRUE]
           d == [r EXCEPT !.exited = TRUE]
           F == {"exited"}
<1>1. /\ Keeps(g, e, F) /\ e.exited = TRUE
      /\ DOMAIN r = Fields => Keeps(r, d, F) /\ d.exited = TRUE
      /\ F \subseteq SharedFields \ {"unconstrained"}
  BY DEF Ready, Keeps, Fields, SharedFields
<1>2. /\ HALT(g).ex = e /\ HALT(g).ret = None /\ HALT(g).next = 0 /\ HALT(g).cycles = 0
      /\ HALT(r).ex = d /\ HALT(r).ret = None /\ HALT(r).next = 0 /\ HALT(r).cycles = 0
  BY DEF HALT, Ret
<1> HIDE DEF e, d
<1>3. Steps(g, e, r, d, K, H)
  <2>1. Steps(g, g, r, r, K, H)
    BY StepsNone
  <2>2. Sim(g, r, K, H) => \A x \in F : d[x] = e[x]
    BY <1>1 DEF Sim
  <2> HIDE DEF F
  <2> QED
    BY <1>1, <2>1, <2>2, StepsShared
<1> QED
  BY <1>2, <1>3 DEF CallSteps

LEMMA CommitSteps ==
  ASSUME NEW g, NEW r, NEW K, NEW H, NEW v, NEW w, Ready(g)
  PROVE  /\ CallSteps(g, COMMIT(g, v), r, COMMIT(r, w), K, H)
         /\ CallSteps(g, COMMIT_DEFERRED_PROOFS(g, v), r, COMMIT_DEFERRED_PROOFS(r, w), K, H)
<1> DEFINE e == [g EXCEPT !.digest = v]
           d == [r EXCEPT !.digest = w]
           f == [g EXCEPT !.deferred_digest = v]
           h == [r EXCEPT !.deferred_digest = w]
<1>1. /\ Keeps(g, e, {"digest"}) /\ Keeps(g, f, {"deferred_digest"})
      /\ DOMAIN r = Fields => Keeps(r, d, {"digest"}) /\ Keeps(r, h, {"deferred_digest"})
      /\ {"digest"} \cap (PlainFields \cup ExtendedFields) = {}
      /\ {"deferred_digest"} \cap (PlainFields \cup ExtendedFields) = {}
  BY DEF Ready, Keeps, Fields, SharedFields, PlainFields, ExtendedFields
<1> HIDE DEF e, d, f, h
<1>2. Steps(g, g, r, r, K, H)
  BY StepsNone
<1>3. Steps(g, e, r, d, K, H) /\ Steps(g, f, r, h, K, H)
  <2> DEFINE F == {"digest"}
             G == {"deferred_digest"}
  <2>1. /\ Keeps(g, e, F) /\ Keeps(g, f, G)
        /\ DOMAIN r = Fields => Keeps(r, d, F)
        /\ DOMAIN r = Fields => Keeps(r, h, G)
        /\ F \cap (PlainFields \cup ExtendedFields) = {}
        /\ G \cap (PlainFields \cup ExtendedFields) = {}
    BY <1>1
  <2> HIDE DEF F, G
  <2> QED
    BY <1>2, <2>1, StepsSilent
<1>4. CallSteps(g, Ret(e, None), r, Ret(d, None), K, H)
      /\ CallSteps(g, Ret(f, None), r, Ret(h, None), K, H)
  BY <1>3, RetSteps
<1> QED
  BY <1>4 DEF COMMIT, COMMIT_DEFERRED_PROOFS, e, d, f, h

\* Only the generator verifies.
LEMMA VerifySteps ==
  ASSUME NEW g, NEW r, NEW K, NEW H, NEW a, Ready(g)
  PROVE  CallSteps(g, VERIFY_ZKM_PROOF(g, a), r, VERIFY_ZKM_PROOF(r, a), K, H)
<1> DEFINE n == g.proof_stream_ptr + 1
           p == Peek(g, a)
           e == [p EXCEPT !.proof_stream_ptr = n]
<1>1. VERIFY_ZKM_PROOF(g, a) \in {Ret(g, None), Ret(Err(g), None), Ret(e, None)}
  BY DEF VERIFY_ZKM_PROOF
<1>2. Sim(g, r, K, H) => VERIFY_ZKM_PROOF(r, a) = Ret(r, None)
  BY DEF VERIFY_ZKM_PROOF, Sim
<1>3. Steps(g, g, r, r, K, H)
  BY StepsNone
<1>4. Steps(g, e, r, r, K, H)
  <2>1. Extends(g, p) /\ Ready(p) /\ Keeps(g, p, {"memory_checkpoint"})
    BY PeekExtends, PeekFacts DEF Ready
  <2> HIDE DEF p, n
  <2>2. Keeps(p, e, {"proof_stream_ptr"})
    BY <2>1 DEF Keeps, Fields
  <2> HIDE DEF e
  <2>3. /\ \A f \in ExtendedFields : e[f] = p[f]
        /\ \A f \in PlainFields : e[f] = g[f]
        /\ DOMAIN e = Fields
    BY <2>1, <2>2 DEF Keeps, PlainFields, SharedFields, Fields, ExtendedFields
  <2>4. Extends(p, e)
    BY <2>3, ExtendsSelf
  <2>5. Ready(e)
    <3>1. e.mode = p.mode /\ e.unconstrained = p.unconstrained /\ e.fork = p.fork
          /\ e.memory_checkpoint = p.memory_checkpoint
      BY <2>2 DEF Keeps, Fields
    <3> QED
      BY <2>1, <2>3, <3>1 DEF Ready
  <2>6. Sim(g, r, K, H) => Sim(e, r, K, H)
    <3> SUFFICES ASSUME Sim(g, r, K, H) PROVE Sim(e, r, K, H)
      OBVIOUS
    <3>1. DOMAIN r = Fields
      BY DEF Sim
    <3> QED
      BY <2>3, <3>1, SimSame
  <2> QED
    BY <2>1, <2>4, <2>5, <2>6, ExtendsTrans DEF Steps
<1> HIDE DEF e
<1>5. /\ CallSteps(g, Ret(g, None), r, Ret(r, None), K, H)
      /\ CallSteps(g, Ret(e, None), r, Ret(r, None), K, H)
  BY <1>3, <1>4, RetSteps
<1>6. CallSteps(g, Ret(Err(g), None), r, Ret(r, None), K, H)
  BY DEF CallSteps, Ret, Err, Ready, Fields
<1>7. CallSteps(g, VERIFY_ZKM_PROOF(g, a), r, Ret(r, None), K, H)
  BY <1>1, <1>5, <1>6
<1> QED
  BY <1>2, <1>7, CallSame

LEMMA HintLenSteps ==
  ASSUME NEW g, NEW r, NEW K, NEW H, Ready(g)
  PROVE  CallSteps(g, HINT_LEN(g), r, HINT_LEN(r), K, H)
<1>1. CASE HINT_LEN(g) = Ret(Err(g), None)
  BY <1>1 DEF CallSteps, Ret, Err, Ready, Fields
<1>2. CASE HINT_LEN(g) # Ret(Err(g), None)
  <2>1. HINT_LEN(g) = Ret(g, 1) /\ (Sim(g, r, K, H) => HINT_LEN(r) = Ret(r, 1))
    BY <1>2, SimFields DEF HINT_LEN
  <2>2. CallSteps(g, Ret(g, 1), r, Ret(r, 1), K, H)
    BY StepsNone, RetSteps
  <2> QED
    BY <2>1, <2>2, CallSame
<1> QED
  BY <1>1, <1>2

\* A word that is looked at goes into one of the streams.
LEMMA StreamSteps ==
  ASSUME NEW g, NEW r, NEW K, NEW H, NEW a, NEW x, NEW y,
         NEW f \in {"input_stream", "public_values_stream"}, Ready(g),
         Sim(g, r, K, H) /\ a \in K => x = y
  PROVE  Steps(g, [Peek(g, a) EXCEPT ![f] = x], r, [Peek(r, a) EXCEPT ![f] = y], K, H)
<1> DEFINE p == Peek(g, a)
           q == Peek(r, a)
           e == [p EXCEPT ![f] = x]
           d == [q EXCEPT ![f] = y]
           F == {f}
<1>1. Steps(g, p, r, q, K, H) /\ a \in DOMAIN p.memory_checkpoint
  BY StepsNone, StepsPeek, PeekExtends
<1>2. F \subseteq SharedFields \ {"unconstrained"} /\ f \in Fields
  BY DEF SharedFields, Fields
<1> HIDE DEF p, q
<1>3. /\ Keeps(p, e, F) /\ e[f] = x
      /\ DOMAIN q = Fields => Keeps(q, d, F) /\ d[f] = y
  BY <1>1, <1>2 DEF Keeps, Steps, Ready
<1>4. e.memory_checkpoint = p.memory_checkpoint
  BY <1>3 DEF Keeps, Fields
<1> HIDE DEF e, d
<1>5. Sim(g, r, K, H) /\ Within(e, K, H) /\ Sim(p, q, K, H) => \A z \in F : d[z] = e[z]
  BY <1>1, <1>3, <1>4 DEF Sim, Within
<1> HIDE DEF F
<1>6. Steps(g, e, r, d, K, H)
  BY <1>1, <1>2, <1>3, <1>5, StepsShared
<1> QED
  BY <1>6 DEF e, d, p, q

\* The hook's answer is the same if its descriptor is a default one.
DefaultHook(i) == i.op = "WRITE_HOOK" /\ i.fd \in ContextHooks => i.fd \in DefaultHooks

LEMMA WriteSteps ==
  ASSUME NEW g, NEW r, NEW K, NEW H, NEW a, Ready(g), DOMAIN r = Fields
  PROVE  /\ CallSteps(g, WRITE_HINT(g, a), r, WRITE_HINT(r, a), K, H)
         /\ CallSteps(g, WRITE_PUBLIC_VALUES(g, a), r, WRITE_PUBLIC_VALUES(r, a), K, H)
         /\ \A fd : (fd \in ContextHooks => fd \in DefaultHooks) =>
               CallSteps(g, WRITE_HOOK(g, a, fd), r, WRITE_HOOK(r, a, fd), K, H)
<1> DEFINE p == Peek(g, a)
           q == Peek(r, a)
<1>1. Keeps(g, p, {"memory_checkpoint"}) /\ Keeps(r, q, {"memory_checkpoint"})
  BY PeekFacts DEF Ready
<1>2. /\ p.input_stream = g.input_stream /\ p.public_values_stream = g.public_values_stream
      /\ q.input_stream = r.input_stream /\ q.public_values_stream = r.public_values_stream
  <2> HIDE DEF p, q
  <2> QED
    BY <1>1 DEF Keeps, Fields
<1>3. Sim(g, r, K, H) /\ a \in K =>
        /\ PeekValue(r, a) = PeekValue(g, a) /\ r.input_stream = g.input_stream
        /\ r.public_values_stream = g.public_values_stream
        /\ r.input_stream_ptr = g.input_stream_ptr
  BY SimFields, ReadsSame
<1>4. CallSteps(g, WRITE_HINT(g, a), r, WRITE_HINT(r, a), K, H)
  <2> DEFINE x == Append(g.input_stream, PeekValue(g, a))
             y == Append(r.input_stream, PeekValue(r, a))
             f == "input_stream"
  <2>1. /\ WRITE_HINT(g, a) = Ret([p EXCEPT ![f] = x], None)
        /\ WRITE_HINT(r, a) = Ret([q EXCEPT ![f] = y], None)
    <3> HIDE DEF p, q
    <3> QED
      BY <1>2 DEF WRITE_HINT, p, q
  <2>2. Sim(g, r, K, H) /\ a \in K => x = y
    BY <1>3
  <2> HIDE DEF x, y
  <2>3. Steps(g, [p EXCEPT ![f] = x], r, [q EXCEPT ![f] = y], K, H)
    BY <2>2, StreamSteps
  <2> QED
    BY <2>1, <2>3, RetSteps
<1>5. CallSteps(g, WRITE_PUBLIC_VALUES(g, a), r, WRITE_PUBLIC_VALUES(r, a), K, H)
  <2> DEFINE x == Append(g.public_values_stream, PeekValue(g, a))
             y == Append(r.public_values_stream, PeekValue(r, a))
             f == "public_values_stream"
  <2>1. /\ WRITE_PUBLIC_VALUES(g, a) = Ret([p EXCEPT ![f] = x], None)
        /\ WRITE_PUBLIC_VALUES(r, a) = Ret([q EXCEPT ![f] = y], None)
    <3> HIDE DEF p, q
    <3> QED
      BY <1>2 DEF WRITE_PUBLIC_VALUES, p, q
  <2>2. Sim(g, r, K, H) /\ a \in K => x = y
    BY <1>3
  <2> HIDE DEF x, y
  <2>3. Steps(g, [p EXCEPT ![f] = x], r, [q EXCEPT ![f] = y], K, H)
    BY <2>2, StreamSteps
  <2> QED
    BY <2>1, <2>3, RetSteps
<1>6. ASSUME NEW fd, fd \in ContextHooks => fd \in DefaultHooks
      PROVE  CallSteps(g, WRITE_HOOK(g, a, fd), r, WRITE_HOOK(r, a, fd), K, H)
  <2> DEFINE m == g.input_stream_ptr
             n == r.input_stream_ptr
             x == SubSeq(g.input_stream, 1, m) \o <<3>>
                  \o SubSeq(g.input_stream, m + 1, Len(g.input_stream))
             y == SubSeq(r.input_stream, 1, n) \o <<3>>
                  \o SubSeq(r.input_stream, n + 1, Len(r.input_stream))
             f == "input_stream"
             e == [p EXCEPT ![f] = x]
             d == [q EXCEPT ![f] = y]
  <2>1. /\ WRITE_HOOK(g, a, fd) = Ret(IF fd \in g.hooks THEN e ELSE p, None)
        /\ WRITE_HOOK(r, a, fd) = Ret(IF fd \in r.hooks THEN d ELSE q, None)
    <3> HIDE DEF p, q
    <3> QED
      BY <1>2 DEF WRITE_HOOK, p, q
  <2>2. Sim(g, r, K, H) /\ a \in K => x = y
    BY <1>3
  <2> HIDE DEF x, y
  <2>3. Steps(g, e, r, d, K, H)
    BY <2>2, StreamSteps
  <2>4. Steps(g, p, r, q, K, H)
    BY StepsNone, StepsPeek
  <2> HIDE DEF e, d, p, q
  <2>5. /\ CallSteps(g, Ret(e, None), r, Ret(d, None), K, H)
        /\ CallSteps(g, Ret(p, None), r, Ret(q, None), K, H)
    BY <2>3, <2>4, RetSteps
  <2>6. Sim(g, r, K, H) => (fd \in r.hooks <=> fd \in g.hooks)
    BY <1>6, ExecutorAssumption DEF Sim
  <2>7. CASE fd \in g.hooks
    <3>1. Sim(g, r, K, H) => WRITE_HOOK(r, a, fd) = Ret(d, None)
      BY <2>1, <2>6, <2>7
    <3>2. CallSteps(g, WRITE_HOOK(g, a, fd), r, Ret(d, None), K, H)
      BY <2>1, <2>5, <2>7
    <3> QED
      BY <3>1, <3>2, CallSame
  <2>8. CASE fd \notin g.hooks
    <3>1. Sim(g, r, K, H) => WRITE_HOOK(r, a, fd) = Ret(q, None)
      BY <2>1, <2>6, <2>8
    <3>2. CallSteps(g, WRITE_HOOK(g, a, fd), r, Ret(q, None), K, H)
      BY <2>1, <2>5, <2>8
    <3> QED
      BY <3>1, <3>2, CallSame
  <2> QED
    BY <2>7, <2>8
<1> QED
  BY <1>4, <1>5, <1>6

LEMMA HintReadSteps ==
  ASSUME NEW g, NEW r, NEW K, NEW H, NEW a, Ready(g), DOMAIN r = Fields
  PROVE  CallSteps(g, HINT_READ(g, a), r, HINT_READ(r, a), K, H)
<1> DEFINE x == g.input_stream[g.input_stream_ptr + 1]
           y == r.input_stream[r.input_stream_ptr + 1]
           no(ex) == \/ ex.input_stream_ptr >= Len(ex.input_stream)
                     \/ a \in DOMAIN ex.uninitialized_memory
           n == g.input_stream_ptr + 1
           m == r.input_stream_ptr + 1
           gm == OrInsert(g.uninitialized_memory_checkpoint, a, FALSE)
           rm == OrInsert(r.uninitialized_memory_checkpoint, a, FALSE)
           gu == Insert(g.uninitialized_memory, a, x)
           ru == Insert(r.uninitialized_memory, a, y)
           e == [g EXCEPT !.input_stream_ptr = n, !.uninitialized_memory_checkpoint = gm,
                          !.uninitialized_memory = gu]
           d == [r EXCEPT !.input_stream_ptr = m, !.uninitialized_memory_checkpoint = rm,
                          !.uninitialized_memory = ru]
<1>1. /\ HINT_READ(g, a) = IF no(g) THEN Ret(Err(g), None) ELSE Ret(e, None)
      /\ HINT_READ(r, a) = IF no(r) THEN Ret(Err(r), None) ELSE Ret(d, None)
  BY DEF HINT_READ
<1>2. CASE no(g)
  BY <1>1, <1>2 DEF CallSteps, Ret, Err, Ready, Fields
<1>3. CASE ~no(g)
  <2>1. ASSUME Sim(g, r, K, H) PROVE ~no(r) /\ x = y /\ n = m
    <3>1. r.input_stream = g.input_stream /\ r.input_stream_ptr = g.input_stream_ptr
      BY <2>1, SimFields
    <3>2. DOMAIN r.uninitialized_memory \subseteq DOMAIN g.uninitialized_memory
      BY <2>1 DEF Sim, SameHints
    <3> QED
      BY <1>3, <3>1, <3>2
  <2>2. a \notin DOMAIN g.uninitialized_memory
    BY <1>3
  <2>3. /\ DOMAIN gm = DOMAIN g.uninitialized_memory_checkpoint \cup {a}
        /\ \A b \in DOMAIN gm :
              gm[b] = IF b \in DOMAIN g.uninitialized_memory_checkpoint
                      THEN g.uninitialized_memory_checkpoint[b] ELSE InitialValue(g, b) # 0
    BY <2>2 DEF OrInsert, InitialValue
  <2>4. /\ \A b : b # a => SameAt(gu, g.uninitialized_memory, b)
        /\ DOMAIN gu = DOMAIN g.uninitialized_memory \cup {a} /\ gu[a] = x
        /\ \A b : b # a => SameAt(ru, r.uninitialized_memory, b)
        /\ DOMAIN ru = DOMAIN r.uninitialized_memory \cup {a} /\ ru[a] = y
    BY DEF Insert, SameAt
  <2> DEFINE F == {"input_stream_ptr", "uninitialized_memory_checkpoint", "uninitialized_memory"}
  <2>5. /\ Keeps(g, e, F) /\ e.input_stream_ptr = n /\ e.uninitialized_memory = gu
        /\ e.uninitialized_memory_checkpoint = gm
        /\ Keeps(r, d, F) /\ d.input_stream_ptr = m /\ d.uninitialized_memory = ru
    <3> HIDE DEF n, m, gm, rm, gu, ru
    <3> QED
      BY DEF Ready, Keeps, Fields
  <2> HIDE DEF e, d, n, m, gm, gu, ru, rm, x, y
  <2>6. /\ e.memory = g.memory /\ e.memory_checkpoint = g.memory_checkpoint
        /\ e.mode = g.mode /\ e.unconstrained = g.unconstrained /\ e.fork = g.fork
        /\ d.memory = r.memory /\ d.mode = r.mode /\ d.fork = r.fork
        /\ e.records = g.records /\ d.records = r.records
        /\ d.verify_deferred = r.verify_deferred /\ d.hooks = r.hooks /\ e.hooks = g.hooks
        /\ DOMAIN e = Fields /\ DOMAIN d = Fields
    BY <2>5 DEF Keeps, Fields
  <2>7. Extends(g, e)
    <3>1. \A b : b \notin DOMAIN gm => SameAt(gu, g.uninitialized_memory, b)
      BY <2>3, <2>4
    <3>2. \A b \in DOMAIN g.uninitialized_memory :
             b \in DOMAIN gu /\ gu[b] = g.uninitialized_memory[b]
      BY <2>2, <2>4 DEF SameAt
    <3> QED
      BY <2>3, <2>5, <2>6, <3>1, <3>2 DEF Extends, SameAt
  <2>8. Ready(e)
    BY <2>6 DEF Ready
  <2>9. ASSUME Sim(g, r, K, H) PROVE Sim(e, d, K, H)
    <3>1. \A f \in SharedFields : d[f] = e[f]
      <4>1. ASSUME NEW f \in SharedFields PROVE d[f] = e[f]
        <5>1. CASE f = "input_stream_ptr"
          BY <2>1, <2>5, <2>9, <5>1
        <5>2. CASE f # "input_stream_ptr"
          <6>1. f \in Fields \ F
            BY <5>2 DEF SharedFields, Fields
          <6> QED
            BY <2>5, <2>9, <6>1 DEF Keeps, Sim
        <5> QED
          BY <5>1, <5>2
      <4> QED
        BY <4>1
    <3>2. SameMemory(e, d, K) /\ SameBlock(e, d, K)
      BY <2>6, <2>9 DEF Sim, SameMemory, SameBlock
    <3>3. SameHints(e, d, H)
      <4>1. /\ DOMAIN r.uninitialized_memory \subseteq DOMAIN g.uninitialized_memory
            /\ \A b \in H : InitialValue(r, b) = InitialValue(g, b)
        BY <2>9 DEF Sim, SameHints
      <4>2. DOMAIN ru \subseteq DOMAIN gu
        BY <2>4, <4>1
      <4>3. InitialValue(d, a) = InitialValue(e, a)
        BY <2>1, <2>4, <2>5, <2>9 DEF InitialValue
      <4>4. \A b : b # a => /\ InitialValue(e, b) = InitialValue(g, b)
                            /\ InitialValue(d, b) = InitialValue(r, b)
        BY <2>4, <2>5 DEF InitialValue, SameAt
      <4> QED
        BY <2>5, <4>1, <4>2, <4>3, <4>4 DEF SameHints
    <3> QED
      BY <2>6, <2>9, <3>1, <3>2, <3>3 DEF Sim
  <2>10. Steps(g, e, r, d, K, H)
    BY <2>7, <2>8, <2>9 DEF Steps
  <2>11. CallSteps(g, HINT_READ(g, a), r, Ret(d, None), K, H)
    BY <1>1, <1>3, <2>10, RetSteps
  <2> QED
    BY <1>1, <2>1, <2>11, CallSame
<1> QED
  BY <1>2, <1>3

LEMMA PrecompileSteps ==
  ASSUME NEW g, NEW r, NEW K, NEW H, NEW a, Ready(g), DOMAIN r = Fields
  PROVE  CallSteps(g, PRECOMPILE(g, a), r, PRECOMPILE(r, a), K, H)
<1> DEFINE v == (RecordOf(g, a).value + 1) % 4
           w == (RecordOf(r, a).value + 1) % 4
           e == SyscallWrite(g, a, v)
           d == SyscallWrite(r, a, w)
           y == PRECOMPILE(g, a)
           z == PRECOMPILE(r, a)
           t == g.clk
<1>1. /\ y.ex = e /\ y.ret = None /\ y.next = e.pc + 1 /\ y.cycles = 1
      /\ z.ex = d /\ z.ret = None /\ z.next = d.pc + 1 /\ z.cycles = 1
  BY DEF PRECOMPILE, Ret
<1>2. e = Touch(g, a, v, t, TRUE)
  <2>1. ~Tracing(g)
    BY DEF Ready, Tracing
  <2> QED
    BY <2>1 DEF SyscallWrite, WithSyscallEvent
<1>3. /\ Extends(g, e) /\ Ready(e) /\ a \in DOMAIN e.memory_checkpoint
      /\ a \in DOMAIN g.memory \/ a \in DOMAIN e.uninitialized_memory_checkpoint
  <2> HIDE DEF v, t, e
  <2> QED
    BY <1>2, TouchExtends
<1>4. ASSUME Sim(g, r, K, H), Within(e, K, H) PROVE Sim(e, d, K, H)
  <2>1. a \in K /\ (a \in DOMAIN g.memory \/ a \in H)
    BY <1>3, <1>4 DEF Within
  <2>2. v = w
    BY <1>4, <2>1, ReadsSame
  <2> HIDE DEF v, w
  <2> QED
    BY <1>4, <2>1, <2>2, SyscallWriteSim
<1> HIDE DEF e, d, y, z
<1>5. Steps(g, e, r, d, K, H)
  BY <1>3, <1>4 DEF Steps
<1>6. CallSteps(g, y, r, z, K, H)
  BY <1>1, <1>5, SimFields DEF CallSteps
<1> QED
  BY <1>6 DEF y, z

LEMMA EnterSteps ==
  ASSUME NEW g, NEW r, NEW K, NEW H, Ready(g), ~g.unconstrained, DOMAIN r = Fields
  PROVE  CallSteps(g, ENTER_UNCONSTRAINED(g), r, ENTER_UNCONSTRAINED(r), K, H)
<1> DEFINE gf == [global_clk |-> g.global_clk, clk |-> g.clk, pc |-> g.pc,
                  memory_diff |-> Empty, mode |-> g.mode, record |-> g.record]
           rf == [global_clk |-> r.global_clk, clk |-> r.clk, pc |-> r.pc,
                  memory_diff |-> Empty, mode |-> r.mode, record |-> r.record]
           e == [g EXCEPT !.unconstrained = TRUE, !.fork = gf, !.record = NewExecRecord,
                          !.mode = "Simple"]
           d == [r EXCEPT !.unconstrained = TRUE, !.fork = rf, !.record = NewExecRecord,
                          !.mode = "Simple"]
           F == {"unconstrained", "fork", "record", "mode"}
<1>1. ENTER_UNCONSTRAINED(g) = Ret(e, 1) /\ ENTER_UNCONSTRAINED(r) = Ret(d, 1)
  BY DEF ENTER_UNCONSTRAINED
<1>2. /\ DOMAIN gf = ForkFields /\ gf.mode = g.mode /\ gf.memory_diff = Empty
      /\ gf.global_clk = g.global_clk /\ gf.clk = g.clk /\ gf.pc = g.pc
      /\ DOMAIN rf = ForkFields /\ rf.mode = r.mode /\ rf.memory_diff = Empty
      /\ rf.global_clk = r.global_clk /\ rf.clk = r.clk /\ rf.pc = r.pc
  BY DEF ForkFields
<1>3. /\ Keeps(g, e, F) /\ e.unconstrained = TRUE /\ e.fork = gf /\ e.mode = "Simple"
      /\ Keeps(r, d, F) /\ d.unconstrained = TRUE /\ d.fork = rf /\ d.mode = "Simple"
  <2> HIDE DEF gf, rf
  <2> QED
    BY DEF Ready, Keeps, Fields
<1> HIDE DEF e, d, gf, rf
<1>4. /\ DOMAIN e = Fields /\ DOMAIN d = Fields
      /\ e.memory = g.memory /\ d.memory = r.memory
      /\ e.uninitialized_memory = g.uninitialized_memory
      /\ d.uninitialized_memory = r.uninitialized_memory
      /\ e.records = g.records /\ d.records = r.records
      /\ d.verify_deferred = r.verify_deferred /\ d.hooks = r.hooks /\ e.hooks = g.hooks
      /\ \A f \in ExtendedFields : e[f] = g[f]
  BY <1>3 DEF Keeps, Fields, ExtendedFields
<1>5. DOMAIN Empty = {}
  BY DEF Empty
<1>6. Extends(g, e) /\ Ready(e)
  BY <1>2, <1>3, <1>4, <1>5, ExtendsSelf DEF Ready
<1>7. ASSUME Sim(g, r, K, H) PROVE Sim(e, d, K, H)
  <2>1. \A f \in SharedFields : d[f] = e[f]
    <3>1. ASSUME NEW f \in SharedFields PROVE d[f] = e[f]
      <4>1. CASE f = "unconstrained"
        BY <1>3, <4>1
      <4>2. CASE f # "unconstrained"
        <5>1. f \in Fields \ F
          BY <4>2 DEF SharedFields, Fields
        <5> QED
          BY <1>3, <1>7, <5>1 DEF Keeps, Sim
      <4> QED
        BY <4>1, <4>2
    <3> QED
      BY <3>1
  <2>2. SameMemory(e, d, K) /\ SameHints(e, d, H)
    BY <1>4, <1>7 DEF Sim, SameMemory, SameHints, InitialValue
  <2>3. SameBlock(e, d, K)
    <3>1. g.mode = "Checkpoint" /\ r.mode = "Trace"
      BY <1>7 DEF Sim, SameBlock
    <3>2. r.global_clk = g.global_clk /\ r.clk = g.clk /\ r.pc = g.pc
      BY <1>7, SimFields
    <3> QED
      BY <1>2, <1>3, <1>5, <3>1, <3>2 DEF SameBlock
  <2> QED
    BY <1>4, <1>7, <2>1, <2>2, <2>3 DEF Sim
<1>8. Steps(g, e, r, d, K, H)
  BY <1>6, <1>7 DEF Steps
<1> QED
  BY <1>1, <1>8, RetSteps

LEMMA RestoreFacts ==
  ASSUME NEW m, NEW diff, NEW b
  PROVE  /\ b \in DOMAIN Restore(m, diff) <=>
               IF b \in DOMAIN diff THEN diff[b] # None ELSE b \in DOMAIN m
         /\ b \in DOMAIN Restore(m, diff) =>
               Restore(m, diff)[b] = IF b \in DOMAIN diff THEN diff[b] ELSE m[b]
BY DEF Restore

LEMMA ExitSteps ==
  ASSUME NEW g, NEW r, NEW K, NEW H, Ready(g), DOMAIN r = Fields,
         g.unconstrained => g.fork.mode = "Checkpoint"
  PROVE  CallSteps(g, EXIT_UNCONSTRAINED(g), r, EXIT_UNCONSTRAINED(r), K, H)
<1>1. CASE ~g.unconstrained
  <2> DEFINE e == [g EXCEPT !.fork = NoFork]
             d == [r EXCEPT !.fork = NoFork]
  <2>1. /\ EXIT_UNCONSTRAINED(g) = Ret(e, 0)
        /\ Sim(g, r, K, H) => EXIT_UNCONSTRAINED(r) = Ret(d, 0)
    BY <1>1, SimFields DEF EXIT_UNCONSTRAINED
  <2>2. Keeps(g, e, {"fork"}) /\ Keeps(r, d, {"fork"})
    BY DEF Ready, Keeps, Fields
  <2> HIDE DEF e, d
  <2>3. /\ DOMAIN e = Fields /\ DOMAIN d = Fields
        /\ e.memory = g.memory /\ d.memory = r.memory
        /\ e.uninitialized_memory = g.uninitialized_memory
        /\ d.uninitialized_memory = r.uninitialized_memory
        /\ e.mode = g.mode /\ d.mode = r.mode /\ e.unconstrained = g.unconstrained
        /\ e.records = g.records /\ d.records = r.records
        /\ d.verify_deferred = r.verify_deferred /\ d.hooks = r.hooks /\ e.hooks = g.hooks
        /\ \A f \in ExtendedFields : e[f] = g[f]
    BY <2>2 DEF Keeps, Fields, ExtendedFields
  <2>4. Extends(g, e) /\ Ready(e)
    BY <1>1, <2>3, ExtendsSelf DEF Ready
  <2>5. ASSUME Sim(g, r, K, H) PROVE Sim(e, d, K, H)
    <3>1. SharedFields \subseteq Fields \ {"fork"}
      BY DEF SharedFields, Fields
    <3>2. \A f \in SharedFields : d[f] = e[f]
      BY <2>2, <2>5, <3>1 DEF Keeps, Sim
    <3>3. SameMemory(e, d, K) /\ SameHints(e, d, H) /\ SameBlock(e, d, K)
      BY <1>1, <2>3, <2>5 DEF Sim, SameMemory, SameHints, InitialValue, SameBlock
    <3> QED
      BY <2>3, <2>5, <3>2, <3>3 DEF Sim
  <2>6. Steps(g, e, r, d, K, H)
    BY <2>4, <2>5 DEF Steps
  <2>7. CallSteps(g, EXIT_UNCONSTRAINED(g), r, Ret(d, 0), K, H)
    BY <2>1, <2>6, RetSteps
  <2> QED
    BY <2>1, <2>7, CallSame
<1>2. CASE g.unconstrained
  <2> DEFINE y == EXIT_UNCONSTRAINED(g)
             z == EXIT_UNCONSTRAINED(r)
             e == y.ex
             d == z.ex
  <2>1. /\ Keeps(g, e, RestoredFields) /\ e.memory = Restore(g.memory, g.fork.memory_diff)
        /\ e.mode = g.fork.mode /\ ~e.unconstrained /\ y.ret = 0 /\ y.cycles = 0
        /\ e.global_clk = g.fork.global_clk /\ e.clk = g.fork.clk /\ e.pc = g.fork.pc
        /\ y.next = g.fork.pc + 1
    <3> HIDE DEF y
    <3> QED
      BY <1>2, BackFacts DEF Ready, Back, y
  <2>2. r.unconstrained =>
        /\ Keeps(r, d, RestoredFields) /\ d.memory = Restore(r.memory, r.fork.memory_diff)
        /\ d.mode = r.fork.mode /\ ~d.unconstrained /\ z.ret = 0 /\ z.cycles = 0
        /\ d.global_clk = r.fork.global_clk /\ d.clk = r.fork.clk /\ d.pc = r.fork.pc
        /\ z.next = r.fork.pc + 1
    <3> HIDE DEF z
    <3> QED
      BY BackFacts DEF Back, z
  <2> HIDE DEF y, z, e, d
  <2>3. /\ DOMAIN e = Fields /\ e.memory_checkpoint = g.memory_checkpoint
        /\ e.uninitialized_memory = g.uninitialized_memory
        /\ e.uninitialized_memory_checkpoint = g.uninitialized_memory_checkpoint
        /\ e.records = g.records /\ e.hooks = g.hooks
    BY <2>1 DEF Keeps, Fields, RestoredFields
  <2>4. Extends(g, e) /\ Ready(e)
    <3>1. DOMAIN g.fork.memory_diff \subseteq DOMAIN g.memory_checkpoint
      BY <1>2 DEF Ready
    <3>2. \A b : b \notin DOMAIN e.memory_checkpoint => SameAt(e.memory, g.memory, b)
      BY <2>1, <2>3, <3>1, RestoreFacts DEF SameAt
    <3>3. Extends(g, e)
      BY <2>3, <3>2 DEF Extends, SameAt
    <3> QED
      BY <1>2, <2>1, <2>3, <3>3 DEF Ready
  <2>5. ASSUME Sim(g, r, K, H)
        PROVE  Sim(e, d, K, H) /\ z.ret = y.ret /\ z.next = y.next /\ z.cycles = y.cycles
    <3>1. /\ g.mode = "Simple" /\ r.mode = "Simple"
          /\ g.fork.mode = "Checkpoint" /\ r.fork.mode = "Trace"
          /\ r.fork.global_clk = g.fork.global_clk /\ r.fork.clk = g.fork.clk
          /\ r.fork.pc = g.fork.pc /\ r.fork.memory_diff = g.fork.memory_diff
          /\ DOMAIN g.fork.memory_diff \subseteq K
      BY <1>2, <2>5 DEF Sim, SameBlock
    <3>2. r.unconstrained
      BY <1>2, <2>5, SimFields
    <3>3. /\ DOMAIN d = Fields /\ d.records = r.records /\ d.hooks = r.hooks
          /\ d.verify_deferred = r.verify_deferred
          /\ d.uninitialized_memory = r.uninitialized_memory
      BY <2>2, <3>2 DEF Keeps, Fields, RestoredFields
    <3>4. \A f \in SharedFields : d[f] = e[f]
      <4>1. ASSUME NEW f \in SharedFields PROVE d[f] = e[f]
        <5>1. CASE f \in {"global_clk", "clk", "pc", "unconstrained"}
          <6>1. d.unconstrained = e.unconstrained
            BY <2>1, <2>2, <3>2, BackFacts, <1>2 DEF Back, e, d, y, z, Ready
          <6> QED
            BY <2>1, <2>2, <3>1, <3>2, <5>1, <6>1
        <5>2. CASE f \notin {"global_clk", "clk", "pc", "unconstrained"}
          <6>1. f \in Fields \ RestoredFields
            BY <5>2 DEF SharedFields, Fields, RestoredFields
          <6> QED
            BY <2>1, <2>2, <2>5, <3>2, <6>1 DEF Keeps, Sim
        <5> QED
          BY <5>1, <5>2
      <4> QED
        BY <4>1
    <3>5. SameMemory(e, d, K)
      <4>1. DOMAIN r.memory \subseteq K /\ \A b \in K : SameAt(r.memory, g.memory, b)
        BY <2>5 DEF Sim, SameMemory
      <4>2. /\ e.memory = Restore(g.memory, g.fork.memory_diff)
            /\ d.memory = Restore(r.memory, g.fork.memory_diff)
        BY <2>1, <2>2, <3>1, <3>2
      <4>3. \A b \in DOMAIN d.memory : b \in K
        BY <3>1, <4>1, <4>2, RestoreFacts
      <4>4. \A b \in K : SameAt(d.memory, e.memory, b)
        <5>1. ASSUME NEW b \in K PROVE SameAt(d.memory, e.memory, b)
          <6>1. SameAt(r.memory, g.memory, b)
            BY <4>1
          <6>2. b \in DOMAIN d.memory <=> b \in DOMAIN e.memory
            BY <4>2, <6>1, RestoreFacts DEF SameAt
          <6>3. b \in DOMAIN d.memory => d.memory[b] = e.memory[b]
            BY <4>2, <6>1, <6>2, RestoreFacts DEF SameAt
          <6> QED
            BY <6>2, <6>3 DEF SameAt
        <5> QED
          BY <5>1
      <4> QED
        BY <4>3, <4>4 DEF SameMemory
    <3>6. SameHints(e, d, H)
      BY <2>3, <2>5, <3>3 DEF Sim, SameHints, InitialValue
    <3>7. SameBlock(e, d, K)
      BY <2>1, <2>2, <3>1, <3>2 DEF SameBlock
    <3>8. Sim(e, d, K, H)
      BY <2>3, <2>5, <3>3, <3>4, <3>5, <3>6, <3>7 DEF Sim
    <3> QED
      BY <2>1, <2>2, <3>1, <3>2, <3>8
  <2>6. CallSteps(g, y, r, z, K, H)
    <3>1. Steps(g, e, r, d, K, H)
      BY <2>4, <2>5 DEF Steps
    <3> QED
      BY <2>5, <3>1 DEF CallSteps, e, d
  <2> QED
    BY <2>6 DEF y, z
<1> QED
  BY <1>1, <1>2

LEMMA CallStepsAny ==
  ASSUME NEW g, NEW r, NEW K, NEW H, NEW i, Ready(g), DOMAIN r = Fields, Instruction(i),
         DefaultHook(i), i.op \notin {"ADDI", "LW", "SW", "SB", "BLEZ"},
         ~g.unconstrained \/ i.op \in AllowedUnconstrained,
         g.unconstrained => g.fork.mode = "Checkpoint"
  PROVE  CallSteps(g, Syscall(g, i), r, Syscall(r, i), K, H)
<1>1. CASE i.op \in {"WRITE_HINT", "WRITE_PV"}
  <2>1. \/ Syscall(g, i) = WRITE_HINT(g, i.addr) /\ Syscall(r, i) = WRITE_HINT(r, i.addr)
        \/ /\ Syscall(g, i) = WRITE_PUBLIC_VALUES(g, i.addr)
           /\ Syscall(r, i) = WRITE_PUBLIC_VALUES(r, i.addr)
    BY <1>1 DEF Syscall
  <2> QED
    BY <2>1, WriteSteps
<1>2. CASE i.op = "WRITE_HOOK"
  <2>1. /\ Syscall(g, i) = WRITE_HOOK(g, i.addr, i.fd)
        /\ Syscall(r, i) = WRITE_HOOK(r, i.addr, i.fd)
    BY <1>2 DEF Syscall
  <2> QED
    BY <1>2, <2>1, WriteSteps DEF DefaultHook
<1>3. CASE i.op = "EXIT"
  <2>1. Syscall(g, i) = EXIT_UNCONSTRAINED(g) /\ Syscall(r, i) = EXIT_UNCONSTRAINED(r)
    BY <1>3 DEF Syscall
  <2> QED
    BY <2>1, ExitSteps
<1>4. CASE i.op = "ENTER"
  <2>1. Syscall(g, i) = ENTER_UNCONSTRAINED(g) /\ Syscall(r, i) = ENTER_UNCONSTRAINED(r)
    BY <1>4 DEF Syscall
  <2> QED
    BY <1>4, <2>1, EnterSteps DEF AllowedUnconstrained
<1>5. CASE i.op \in {"HALT", "HINT_LEN"}
  <2>1. \/ Syscall(g, i) = HALT(g) /\ Syscall(r, i) = HALT(r)
        \/ Syscall(g, i) = HINT_LEN(g) /\ Syscall(r, i) = HINT_LEN(r)
    BY <1>5 DEF Syscall
  <2> QED
    BY <2>1, HaltSteps, HintLenSteps
<1>6. CASE i.op \in {"COMMIT", "COMMIT_DEFERRED"}
  <2> DEFINE v == g.memory[R].value
             w == r.memory[R].value
  <2>1. \/ Syscall(g, i) = COMMIT(g, v) /\ Syscall(r, i) = COMMIT(r, w)
        \/ /\ Syscall(g, i) = COMMIT_DEFERRED_PROOFS(g, v)
           /\ Syscall(r, i) = COMMIT_DEFERRED_PROOFS(r, w)
    BY <1>6 DEF Syscall
  <2> HIDE DEF v, w
  <2> QED
    BY <2>1, CommitSteps
<1>7. CASE i.op \in {"VERIFY", "HINT_READ", "PRECOMPILE"}
  <2>1. \/ Syscall(g, i) = VERIFY_ZKM_PROOF(g, i.addr) /\ Syscall(r, i) = VERIFY_ZKM_PROOF(r, i.addr)
        \/ Syscall(g, i) = HINT_READ(g, i.addr) /\ Syscall(r, i) = HINT_READ(r, i.addr)
        \/ Syscall(g, i) = PRECOMPILE(g, i.addr) /\ Syscall(r, i) = PRECOMPILE(r, i.addr)
    BY <1>7 DEF Syscall
  <2> QED
    BY <2>1, VerifySteps, HintReadSteps, PrecompileSteps
<1> QED
  BY <1>1, <1>2, <1>3, <1>4, <1>5, <1>6, <1>7 DEF Instruction, OtherOps, AddressOps

LEMMA SoundReady ==
  ASSUME NEW g, NEW s, Sound(g, "Checkpoint", s)
  PROVE  /\ Ready(g) /\ (g.unconstrained => g.fork.mode = "Checkpoint")
         /\ ~g.unconstrained => g.mode = "Checkpoint"
<1>1. /\ DOMAIN g = Fields /\ g.unconstrained \in BOOLEAN /\ OuterMode(g) = "Checkpoint"
      /\ Recorded(g, s)
  BY DEF Sound, Fit, Typed
<1> QED
  BY <1>1 DEF Ready, OuterMode, Recorded

LEMMA SyscallSteps ==
  ASSUME NEW g, NEW s, NEW r, NEW K, NEW H, NEW i, Sound(g, "Checkpoint", s), g.status = "run",
         DOMAIN r = Fields, Instruction(i), DefaultHook(i),
         i.op \notin {"ADDI", "LW", "SW", "SB", "BLEZ"}, SYSCALL(g, i).status # "err"
  PROVE  Steps(g, SYSCALL(g, i), r, SYSCALL(r, i), K, H)
<1> DEFINE e == Caller(g)
           d == Caller(r)
           y == Syscall(e, i)
           z == Syscall(d, i)
<1>1. Calls(g, i, "Checkpoint", s)
  BY SyscallGood
<1>2. /\ SYSCALL(g, i) = EndSyscall(y) /\ Fit(e, "Checkpoint", s, {R}, 3)
      /\ ~g.unconstrained \/ i.op \in AllowedUnconstrained
      /\ e.unconstrained = g.unconstrained
  BY <1>1 DEF Calls, Passes, Along
<1>3. Steps(g, e, r, d, K, H)
  <2>1. Steps(g, g, r, r, K, H)
    BY SoundReady, StepsNone
  <2>2. Steps(g, Peek(g, V0), r, Peek(r, V0), K, H)
    BY <2>1, StepsPeek
  <2> QED
    BY <2>2, StepsRead DEF Caller
<1>4. DOMAIN d = Fields
  <2>1. DOMAIN Peek(r, V0) = Fields
    BY PeekFacts DEF Keeps
  <2> QED
    BY <2>1, AccessKeeps DEF Caller, Read, Keeps
<1>5. Ready(e)
  BY <1>3 DEF Steps
<1>6. e.unconstrained => e.fork.mode = "Checkpoint"
  BY <1>2 DEF Fit, OuterMode
<1>7. CallSteps(e, y, d, z, K, H)
  <2> HIDE DEF e, d
  <2> QED
    BY <1>2, <1>4, <1>5, <1>6, CallStepsAny
<1> HIDE DEF e, d, y, z
<1>8. Steps(e, EndSyscall(y), d, EndSyscall(z), K, H)
  BY <1>2, <1>7, EndSteps
<1>9. Steps(g, EndSyscall(y), r, EndSyscall(z), K, H)
  BY <1>3, <1>8, StepsTrans
<1>10. Sim(g, r, K, H) => SYSCALL(r, i) = EndSyscall(z)
  <2> SUFFICES ASSUME Sim(g, r, K, H) PROVE SYSCALL(r, i) = EndSyscall(z)
    OBVIOUS
  <2>1. r.unconstrained = g.unconstrained
    BY SimFields
  <2> QED
    BY <1>2, <2>1 DEF SYSCALL, Caller, d, z
<1> QED
  BY <1>2, <1>9, <1>10, StepsSame

LEMMA OperationSteps ==
  ASSUME NEW g, NEW s, NEW r, NEW K, NEW H, NEW i, Sound(g, "Checkpoint", s), g.status = "run",
         DOMAIN r = Fields, Instruction(i), DefaultHook(i),
         ExecuteOperation(g, i).status # "err"
  PROVE  Steps(g, ExecuteOperation(g, i), r, ExecuteOperation(r, i), K, H)
<1> DEFINE e == [g EXCEPT !.next_is_delayslot = FALSE]
           d == [r EXCEPT !.next_is_delayslot = FALSE]
           F == {"next_is_delayslot"}
           o == ExecuteOperation(g, i)
           p == ExecuteOperation(r, i)
<1>1. DOMAIN g = Fields
  BY DEF Sound, Fit, Typed
<1>2. /\ Keeps(g, e, F) /\ Keeps(r, d, F) /\ \A x \in F : d[x] = e[x]
      /\ DOMAIN e = Fields /\ DOMAIN d = Fields
  BY <1>1 DEF Keeps, Fields
<1>3. Passes(g, e, "Checkpoint", s, {}, 0)
  BY PassStart, PassSlot DEF Sound
<1>4. e.status = "run" /\ Fit(e, "Checkpoint", s, {}, 0)
  BY <1>3 DEF Passes, Along
<1> HIDE DEF e, d
<1>5. e.unconstrained => Bounded(Back(e), {R}, 3)
  <2> SUFFICES ASSUME e.unconstrained PROVE Bounded(Back(e), {R}, 3)
    OBVIOUS
  <2>1. Stable(g, e) /\ Bounded(Back(g), {R}, 3)
    BY <1>3 DEF Passes, Sound, Along
  <2> QED
    BY <2>1, StableBounded
<1>6. Sound(e, "Checkpoint", s)
  BY <1>4, <1>5 DEF Sound
<1>7. Ready(e)
  BY <1>6, SoundReady
<1>8. Steps(g, e, r, d, K, H)
  <2>1. Steps(g, g, r, r, K, H)
    BY SoundReady, StepsNone
  <2>2. F \subseteq SharedFields \ {"unconstrained"}
    BY DEF SharedFields
  <2> HIDE DEF F
  <2> QED
    BY <1>2, <2>1, <2>2, StepsShared
<1>9. Steps(e, o, d, p, K, H)
  <2>1. CASE i.op = "ADDI"
    <3>1. o = ADDI(e) /\ p = ADDI(d)
      BY <2>1 DEF ExecuteOperation, e, d
    <3> QED
      BY <1>7, <3>1, ADDISteps
  <2>2. CASE i.op \in {"LW", "SW", "SB"}
    <3>1. \/ o = LW(e, i.addr) /\ p = LW(d, i.addr)
          \/ o = SW(e, i.addr) /\ p = SW(d, i.addr)
          \/ o = SB(e, i.addr) /\ p = SB(d, i.addr)
      BY <2>2 DEF ExecuteOperation, e, d
    <3> QED
      BY <1>2, <1>7, <3>1, LWSteps, SWSteps
  <2>3. CASE i.op = "BLEZ"
    <3>1. o = BLEZ(e, i.target) /\ p = BLEZ(d, i.target)
      BY <2>3 DEF ExecuteOperation, e, d
    <3> QED
      BY <1>2, <1>7, <3>1, BLEZSteps
  <2>4. CASE i.op \notin {"ADDI", "LW", "SW", "SB", "BLEZ"}
    <3>1. o = SYSCALL(e, i) /\ p = SYSCALL(d, i)
      BY <2>4 DEF ExecuteOperation, e, d
    <3>2. o.status # "err"
      OBVIOUS
    <3> HIDE DEF o, p
    <3> QED
      BY <1>2, <1>4, <1>6, <2>4, <3>1, <3>2, SyscallSteps
  <2> QED
    BY <2>1, <2>2, <2>3, <2>4
<1> HIDE DEF o, p
<1>10. Steps(g, o, r, p, K, H)
  BY <1>8, <1>9, StepsTrans
<1> QED
  BY <1>10 DEF o, p

-----------------------------------------------------------------------------
(* Clocks and shard boundaries. *)

TimeFields == {"records_clk", "records_clk_index", "clk"}

SameTime(ex, e) == DOMAIN e = Fields /\ \A f \in TimeFields : e[f] = ex[f]

LEMMA KeepsTime ==
  ASSUME NEW ex, NEW e, NEW F, Keeps(ex, e, F), F \cap TimeFields = {}
  PROVE  SameTime(ex, e)
BY DEF SameTime, TimeFields, Keeps, Fields

LEMMA AccessTime ==
  ASSUME NEW ex, NEW a, NEW v, NEW pos, DOMAIN ex = Fields
  PROVE  /\ SameTime(ex, Access(ex, a, v, pos)) /\ SameTime(ex, Peek(ex, a))
         /\ SameTime(ex, Read(ex, a, pos)) /\ SameTime(ex, Write(ex, a, v, pos))
<1>1. ASSUME NEW w PROVE SameTime(ex, Access(ex, a, w, pos))
  BY AccessKeeps, KeepsTime DEF TouchedFields, TimeFields
<1>2. SameTime(ex, Peek(ex, a))
  BY PeekFacts, KeepsTime DEF TimeFields
<1> QED
  BY <1>1, <1>2 DEF Read, Write

LEMMA CallTime ==
  ASSUME NEW ex, NEW i, DOMAIN ex = Fields, Instruction(i),
         i.op \notin {"ADDI", "LW", "SW", "SB", "BLEZ", "ENTER", "EXIT"}
  PROVE  SameTime(ex, Syscall(ex, i).ex) /\ Syscall(ex, i).cycles \in Nat
<1> DEFINE y == Syscall(ex, i)
           a == i.addr
           p == Peek(ex, a)
<1>1. Keeps(ex, p, {"memory_checkpoint"})
  BY PeekFacts
<1>2. SameTime(ex, p) /\ DOMAIN p = Fields
  BY <1>1, KeepsTime DEF TimeFields, SameTime
<1>3. CASE i.op \in {"HALT", "COMMIT", "COMMIT_DEFERRED", "HINT_LEN"}
  <2> DEFINE w == ex.memory[R].value
  <2>1. y \in {HALT(ex), COMMIT(ex, w), COMMIT_DEFERRED_PROOFS(ex, w), HINT_LEN(ex)}
    BY <1>3 DEF Syscall
  <2> HIDE DEF w, y
  <2>2. SameTime(ex, HALT(ex).ex) /\ HALT(ex).cycles = 0
    BY DEF HALT, Ret, SameTime, TimeFields, Fields
  <2>3. SameTime(ex, COMMIT(ex, w).ex) /\ COMMIT(ex, w).cycles = 0
    BY DEF COMMIT, Ret, SameTime, TimeFields, Fields
  <2>4. SameTime(ex, COMMIT_DEFERRED_PROOFS(ex, w).ex) /\ COMMIT_DEFERRED_PROOFS(ex, w).cycles = 0
    BY DEF COMMIT_DEFERRED_PROOFS, Ret, SameTime, TimeFields, Fields
  <2>5. SameTime(ex, HINT_LEN(ex).ex) /\ HINT_LEN(ex).cycles = 0
    BY DEF HINT_LEN, Ret, Err, SameTime, TimeFields, Fields
  <2> QED
    BY <2>1, <2>2, <2>3, <2>4, <2>5 DEF y
<1>4. CASE i.op \in {"VERIFY", "HINT_READ", "PRECOMPILE"}
  <2>1. y \in {VERIFY_ZKM_PROOF(ex, a), HINT_READ(ex, a), PRECOMPILE(ex, a)}
    BY <1>4 DEF Syscall
  <2> HIDE DEF y
  <2>2. SameTime(ex, VERIFY_ZKM_PROOF(ex, a).ex) /\ VERIFY_ZKM_PROOF(ex, a).cycles = 0
    <3> DEFINE n == ex.proof_stream_ptr + 1
               e == [p EXCEPT !.proof_stream_ptr = n]
    <3>1. VERIFY_ZKM_PROOF(ex, a) \in {Ret(ex, None), Ret(Err(ex), None), Ret(e, None)}
      BY DEF VERIFY_ZKM_PROOF
    <3> HIDE DEF n, p
    <3>2. SameTime(ex, e)
      BY <1>2 DEF SameTime, TimeFields, Fields
    <3> HIDE DEF e
    <3>3. SameTime(ex, ex) /\ SameTime(ex, Err(ex))
      BY DEF SameTime, TimeFields, Fields, Err
    <3> QED
      BY <3>1, <3>2, <3>3 DEF Ret
  <2>3. SameTime(ex, HINT_READ(ex, a).ex) /\ HINT_READ(ex, a).cycles = 0
    BY DEF HINT_READ, Ret, Err, SameTime, TimeFields, Fields
  <2>4. SameTime(ex, PRECOMPILE(ex, a).ex) /\ PRECOMPILE(ex, a).cycles = 1
    <3> DEFINE v == (RecordOf(ex, a).value + 1) % 4
               t == Touch(ex, a, v, ex.clk, TRUE)
    <3>1. Touches(ex, t, a, v, ex.clk)
      <4> HIDE DEF v
      <4> QED
        BY TouchFacts
    <3>2. /\ PRECOMPILE(ex, a).ex = WithSyscallEvent(ex, t, a)
          /\ PRECOMPILE(ex, a).cycles = 1
      BY DEF PRECOMPILE, SyscallWrite, Ret
    <3> HIDE DEF v, t
    <3>3. SameTime(ex, t) /\ DOMAIN t = Fields
      BY <3>1 DEF Touches, Keeps, Fields, TouchedFields, SameTime, TimeFields
    <3>4. SameTime(t, WithSyscallEvent(ex, t, a))
      BY <3>3 DEF WithSyscallEvent, Fields, SameTime, TimeFields
    <3> QED
      BY <3>2, <3>3, <3>4 DEF SameTime
  <2> QED
    BY <2>1, <2>2, <2>3, <2>4 DEF y
<1>5. CASE i.op \in {"WRITE_HINT", "WRITE_PV", "WRITE_HOOK"}
  <2>1. y \in {WRITE_HINT(ex, a), WRITE_PUBLIC_VALUES(ex, a), WRITE_HOOK(ex, a, i.fd)}
    BY <1>5 DEF Syscall
  <2> DEFINE n == ex.input_stream_ptr
             said == Append(p.input_stream, PeekValue(ex, a))
             told == Append(p.public_values_stream, PeekValue(ex, a))
             answered == SubSeq(p.input_stream, 1, n) \o <<3>>
                         \o SubSeq(p.input_stream, n + 1, Len(p.input_stream))
             d1 == [p EXCEPT !.input_stream = said]
             d2 == [p EXCEPT !.public_values_stream = told]
             d3 == [p EXCEPT !.input_stream = answered]
  <2>2. /\ WRITE_HINT(ex, a) = Ret(d1, None) /\ WRITE_PUBLIC_VALUES(ex, a) = Ret(d2, None)
        /\ WRITE_HOOK(ex, a, i.fd) \in {Ret(p, None), Ret(d3, None)}
    BY DEF WRITE_HINT, WRITE_PUBLIC_VALUES, WRITE_HOOK
  <2> HIDE DEF p, said, told, answered, y
  <2>3. SameTime(ex, d1) /\ SameTime(ex, d2) /\ SameTime(ex, d3)
    BY <1>2 DEF SameTime, TimeFields, Fields
  <2> HIDE DEF d1, d2, d3
  <2>4. \A d : Ret(d, None).ex = d /\ Ret(d, None).cycles = 0
    BY DEF Ret
  <2> QED
    BY <1>2, <2>1, <2>2, <2>3, <2>4 DEF y
<1> QED
  BY <1>3, <1>4, <1>5 DEF Instruction, OtherOps, AddressOps

\* $v0 is written and the instruction retires.
LEMMA EndTime ==
  ASSUME NEW y, DOMAIN y.ex = Fields, EndSyscall(y).status # "err"
  PROVE  /\ DOMAIN EndSyscall(y) = Fields
         /\ EndSyscall(y).records_clk = y.ex.records_clk
         /\ EndSyscall(y).records_clk_index = y.ex.records_clk_index
         /\ EndSyscall(y).clk = (y.ex.clk + y.cycles) + 5
<1> DEFINE v == IF y.ret = None THEN SyscallId ELSE y.ret
           w == Write(y.ex, V0, v, PosA)
           e == [w EXCEPT !.clk = @ + y.cycles]
           r == Retire(e, y.ex.pc, y.next, y.next + 1)
<1>1. EndSyscall(y) = r
  BY DEF EndSyscall
<1> HIDE DEF v
<1>2. SameTime(y.ex, w) /\ DOMAIN w = Fields
  BY AccessTime DEF SameTime
<1> HIDE DEF w
<1>3. /\ DOMAIN e = Fields /\ e.records_clk = y.ex.records_clk
      /\ e.records_clk_index = y.ex.records_clk_index /\ e.clk = y.ex.clk + y.cycles
  BY <1>2 DEF SameTime, TimeFields, Fields
<1> HIDE DEF e
<1>4. Retired(e, r, y.ex.pc, y.next, y.next + 1)
  BY <1>3, RetireFacts
<1> HIDE DEF r
<1> QED
  BY <1>1, <1>3, <1>4 DEF Retired, Keeps, Fields

\* e is five cycles after ex.
Ticks(ex, e) == /\ DOMAIN e = Fields /\ e.records_clk = ex.records_clk
                /\ e.records_clk_index = ex.records_clk_index /\ e.clk = ex.clk + 5

LEMMA RetireTime ==
  ASSUME NEW ex, NEW e, NEW pc, NEW next, NEW nn, SameTime(ex, e)
  PROVE  Ticks(ex, Retire(e, pc, next, nn)) /\ Ticks(ex, Sequential(e))
<1>1. ASSUME NEW x, NEW y, NEW z PROVE Ticks(ex, Retire(e, x, y, z))
  <2> DEFINE r == Retire(e, x, y, z)
  <2>1. Retired(e, r, x, y, z)
    BY RetireFacts DEF SameTime
  <2> HIDE DEF r
  <2>2. Ticks(ex, r)
    BY <2>1 DEF Retired, Keeps, Fields, SameTime, TimeFields, Ticks
  <2> QED
    BY <2>2 DEF r
<1> QED
  BY <1>1 DEF Sequential

LEMMA SameTimeTrans ==
  ASSUME NEW ex, NEW e, NEW d, SameTime(ex, e), SameTime(e, d)
  PROVE  SameTime(ex, d)
BY DEF SameTime

LEMMA PlainTime ==
  ASSUME NEW ex, NEW a, NEW target, DOMAIN ex = Fields
  PROVE  /\ Ticks(ex, ADDI(ex)) /\ Ticks(ex, LW(ex, a)) /\ Ticks(ex, SW(ex, a))
         /\ Ticks(ex, SB(ex, a)) /\ Ticks(ex, BLEZ(ex, target))
<1>1. ASSUME NEW e, NEW b, SameTime(ex, e) PROVE SameTime(ex, Peek(e, b))
  <2>1. DOMAIN e = Fields
    BY <1>1 DEF SameTime
  <2>2. SameTime(e, Peek(e, b))
    BY <2>1, PeekFacts, KeepsTime DEF TimeFields
  <2> QED
    BY <1>1, <2>2, SameTimeTrans
<1>2. ASSUME NEW e, NEW b, NEW pos, SameTime(ex, e) PROVE SameTime(ex, Read(e, b, pos))
  <2> DEFINE v == RecordOf(e, b).value
  <2>1. DOMAIN e = Fields
    BY <1>2 DEF SameTime
  <2>2. Read(e, b, pos) = Access(e, b, v, pos)
    BY DEF Read
  <2> HIDE DEF v
  <2>3. SameTime(e, Access(e, b, v, pos))
    BY <2>1, AccessTime
  <2> QED
    BY <1>2, <2>2, <2>3, SameTimeTrans
<1>3. ASSUME NEW e, NEW b, NEW v, NEW pos, SameTime(ex, e)
      PROVE  SameTime(ex, Write(e, b, v, pos))
  <2>1. SameTime(e, Write(e, b, v, pos))
    BY <1>3, AccessTime DEF SameTime
  <2> QED
    BY <1>3, <2>1, SameTimeTrans
<1>4. SameTime(ex, ex)
  BY DEF SameTime
<1>5. Ticks(ex, ADDI(ex))
  <2> DEFINE v == (RecordOf(ex, R).value + 1) % 4
  <2>1. ADDI(ex) = Sequential(Write(Read(ex, R, PosB), R, v, PosA))
    BY DEF ADDI
  <2> HIDE DEF v
  <2> QED
    BY <1>2, <1>3, <1>4, <2>1, RetireTime
<1>6. Ticks(ex, LW(ex, a))
  <2> DEFINE v == RecordOf(ex, a).value
  <2>1. LW(ex, a) = Sequential(Write(Read(Peek(ex, R), a, PosMemory), R, v, PosA))
    BY DEF LW
  <2> HIDE DEF v
  <2> QED
    BY <1>1, <1>2, <1>3, <1>4, <2>1, RetireTime
<1>7. Ticks(ex, SW(ex, a)) /\ Ticks(ex, SB(ex, a))
  <2> DEFINE v == RecordOf(ex, R).value
             w == 2 * (PeekValue(ex, a) \div 2) + (RecordOf(ex, R).value % 2)
             p == Peek(Read(ex, R, PosA), a)
  <2>1. /\ SW(ex, a) = Sequential(Write(p, a, v, PosMemory))
        /\ SB(ex, a) = Sequential(Write(p, a, w, PosMemory))
    BY DEF SW, SB
  <2>2. SameTime(ex, p)
    BY <1>1, <1>2, <1>4
  <2> HIDE DEF v, w, p
  <2> QED
    BY <1>3, <2>1, <2>2, RetireTime
<1>8. Ticks(ex, BLEZ(ex, target))
  <2> DEFINE r == Read(ex, V0, PosA)
             e == [r EXCEPT !.next_is_delayslot = TRUE]
             n == IF RecordOf(ex, V0).value = 0 THEN target ELSE ex.next_pc + 1
  <2>1. BLEZ(ex, target) = Retire(e, ex.pc, ex.next_pc, n)
    BY DEF BLEZ
  <2>2. SameTime(ex, r)
    BY <1>2, <1>4
  <2> HIDE DEF r, n
  <2>3. SameTime(ex, e)
    BY <2>2 DEF SameTime, TimeFields, Fields
  <2> HIDE DEF e
  <2> QED
    BY <2>1, <2>3, RetireTime
<1> QED
  BY <1>5, <1>6, <1>7, <1>8

\* The clock outside unconstrained blocks.
OuterClk(ex) == IF ex.unconstrained THEN ex.fork.clk ELSE ex.clk

\* Time has gone on from ex to e, in the same shard.
GoesOn(ex, e) ==
    /\ DOMAIN e = Fields
    /\ e.records_clk = ex.records_clk /\ e.records_clk_index = ex.records_clk_index
    /\ OuterClk(ex) <= OuterClk(e) /\ (~e.unconstrained => OuterClk(ex) < e.clk)

LEMMA BackTime ==
  ASSUME NEW ex, DOMAIN ex = Fields, ex.unconstrained
  PROVE  /\ Back(ex).clk = OuterClk(ex) /\ Back(ex).records_clk = ex.records_clk
         /\ Back(ex).records_clk_index = ex.records_clk_index
<1>1. Keeps(ex, Back(ex), RestoredFields) /\ Back(ex).clk = ex.fork.clk
  BY BackFacts
<1>2. \A f \in {"records_clk", "records_clk_index"} : Back(ex)[f] = ex[f]
  BY <1>1 DEF Keeps, Fields, RestoredFields
<1> QED
  BY <1>1, <1>2 DEF OuterClk

LEMMA StableTime ==
  ASSUME NEW ex, NEW e, DOMAIN ex = Fields, DOMAIN e = Fields, ex.unconstrained, Stable(ex, e)
  PROVE  /\ OuterClk(e) = OuterClk(ex) /\ e.records_clk = ex.records_clk
         /\ e.records_clk_index = ex.records_clk_index
<1>1. e.unconstrained /\ Keeps(Back(ex), Back(e), VolatileFields)
  BY DEF Stable
<1>2. \A f \in TimeFields : Back(e)[f] = Back(ex)[f]
  BY <1>1 DEF Keeps, Fields, VolatileFields, TimeFields
<1> QED
  BY <1>1, <1>2, BackTime DEF TimeFields

LEMMA OperationTime ==
  ASSUME NEW ex, NEW m, NEW s, NEW i, Sound(ex, m, s), ex.status = "run", Instruction(i),
         ExecuteOperation(ex, i).status # "err"
  PROVE  GoesOn(ex, ExecuteOperation(ex, i))
<1> DEFINE d == [ex EXCEPT !.next_is_delayslot = FALSE]
           o == ExecuteOperation(ex, i)
<1>1. Typed(ex) /\ DOMAIN ex = Fields /\ ex.clk \in Nat /\ ex.unconstrained \in BOOLEAN
      /\ (ex.unconstrained => ex.fork.clk \in Nat)
  BY DEF Sound, Fit, Typed, ForkTyped
<1>2. OuterClk(ex) \in Nat
  BY <1>1 DEF OuterClk
<1>3. Sound(o, m, s) /\ DOMAIN o = Fields
  <2>1. Sound(o, m, s)
    BY OperationSound
  <2> HIDE DEF o
  <2> QED
    BY <2>1 DEF Sound, Fit, Typed
<1>4. Passes(ex, d, m, s, {}, 0)
  BY PassStart, PassSlot DEF Sound
<1>5. /\ d.status = "run" /\ Fit(d, m, s, {}, 0) /\ d.unconstrained = ex.unconstrained
      /\ DOMAIN d = Fields /\ SameTime(ex, d) /\ d.clk = ex.clk
  <2>1. Keeps(ex, d, {"next_is_delayslot"})
    BY <1>1 DEF Keeps, Fields
  <2> HIDE DEF d
  <2>2. d.clk = ex.clk
    BY <2>1 DEF Keeps, Fields
  <2> QED
    BY <1>4, <2>1, <2>2, KeepsTime DEF Passes, Along, Fit, Typed, TimeFields
<1>6. ex.unconstrained => Stable(ex, d)
  BY <1>4 DEF Passes
<1>7. Sound(d, m, s)
  <2> SUFFICES ASSUME d.unconstrained PROVE Bounded(Back(d), {R}, 3)
    BY <1>5 DEF Sound
  <2> HIDE DEF d
  <2>1. Stable(ex, d) /\ Bounded(Back(ex), {R}, 3)
    BY <1>5, <1>6 DEF Sound
  <2> QED
    BY <2>1, StableBounded
<1>8. CASE ex.unconstrained /\ i.op # "EXIT"
  <2>1. Stable(ex, o)
    BY <1>8, OperationBlock
  <2>2. o.unconstrained
    BY <2>1 DEF Stable
  <2> HIDE DEF o
  <2>3. /\ OuterClk(o) = OuterClk(ex) /\ o.records_clk = ex.records_clk
        /\ o.records_clk_index = ex.records_clk_index
    BY <1>1, <1>3, <1>8, <2>1, StableTime
  <2> QED
    BY <1>2, <1>3, <2>2, <2>3 DEF GoesOn, o
<1>9. CASE ~ex.unconstrained /\ i.op \in {"ADDI", "LW", "SW", "SB", "BLEZ"}
  <2>1. o \in {ADDI(d), LW(d, i.addr), SW(d, i.addr), SB(d, i.addr), BLEZ(d, i.target)}
    BY <1>9 DEF ExecuteOperation
  <2>2. ~o.unconstrained
    BY <1>9, OperationBlock
  <2> HIDE DEF d, o
  <2>3. Ticks(d, o)
    BY <1>5, <2>1, PlainTime
  <2>4. GoesOn(ex, o)
    BY <1>1, <1>5, <1>9, <2>2, <2>3 DEF Ticks, SameTime, TimeFields, GoesOn, OuterClk
  <2> QED
    BY <2>4 DEF o
<1>10. CASE i.op \notin {"ADDI", "LW", "SW", "SB", "BLEZ"} /\ (ex.unconstrained => i.op = "EXIT")
  <2> DEFINE c == Caller(d)
             y == Syscall(c, i)
  <2>1. o = SYSCALL(d, i) /\ o.status # "err"
    BY <1>10 DEF ExecuteOperation
  <2> HIDE DEF d, o
  <2>2. Calls(d, i, m, s)
    BY <1>5, <1>7, <1>10, <2>1, SyscallGood
  <2>3. /\ o = EndSyscall(y) /\ Passes(d, c, m, s, {R}, 3) /\ GoodCall(y, m, s)
    BY <2>1, <2>2 DEF Calls
  <2>4. SameTime(d, c) /\ DOMAIN c = Fields
    <3>1. Keeps(d, c, TouchedFields \cup {"local_memory_access"})
      BY <1>5, CallerKeeps
    <3> HIDE DEF c
    <3> QED
      BY <3>1, KeepsTime DEF TouchedFields, TimeFields, SameTime
  <2>5. c.clk = ex.clk /\ c.records_clk = ex.records_clk /\ c.records_clk_index = ex.records_clk_index
    BY <1>5, <2>4 DEF SameTime, TimeFields
  <2>6. c.unconstrained = ex.unconstrained
    BY <1>5, <2>3 DEF Passes, Along
  <2>7. ex.unconstrained => c.fork.clk = OuterClk(ex)
    <3> SUFFICES ASSUME ex.unconstrained PROVE c.fork.clk = OuterClk(ex)
      OBVIOUS
    <3>1. Stable(ex, d) /\ Stable(d, c) /\ d.unconstrained
      BY <1>5, <1>6, <2>3 DEF Passes
    <3> HIDE DEF c
    <3>2. OuterClk(d) = OuterClk(ex) /\ OuterClk(c) = OuterClk(d)
      BY <1>1, <1>5, <2>4, <3>1, StableTime
    <3> QED
      BY <2>6, <3>2 DEF OuterClk
  <2> HIDE DEF c
  <2>8. CASE i.op = "ENTER"
    <3>1. ~c.unconstrained /\ ~ex.unconstrained
      BY <1>10, <2>6, <2>8
    <3>2. y = ENTER_UNCONSTRAINED(c)
      BY <2>8 DEF Syscall
    <3>3. /\ DOMAIN y.ex = Fields /\ y.ex.unconstrained /\ y.ex.fork.clk = c.clk
          /\ y.ex.records_clk = c.records_clk /\ y.ex.records_clk_index = c.records_clk_index
          /\ y.ex.clk = c.clk
      <4> DEFINE f == [global_clk |-> c.global_clk, clk |-> c.clk, pc |-> c.pc,
                       memory_diff |-> Empty, mode |-> c.mode, record |-> c.record]
                 e == [c EXCEPT !.unconstrained = TRUE, !.fork = f, !.record = NewExecRecord,
                                !.mode = "Simple"]
      <4>1. y.ex = e
        BY <3>2 DEF ENTER_UNCONSTRAINED, Ret
      <4>2. f.clk = c.clk
        OBVIOUS
      <4> HIDE DEF f, y
      <4>3. /\ DOMAIN e = Fields /\ e.unconstrained /\ e.fork = f
            /\ e.records_clk = c.records_clk /\ e.records_clk_index = c.records_clk_index
            /\ e.clk = c.clk
        BY <2>4 DEF Fields
      <4> QED
        BY <4>1, <4>2, <4>3
    <3> HIDE DEF y
    <3>4. Carries(y.ex, o, m, s)
      BY <2>1, <2>3, EndCarries
    <3>5. Stable(y.ex, o) /\ o.unconstrained
      BY <3>3, <3>4 DEF Carries, Stable
    <3>6. /\ OuterClk(o) = OuterClk(y.ex) /\ o.records_clk = y.ex.records_clk
          /\ o.records_clk_index = y.ex.records_clk_index
      BY <1>3, <3>3, <3>5, StableTime DEF o
    <3>7. GoesOn(ex, o)
      BY <1>1, <1>3, <2>5, <3>1, <3>3, <3>5, <3>6 DEF GoesOn, OuterClk, o
    <3> QED
      BY <3>7 DEF o
  <2>9. CASE i.op = "EXIT"
    <3>1. y = EXIT_UNCONSTRAINED(c)
      BY <2>9 DEF Syscall
    <3>2. CASE c.unconstrained
      <4>1. Keeps(c, y.ex, RestoredFields) /\ y.ex.clk = c.fork.clk /\ y.cycles = 0
        BY <2>4, <3>1, <3>2, BackFacts DEF Back
      <4>2. y.ex.unconstrained = FALSE
        BY <2>4, <3>1, <3>2, BackFacts DEF Back
      <4> HIDE DEF y
      <4>3. /\ DOMAIN y.ex = Fields /\ y.ex.records_clk = c.records_clk
            /\ y.ex.records_clk_index = c.records_clk_index
        BY <4>1 DEF Keeps, Fields, RestoredFields
      <4>4. /\ o.records_clk = y.ex.records_clk /\ o.records_clk_index = y.ex.records_clk_index
            /\ o.clk = (y.ex.clk + y.cycles) + 5
        BY <2>1, <2>3, <4>3, EndTime
      <4>5. ~o.unconstrained
        BY <2>1, <2>3, <4>2, EndCarries DEF Carries
      <4>6. GoesOn(ex, o)
        BY <1>2, <1>3, <2>5, <2>6, <2>7, <3>2, <4>1, <4>3, <4>4, <4>5 DEF GoesOn, OuterClk, o
      <4> QED
        BY <4>6 DEF o
    <3>3. CASE ~c.unconstrained
      <4>1. /\ DOMAIN y.ex = Fields /\ y.ex.records_clk = c.records_clk
            /\ y.ex.records_clk_index = c.records_clk_index /\ y.ex.clk = c.clk
            /\ y.cycles = 0 /\ ~y.ex.unconstrained
        BY <2>4, <3>1, <3>3 DEF EXIT_UNCONSTRAINED, Ret, Fields
      <4> HIDE DEF y
      <4>2. /\ o.records_clk = y.ex.records_clk /\ o.records_clk_index = y.ex.records_clk_index
            /\ o.clk = (y.ex.clk + y.cycles) + 5
        BY <2>1, <2>3, <4>1, EndTime
      <4>3. ~o.unconstrained
        BY <2>1, <2>3, <4>1, EndCarries DEF Carries
      <4>4. GoesOn(ex, o)
        BY <1>1, <1>3, <2>5, <2>6, <3>3, <4>1, <4>2, <4>3 DEF GoesOn, OuterClk, o
      <4> QED
        BY <4>4 DEF o
    <3> QED
      BY <3>2, <3>3
  <2>10. CASE i.op \notin {"ENTER", "EXIT"}
    <3>1. ~ex.unconstrained /\ ~o.unconstrained
      BY <1>10, <2>10, OperationBlock DEF o
    <3>2. SameTime(c, y.ex) /\ y.cycles \in Nat
      BY <1>10, <2>4, <2>10, CallTime
    <3> HIDE DEF y
    <3>3. /\ o.records_clk = y.ex.records_clk /\ o.records_clk_index = y.ex.records_clk_index
          /\ o.clk = (y.ex.clk + y.cycles) + 5
      BY <2>1, <2>3, <3>2, EndTime DEF SameTime
    <3>4. GoesOn(ex, o)
      BY <1>1, <1>3, <2>5, <3>1, <3>2, <3>3 DEF GoesOn, OuterClk, SameTime, TimeFields, o
    <3> QED
      BY <3>4 DEF o
  <2> QED
    BY <2>8, <2>9, <2>10
<1> QED
  BY <1>8, <1>9, <1>10

-----------------------------------------------------------------------------
(* Turns in step. *)

\* Shared fields change alike, others that do not matter change anyhow.
LEMMA SimChange ==
  ASSUME NEW g, NEW r, NEW e, NEW d, NEW K, NEW H, NEW F, NEW G, Sim(g, r, K, H),
         F \subseteq SharedFields \ {"unconstrained"}, G \cap (PlainFields \ {"records"}) = {},
         Keeps(g, e, F \cup G), Keeps(r, d, F \cup G), \A f \in F : d[f] = e[f],
         Len(d.records) = Len(e.records)
  PROVE  Sim(e, d, K, H)
<1>1. /\ PlainFields \ (SharedFields \cup {"records"}) \subseteq Fields \ (F \cup G)
      /\ "unconstrained" \in Fields \ (F \cup G)
      /\ SharedFields \subseteq Fields /\ SharedFields \cap G = {}
  BY DEF PlainFields, SharedFields, Fields
<1>2. /\ e.memory = g.memory /\ d.memory = r.memory
      /\ e.uninitialized_memory = g.uninitialized_memory
      /\ d.uninitialized_memory = r.uninitialized_memory
      /\ e.fork = g.fork /\ d.fork = r.fork /\ e.mode = g.mode /\ d.mode = r.mode
      /\ d.verify_deferred = r.verify_deferred /\ d.hooks = r.hooks /\ e.hooks = g.hooks
      /\ e.unconstrained = g.unconstrained
  BY <1>1 DEF Keeps, PlainFields, SharedFields
<1>3. ASSUME NEW f \in SharedFields PROVE d[f] = e[f]
  BY <1>1, <1>3 DEF Keeps, Sim
<1>4. SameMemory(e, d, K) /\ SameHints(e, d, H) /\ SameBlock(e, d, K)
  BY <1>2 DEF Sim, SameMemory, SameHints, SameBlock, InitialValue
<1> QED
  BY <1>2, <1>3, <1>4 DEF Sim, Keeps

LEMMA CycleForm ==
  ASSUME NEW ex, NEW m, NEW s, NEW i, NEW limit, Sound(ex, m, s), ex.status = "run",
         Instruction(i), ExecuteCycle(ex, i, limit).status # "err"
  PROVE  /\ ExecuteOperation(ex, i).status # "err"
         /\ GoesOn(ex, ExecuteCycle(ex, i, limit))
<1> DEFINE o == ExecuteOperation(ex, i)
           g == [o EXCEPT !.global_clk = @ + 1]
           e == EndCycle(g, limit)
<1>1. ExecuteCycle(ex, i, limit) = e
  BY DEF ExecuteCycle
<1>2. o.status # "err"
  <2> SUFFICES ASSUME o.status = "err" PROVE FALSE
    OBVIOUS
  <2>1. g.status = "err"
    OBVIOUS
  <2>2. e = g
    BY <2>1 DEF EndCycle
  <2> QED
    BY <1>1, <2>1, <2>2
<1>3. GoesOn(ex, o)
  BY <1>2, OperationTime
<1> HIDE DEF o
<1>4. Keeps(o, g, {"global_clk"})
  BY <1>3 DEF GoesOn, Keeps, Fields
<1> HIDE DEF g
<1>5. Keeps(g, e, {"status"})
  BY <1>4 DEF EndCycle, Err, Keeps, Fields
<1> HIDE DEF e
<1>6. Keeps(o, e, {"global_clk", "status"})
  BY <1>4, <1>5 DEF Keeps
<1>7. /\ e.records_clk = o.records_clk /\ e.records_clk_index = o.records_clk_index
      /\ e.clk = o.clk /\ e.unconstrained = o.unconstrained /\ e.fork = o.fork
      /\ DOMAIN e = Fields
  BY <1>6 DEF Keeps, Fields
<1>8. GoesOn(ex, e)
  BY <1>3, <1>7 DEF GoesOn, OuterClk
<1> QED
  BY <1>1, <1>2, <1>8 DEF o

LEMMA CycleSteps ==
  ASSUME NEW g, NEW s, NEW r, NEW K, NEW H, NEW i, Sound(g, "Checkpoint", s), g.status = "run",
         DOMAIN r = Fields, Instruction(i), DefaultHook(i),
         ExecuteCycle(g, i, TRUE).status # "err"
  PROVE  Steps(g, ExecuteCycle(g, i, TRUE), r, ExecuteCycle(r, i, FALSE), K, H)
<1> DEFINE o == ExecuteOperation(g, i)
           p == ExecuteOperation(r, i)
           o1 == [o EXCEPT !.global_clk = @ + 1]
           p1 == [p EXCEPT !.global_clk = @ + 1]
           c == EndCycle(o1, TRUE)
           d == EndCycle(p1, FALSE)
<1>1. /\ ExecuteCycle(g, i, TRUE) = c /\ ExecuteCycle(r, i, FALSE) = d /\ c.status # "err"
  BY DEF ExecuteCycle
<1>2. o.status # "err" /\ DOMAIN o = Fields
  <2>1. o.status # "err"
    BY CycleForm
  <2>2. GoesOn(g, o)
    BY <2>1, OperationTime
  <2> QED
    BY <2>1, <2>2 DEF GoesOn
<1>3. Steps(g, o, r, p, K, H)
  BY <1>2, OperationSteps
<1> HIDE DEF o, p
<1>4. Steps(g, o1, r, p1, K, H)
  <2> DEFINE F == {"global_clk"}
  <2>1. Keeps(o, o1, F) /\ o1.global_clk = o.global_clk + 1
    BY <1>2 DEF Keeps, Fields
  <2>2. DOMAIN p = Fields => Keeps(p, p1, F) /\ p1.global_clk = p.global_clk + 1
    BY DEF Keeps, Fields
  <2>3. Sim(o, p, K, H) => DOMAIN p = Fields /\ p.global_clk = o.global_clk
    BY SimFields DEF Sim
  <2>4. F \subseteq SharedFields \ {"unconstrained"}
    BY DEF SharedFields
  <2> HIDE DEF o1, p1
  <2>5. Sim(o, p, K, H) => \A x \in F : p1[x] = o1[x]
    BY <2>1, <2>2, <2>3
  <2> HIDE DEF F
  <2> QED
    BY <1>3, <2>1, <2>2, <2>4, <2>5, StepsShared
<1>5. DOMAIN o1 = Fields
  BY <1>2
<1> HIDE DEF o1, p1
<1>6. Steps(g, c, r, d, K, H)
  <2> DEFINE F == {"status"}
             done(e) == e.pc = 0 \/ e.exited \/ e.pc > ProgramLength
  <2>1. Keeps(o1, c, F)
    BY <1>5 DEF Keeps, Fields, EndCycle, Err
  <2>2. DOMAIN p1 = Fields => Keeps(p1, d, F)
    BY DEF Keeps, Fields, EndCycle, Err
  <2>3. /\ o1.status # "err" /\ ~(done(o1) /\ o1.unconstrained)
        /\ c.status = IF done(o1) THEN "done" ELSE o1.status
    BY <1>1, <1>5 DEF EndCycle, Err, Fields
  <2>4. ASSUME Sim(o1, p1, K, H) PROVE d.status = c.status
    <3>1. /\ p1.pc = o1.pc /\ p1.exited = o1.exited /\ p1.status = o1.status
          /\ p1.unconstrained = o1.unconstrained /\ DOMAIN p1 = Fields
      BY <2>4, SimFields DEF Sim
    <3>2. d.status = IF done(p1) THEN "done" ELSE p1.status
      BY <2>3, <3>1 DEF EndCycle, Fields
    <3> QED
      BY <2>3, <3>1, <3>2
  <2>5. F \subseteq SharedFields \ {"unconstrained"}
    BY DEF SharedFields
  <2>6. Sim(o1, p1, K, H) => \A x \in F : d[x] = c[x]
    BY <2>4
  <2> HIDE DEF F, c, d
  <2> QED
    BY <1>4, <2>1, <2>2, <2>5, <2>6, StepsShared
<1> QED
  BY <1>1, <1>6

\* A shard ends for both.
LEMMA BumpSim ==
  ASSUME NEW g, NEW r, NEW K, NEW H, Sim(g, r, K, H), Typed(g), Typed(r)
  PROVE  /\ Sim(BumpRecord(g), BumpRecord(r), K, H)
         /\ Sim(EndShard(BumpRecord(g)), EndShard(BumpRecord(r)), K, H)
<1> DEFINE F == {"local_mem"}
           G == {"local_memory_access", "record", "records"}
           e == BumpRecord(g)
           d == BumpRecord(r)
<1>1. /\ DOMAIN g = Fields /\ DOMAIN r = Fields /\ g.records \in Seq(TraceRecord)
      /\ r.records \in Seq(TraceRecord) /\ Len(r.records) = Len(g.records)
  BY DEF Typed, Sim
<1>2. ASSUME NEW x, DOMAIN x = Fields, x.records \in Seq(TraceRecord)
      PROVE  /\ Keeps(x, BumpRecord(x), F \cup G) /\ BumpRecord(x).local_mem = 0
             /\ Len(BumpRecord(x).records) = Len(x.records) + 1
  <2> DEFINE lm == x.local_memory_access
             local == {lm[a] : a \in DOMAIN lm}
             closed == IF x.mode = "Trace" THEN [x.record EXCEPT !.local = @ \cup local]
                       ELSE x.record
             l == IF x.mode = "Trace" THEN Empty ELSE lm
             new == Append(x.records, closed)
             b == [x EXCEPT !.local_mem = 0, !.local_memory_access = l,
                            !.record = NewExecRecord, !.records = new]
  <2>1. BumpRecord(x) = b
    BY DEF BumpRecord
  <2>2. Len(new) = Len(x.records) + 1
    <3> HIDE DEF closed
    <3> QED
      BY <1>2
  <2> HIDE DEF new, l
  <2>3. Keeps(x, b, F \cup G) /\ b.local_mem = 0 /\ b.records = new
    BY <1>2 DEF Keeps, Fields
  <2> QED
    BY <2>1, <2>2, <2>3
<1>3. /\ Keeps(g, e, F \cup G) /\ Keeps(r, d, F \cup G)
      /\ Len(d.records) = Len(e.records) /\ \A f \in F : d[f] = e[f]
  BY <1>1, <1>2
<1> HIDE DEF e, d
<1>4. F \subseteq SharedFields \ {"unconstrained"} /\ G \cap (PlainFields \ {"records"}) = {}
  BY DEF SharedFields, PlainFields
<1> HIDE DEF F, G
<1>5. Sim(e, d, K, H)
  BY <1>3, <1>4, SimChange
<1>6. Sim(EndShard(e), EndShard(d), K, H)
  <2> DEFINE f == [e EXCEPT !.status = "batch"]
             h == [d EXCEPT !.status = "batch"]
             S == {"status"}
  <2>1. d.opts = e.opts /\ DOMAIN e = Fields /\ DOMAIN d = Fields
    BY <1>5, SimFields DEF Sim
  <2>2. Keeps(e, f, S) /\ Keeps(d, h, S) /\ \A x \in S : h[x] = f[x]
    BY <2>1 DEF Keeps, Fields
  <2>3. S \subseteq SharedFields \ {"unconstrained"}
    BY DEF SharedFields
  <2>4. \/ EndShard(e) = e /\ EndShard(d) = d
        \/ EndShard(e) = f /\ EndShard(d) = h
    BY <1>3, <2>1 DEF EndShard
  <2> HIDE DEF f, h, S
  <2>5. Sim(f, h, K, H)
    BY <1>5, <2>2, <2>3, SimShared
  <2> QED
    BY <1>5, <2>4, <2>5
<1> QED
  BY <1>5, <1>6 DEF e, d

\* y is reached after x in the batch: its shard boundaries begin with those of x, and the
\* first one after x lies ahead of x.
Ahead(x, y) ==
    /\ Len(x.records_clk) <= Len(y.records_clk)
    /\ \A j \in 1 .. Len(x.records_clk) : y.records_clk[j] = x.records_clk[j]
    /\ Len(x.records_clk) = Len(y.records_clk) => OuterClk(x) <= OuterClk(y)
    /\ Len(x.records_clk) < Len(y.records_clk) =>
          OuterClk(x) < y.records_clk[Len(x.records_clk) + 1]

\* The clocks and boundaries of ex are numbers.
Clocked(ex) == OuterClk(ex) \in Nat /\ ex.records_clk \in Seq(Nat)

LEMMA AheadSelf ==
  ASSUME NEW x, NEW y, Clocked(x), OuterClk(y) = OuterClk(x), y.records_clk = x.records_clk
  PROVE  Ahead(x, y)
BY DEF Ahead, Clocked

LEMMA AheadTrans ==
  ASSUME NEW x, NEW y, NEW z, Clocked(x), Clocked(y), Clocked(z), Ahead(x, y), Ahead(y, z)
  PROVE  Ahead(x, z)
<1> DEFINE a == Len(x.records_clk)
           b == Len(y.records_clk)
           c == Len(z.records_clk)
<1>1. a \in Nat /\ b \in Nat /\ c \in Nat /\ a <= b /\ b <= c
  BY DEF Clocked, Ahead
<1>2. /\ OuterClk(x) \in Nat /\ OuterClk(y) \in Nat /\ OuterClk(z) \in Nat
      /\ x.records_clk \in Seq(Nat) /\ y.records_clk \in Seq(Nat) /\ z.records_clk \in Seq(Nat)
  BY DEF Clocked
<1>3. \A j \in 1 .. a : z.records_clk[j] = x.records_clk[j]
  BY <1>1 DEF Ahead
<1>4. ASSUME a = c PROVE OuterClk(x) <= OuterClk(z)
  <2>1. a = b /\ b = c
    BY <1>1, <1>4
  <2> QED
    BY <1>2, <2>1 DEF Ahead
<1>5. ASSUME a < c PROVE OuterClk(x) < z.records_clk[a + 1]
  <2>1. CASE a < b
    <3>1. a + 1 \in 1 .. b /\ OuterClk(x) < y.records_clk[a + 1]
      BY <1>1, <2>1 DEF Ahead
    <3>2. z.records_clk[a + 1] = y.records_clk[a + 1]
      BY <3>1 DEF Ahead
    <3> QED
      BY <3>1, <3>2
  <2>2. CASE a = b
    <3>1. OuterClk(x) <= OuterClk(y) /\ OuterClk(y) < z.records_clk[a + 1]
      BY <1>5, <2>2 DEF Ahead
    <3>2. z.records_clk[a + 1] \in Nat
      <4> DEFINE k == a + 1
                 q == z.records_clk
      <4>1. k \in 1 .. Len(q) /\ q \in Seq(Nat)
        BY <1>1, <1>2, <1>5
      <4> HIDE DEF k, q
      <4>2. q[k] \in Nat
        BY <4>1
      <4> QED
        BY <4>2 DEF k, q
    <3> QED
      BY <1>2, <3>1, <3>2
  <2> QED
    BY <1>1, <2>1, <2>2
<1> QED
  BY <1>1, <1>3, <1>4, <1>5 DEF Ahead

LEMMA SoundClocked ==
  ASSUME NEW ex, NEW m, NEW s, Sound(ex, m, s)
  PROVE  OuterClk(ex) \in Nat
<1>1. /\ ex.clk \in Nat /\ ex.unconstrained \in BOOLEAN
      /\ ex.unconstrained => ex.fork.clk \in Nat
  BY DEF Sound, Fit, Typed, ForkTyped
<1> QED
  BY <1>1 DEF OuterClk

BumpFields == {"local_mem", "local_memory_access", "record", "records"}

\* How the generator's turn ends after cycle c.
LEMMA GeneratorTurn ==
  ASSUME NEW c, NEW s, Sound(c, "Checkpoint", s), c.status \in {"run", "done"},
         c.status = "done" => ~c.unconstrained
  PROVE  \/ /\ c.status = "done" /\ EndTurn(c) = BumpRecord(c)
            /\ Keeps(c, EndTurn(c), BumpFields)
         \/ c.status = "run" /\ (~MayCut(c) \/ ~ShardIsFull(c)) /\ EndTurn(c) = c
         \/ /\ c.status = "run" /\ MayCut(c) /\ ShardIsFull(c)
            /\ EndTurn(c) = EndShard(BumpRecord([NextShard(c) EXCEPT
                                         !.records_clk = Append(@, c.clk)]))
            /\ Keeps(c, EndTurn(c), BumpFields \cup {"current_shard", "clk", "records_clk",
                                                     "status"})
            /\ EndTurn(c).records_clk = Append(c.records_clk, c.clk)
            /\ EndTurn(c).clk = 0 /\ EndTurn(c).local_mem = 0
<1> DEFINE y == EndTurn(c)
<1>1. DOMAIN c = Fields
  BY DEF Sound, Fit, Typed
<1>2. CASE c.status = "done"
  <2>1. y = BumpRecord(c)
    BY <1>2 DEF EndTurn
  <2> QED
    BY <1>2, <2>1, BumpSound DEF BumpFields
<1>3. CASE c.status = "run" /\ ~MayCut(c)
  BY <1>3 DEF EndTurn
<1>4. CASE c.status = "run" /\ MayCut(c)
  <2>1. c.mode = "Checkpoint" /\ ~c.unconstrained
    BY <1>4, SoundReady DEF MayCut
  <2>2. CASE ~ShardIsFull(c)
    BY <1>4, <2>1, <2>2 DEF EndTurn, IncShardIfNeed
  <2>3. CASE ShardIsFull(c)
    <3> DEFINE a == Append(c.records_clk, c.clk)
               x == NextShard(c)
               n == [x EXCEPT !.records_clk = Append(@, c.clk)]
               n1 == [c EXCEPT !.current_shard = @ + 1, !.clk = 0, !.records_clk = a]
               b == BumpRecord(n)
               f == [b EXCEPT !.status = "batch"]
    <3>1. IncShardIfNeed(c).cut /\ IncShardIfNeed(c).ex = n
      BY <2>1, <2>3 DEF IncShardIfNeed
    <3>2. y = EndShard(b)
      BY <1>4, <3>1 DEF EndTurn
    <3>3. /\ Keeps(c, n, {"current_shard", "clk", "records_clk", "records_clk_index"})
          /\ n.current_shard = c.current_shard + 1 /\ n.clk = 0
      BY <1>1, <3>1, CutFacts
    <3>4. Keeps(c, n, {"current_shard", "clk", "records_clk"}) /\ n.records_clk = a
      <4>1. Keeps(c, x, {"current_shard", "clk"}) /\ x.records_clk = c.records_clk
        BY <1>1 DEF NextShard, Keeps, Fields
      <4> HIDE DEF x
      <4>2. Keeps(x, n, {"records_clk"}) /\ n.records_clk = Append(x.records_clk, c.clk)
        BY <4>1 DEF Keeps, Fields
      <4> HIDE DEF n
      <4> QED
        BY <4>1, <4>2 DEF Keeps
    <3> HIDE DEF n
    <3>5. Sound(n, "Checkpoint", s)
      BY <2>1, <3>3, ShardSound
    <3>6. ~n.unconstrained
      BY <2>1, <3>3 DEF Keeps, Fields
    <3>7. Keeps(n, b, BumpFields)
      BY <3>5, <3>6, BumpSound DEF BumpFields
    <3>8. b.local_mem = 0
      <4>1. DOMAIN n = Fields
        BY <3>4 DEF Keeps
      <4> QED
        BY <4>1 DEF BumpRecord, Fields
    <3> HIDE DEF b
    <3>9. y \in {b, f}
      BY <3>2 DEF EndShard
    <3>10. Keeps(b, f, {"status"})
      BY <3>7 DEF Keeps, Fields
    <3> HIDE DEF f, a
    <3>11. Keeps(b, y, {"status"})
      BY <3>7, <3>9, <3>10 DEF Keeps
    <3> HIDE DEF y
    <3>12. Keeps(c, y, BumpFields \cup {"current_shard", "clk", "records_clk", "status"})
      BY <3>4, <3>7, <3>11 DEF Keeps
    <3>13. y.clk = 0 /\ y.records_clk = a /\ y.local_mem = 0
      BY <3>3, <3>4, <3>7, <3>8, <3>11 DEF Keeps, Fields, BumpFields
    <3> QED
      BY <1>4, <2>3, <3>2, <3>12, <3>13 DEF y, n, a, b, x
  <2> QED
    BY <2>2, <2>3
<1> QED
  BY <1>2, <1>3, <1>4

Later(x, y) == Extends(x, y) /\ Ahead(x, y)

\* What the generator's turn leads to.
LEMMA TurnLater ==
  ASSUME NEW g, NEW s, NEW i, Sound(g, "Checkpoint", s), g.status = "run", Instruction(i),
         DefaultHook(i), LoopTurn(g, i, TRUE).status # "err", g.records_clk \in Seq(Nat),
         g.records_clk_index = 0
  PROVE  /\ Later(g, LoopTurn(g, i, TRUE)) /\ Clocked(LoopTurn(g, i, TRUE))
         /\ LoopTurn(g, i, TRUE).records_clk_index = 0 /\ LoopTurn(g, i, TRUE).global_clk # 0
         /\ LoopTurn(g, i, TRUE).status = "batch" => LoopTurn(g, i, TRUE).local_mem = 0
<1> DEFINE c == ExecuteCycle(g, i, TRUE)
           y == EndTurn(c)
<1>1. LoopTurn(g, i, TRUE) = y /\ y.status # "err"
  BY DEF LoopTurn
<1>2. c.status # "err"
  <2> SUFFICES ASSUME c.status = "err" PROVE FALSE
    OBVIOUS
  <2> HIDE DEF c
  <2>1. y = c
    BY DEF EndTurn
  <2> QED
    BY <1>1, <2>1
<1>3. ExecInv(c, "Checkpoint", s) /\ c.status # "batch" /\ c.global_clk # 0
  BY <1>2, CycleSound
<1>4. /\ Sound(c, "Checkpoint", s) /\ c.status \in {"run", "done"}
      /\ c.status = "done" => ~c.unconstrained
  BY <1>3 DEF ExecInv
<1>5. GoesOn(g, c)
  BY <1>2, CycleForm
<1>6. Extends(g, c)
  <2>1. Steps(g, c, g, ExecuteCycle(g, i, FALSE), {}, {})
    BY <1>2, CycleSteps DEF Sound, Fit, Typed
  <2> QED
    BY <2>1 DEF Steps
<1>7. Sound(y, "Checkpoint", s)
  BY <1>1, TurnSound DEF ExecInv
<1>8. /\ OuterClk(g) \in Nat /\ OuterClk(c) \in Nat /\ OuterClk(y) \in Nat /\ DOMAIN c = Fields
      /\ c.clk \in Nat
  BY <1>4, <1>7, SoundClocked DEF Sound, Fit, Typed
<1>9. /\ c.records_clk = g.records_clk /\ c.records_clk_index = 0
      /\ OuterClk(g) <= OuterClk(c) /\ (~c.unconstrained => OuterClk(g) < c.clk)
  BY <1>5 DEF GoesOn
<1> DEFINE B == BumpFields \cup {"current_shard", "clk", "records_clk", "status"}
<1>10. \/ c.status = "done" /\ Keeps(c, y, BumpFields)
       \/ y = c
       \/ /\ MayCut(c) /\ Keeps(c, y, B) /\ y.records_clk = Append(c.records_clk, c.clk)
          /\ y.clk = 0 /\ y.local_mem = 0
  BY <1>4, GeneratorTurn
<1> HIDE DEF c, y
<1>11. Keeps(c, y, B)
  BY <1>8, <1>10 DEF Keeps
<1>12. /\ \A f \in ExtendedFields : y[f] = c[f]
       /\ y.records_clk_index = 0 /\ y.global_clk # 0
       /\ y.unconstrained = c.unconstrained /\ y.fork = c.fork
  BY <1>3, <1>9, <1>11 DEF Keeps, Fields, BumpFields, ExtendedFields
<1>13. Extends(g, y)
  BY <1>6, <1>12, ExtendsSelf, ExtendsTrans
<1>14. y.status = "batch" => y.local_mem = 0
  BY <1>4, <1>10 DEF Keeps, Fields, BumpFields
<1>15. Ahead(g, y) /\ y.records_clk \in Seq(Nat)
  <2>1. CASE ~(MayCut(c) /\ y.records_clk = Append(c.records_clk, c.clk))
    <3>1. y.records_clk = c.records_clk /\ y.clk = c.clk
      BY <1>10, <2>1 DEF Keeps, Fields, BumpFields
    <3>2. OuterClk(y) = OuterClk(c)
      BY <1>12, <3>1 DEF OuterClk
    <3> QED
      BY <1>8, <1>9, <3>1, <3>2 DEF Ahead
  <2>2. CASE MayCut(c) /\ y.records_clk = Append(c.records_clk, c.clk)
    <3>1. OuterClk(g) < c.clk
      BY <1>9, <2>2 DEF MayCut
    <3>2. /\ y.records_clk \in Seq(Nat) /\ Len(y.records_clk) = Len(g.records_clk) + 1
          /\ \A j \in 1 .. Len(g.records_clk) : y.records_clk[j] = g.records_clk[j]
          /\ y.records_clk[Len(g.records_clk) + 1] = c.clk
      BY <1>8, <1>9, <2>2
    <3>3. Len(g.records_clk) \in Nat
      OBVIOUS
    <3> QED
      BY <3>1, <3>2, <3>3 DEF Ahead
  <2> QED
    BY <2>1, <2>2
<1> QED
  BY <1>1, <1>6, <1>8, <1>12, <1>13, <1>14, <1>15 DEF Later, Clocked

\* The replay r has the boundaries b of the whole batch, and has passed those that x has.
Cuts(x, r, b) == r.records_clk = b /\ r.records_clk_index = Len(x.records_clk)

\* The replay's turn does what the generator's did, if the boundaries are those of z, which
\* the generator reached later in the batch.
LEMMA TurnSim ==
  ASSUME NEW g, NEW s, NEW r, NEW t, NEW z, NEW K, NEW H, NEW i,
         Sound(g, "Checkpoint", s), g.status = "run", Sound(r, "Trace", t),
         Instruction(i), DefaultHook(i), LoopTurn(g, i, TRUE).status # "err",
         g.records_clk \in Seq(Nat), g.records_clk_index = 0,
         Sim(g, r, K, H), Cuts(g, r, z.records_clk), Clocked(z),
         Ahead(LoopTurn(g, i, TRUE), z), Within(LoopTurn(g, i, TRUE), K, H)
  PROVE  /\ Sim(LoopTurn(g, i, TRUE), LoopTurn(r, i, FALSE), K, H)
         /\ Cuts(LoopTurn(g, i, TRUE), LoopTurn(r, i, FALSE), z.records_clk)
<1> DEFINE c == ExecuteCycle(g, i, TRUE)
           y == EndTurn(c)
           d == ExecuteCycle(r, i, FALSE)
           w == EndTurn(d)
           b == z.records_clk
<1>1. LoopTurn(g, i, TRUE) = y /\ y.status # "err" /\ LoopTurn(r, i, FALSE) = w
  BY DEF LoopTurn
<1>2. c.status # "err"
  <2> SUFFICES ASSUME c.status = "err" PROVE FALSE
    OBVIOUS
  <2> HIDE DEF c
  <2>1. y = c
    BY DEF EndTurn
  <2> QED
    BY <1>1, <2>1
<1>3. ExecInv(c, "Checkpoint", s) /\ c.status # "batch"
  BY <1>2, CycleSound
<1>4. /\ Sound(c, "Checkpoint", s) /\ c.status \in {"run", "done"}
      /\ c.status = "done" => ~c.unconstrained
  BY <1>3 DEF ExecInv
<1>5. GoesOn(g, c)
  BY <1>2, CycleForm
<1>6. /\ c.records_clk = g.records_clk /\ DOMAIN c = Fields /\ Typed(c)
      /\ c.clk \in Nat /\ c.unconstrained \in BOOLEAN
  BY <1>4, <1>5 DEF GoesOn, Sound, Fit, Typed
<1> DEFINE B == BumpFields \cup {"current_shard", "clk", "records_clk", "status"}
           n == [NextShard(c) EXCEPT !.records_clk = Append(@, c.clk)]
<1>7. \/ c.status = "done" /\ y = BumpRecord(c) /\ Keeps(c, y, BumpFields)
      \/ c.status = "run" /\ (~MayCut(c) \/ ~ShardIsFull(c)) /\ y = c
      \/ /\ c.status = "run" /\ MayCut(c) /\ ShardIsFull(c) /\ y = EndShard(BumpRecord(n))
         /\ Keeps(c, y, B) /\ y.records_clk = Append(c.records_clk, c.clk)
  BY <1>4, GeneratorTurn
<1>8. Within(c, K, H)
  <2>1. Keeps(c, y, B)
    BY <1>6, <1>7 DEF Keeps
  <2> HIDE DEF c, y
  <2>2. /\ y.memory_checkpoint = c.memory_checkpoint
        /\ y.uninitialized_memory_checkpoint = c.uninitialized_memory_checkpoint
    BY <2>1 DEF Keeps, Fields, BumpFields
  <2> QED
    BY <1>1, <2>2 DEF Within
<1>9. Sim(c, d, K, H)
  <2>1. DOMAIN r = Fields
    BY DEF Sim
  <2>2. Steps(g, c, r, d, K, H)
    BY <1>2, <2>1, CycleSteps
  <2> QED
    BY <1>8, <2>2 DEF Steps
<1>10. /\ d.status = c.status /\ d.unconstrained = c.unconstrained /\ d.clk = c.clk
       /\ d.next_is_delayslot = c.next_is_delayslot /\ d.opts = c.opts
       /\ d.global_clk = c.global_clk /\ d.local_mem = c.local_mem
       /\ d.current_shard = c.current_shard /\ DOMAIN d = Fields
  <2> HIDE DEF c, d
  <2> QED
    BY <1>9, SimFields DEF Sim
<1>11. r.status = "run"
  BY SimFields
<1>12. Sound(d, "Trace", t) /\ Typed(d) /\ GoesOn(r, d)
  <2>1. d.status # "err"
    BY <1>2, <1>10
  <2>2. ExecInv(d, "Trace", t)
    BY <1>11, <2>1, CycleSound
  <2>3. GoesOn(r, d)
    BY <1>11, <2>1, CycleForm
  <2> QED
    BY <2>2, <2>3 DEF ExecInv, Sound, Fit
<1>13. d.records_clk = b /\ d.records_clk_index = Len(c.records_clk)
  BY <1>6, <1>12 DEF GoesOn, Cuts
<1>14. /\ b \in Seq(Nat) /\ c.records_clk \in Seq(Nat) /\ Ahead(y, z)
  BY <1>1, <1>6 DEF Clocked
<1> HIDE DEF c, d, b
<1>15. MayCut(d) <=> MayCut(c)
  BY <1>10 DEF MayCut
<1>16. ShardIsFull(d) <=> ShardIsFull(c)
  BY <1>10 DEF ShardIsFull
<1>17. MayCut(c) => d.mode = "Trace" /\ c.mode = "Checkpoint"
  BY <1>9 DEF MayCut, Sim, SameBlock
<1>18. CASE c.status = "done" /\ y = BumpRecord(c) /\ Keeps(c, y, BumpFields)
  <2>1. w = BumpRecord(d)
    BY <1>10, <1>18 DEF EndTurn
  <2>2. Sim(y, w, K, H)
    BY <1>6, <1>9, <1>12, <1>18, <2>1, BumpSim
  <2>3. Keeps(d, w, BumpFields)
    BY <1>10, <1>12, <1>18, <1>4, <2>1, BumpSound DEF BumpFields
  <2> HIDE DEF y, w
  <2>4. /\ y.records_clk = c.records_clk /\ w.records_clk = d.records_clk
        /\ w.records_clk_index = d.records_clk_index
    BY <1>18, <2>3 DEF Keeps, Fields, BumpFields
  <2> QED
    BY <1>1, <1>13, <2>2, <2>4 DEF Cuts, b
<1>19. CASE c.status = "run" /\ (~MayCut(c) \/ ~ShardIsFull(c)) /\ y = c
  <2>1. w = d
    <3>1. CASE ~MayCut(c)
      BY <1>10, <1>15, <1>19, <3>1 DEF EndTurn
    <3>2. CASE MayCut(c) /\ ~ShardIsFull(c)
      <4> DEFINE k == d.records_clk_index + 1
                 cut == k <= Len(d.records_clk) /\ d.clk >= d.records_clk[k]
      <4>1. IncShardIfNeed(d).cut = IF d.records_clk # <<>> THEN cut ELSE ShardIsFull(d)
        BY <1>17, <3>2 DEF IncShardIfNeed
      <4>2. ~cut
        <5>1. k = Len(c.records_clk) + 1 /\ Len(c.records_clk) \in Nat /\ Len(b) \in Nat
          BY <1>13, <1>14
        <5>2. OuterClk(c) = c.clk
          BY <3>2 DEF MayCut, OuterClk
        <5>3. Len(c.records_clk) < Len(b) => c.clk < b[k]
          BY <1>14, <1>19, <5>1, <5>2 DEF Ahead, b
        <5>4. k <= Len(b) => b[k] \in Nat
          <6> DEFINE q == k
          <6>1. q \in Nat \ {0}
            BY <5>1
          <6> HIDE DEF q
          <6>2. q <= Len(b) => b[q] \in Nat
            BY <1>14, <6>1
          <6> QED
            BY <6>2 DEF q
        <5> QED
          BY <1>6, <1>10, <1>13, <5>1, <5>3, <5>4
      <4>3. ~IncShardIfNeed(d).cut
        BY <1>16, <3>2, <4>1, <4>2
      <4> QED
        BY <1>10, <1>19, <4>3 DEF EndTurn
    <3> QED
      BY <1>19, <3>1, <3>2
  <2> QED
    BY <1>1, <1>9, <1>13, <1>19, <2>1 DEF Cuts, b
<1>20. CASE /\ c.status = "run" /\ MayCut(c) /\ ShardIsFull(c) /\ y = EndShard(BumpRecord(n))
            /\ Keeps(c, y, B) /\ y.records_clk = Append(c.records_clk, c.clk)
  <2> DEFINE k == d.records_clk_index + 1
             q == [NextShard(d) EXCEPT !.records_clk_index = k]
  <2>1. k = Len(c.records_clk) + 1 /\ Len(y.records_clk) = k /\ y.records_clk[k] = c.clk
    BY <1>6, <1>13, <1>14, <1>20
  <2>2. k \in Nat \ {0} /\ k <= Len(b) /\ b[k] = c.clk
    <3>1. k \in Nat \ {0}
      BY <1>14, <2>1
    <3>2. Len(y.records_clk) <= Len(b)
      BY <1>14 DEF Ahead, b
    <3>3. k \in 1 .. Len(y.records_clk)
      BY <2>1, <3>1
    <3>4. b[k] = y.records_clk[k]
      BY <1>14, <3>3 DEF Ahead, b
    <3> QED
      BY <2>1, <3>1, <3>2, <3>4
  <2>3. b # <<>>
    BY <2>2
  <2>4. IncShardIfNeed(d).cut /\ IncShardIfNeed(d).ex = q
    <3>1. k <= Len(d.records_clk) /\ d.clk >= d.records_clk[k]
      BY <1>6, <1>10, <1>13, <2>2
    <3> QED
      BY <1>13, <1>17, <1>20, <2>3, <3>1 DEF IncShardIfNeed
  <2>5. w = EndShard(BumpRecord(q))
    BY <1>10, <1>15, <1>20, <2>4 DEF EndTurn
  <2>6. /\ Keeps(d, q, {"current_shard", "clk", "records_clk", "records_clk_index"})
        /\ q.current_shard = d.current_shard + 1 /\ q.clk = 0
    BY <1>10, <2>4, CutFacts
  <2>7. q.records_clk = b /\ q.records_clk_index = k
    <3> DEFINE x == NextShard(d)
    <3>1. DOMAIN x = Fields /\ x.records_clk = d.records_clk
      BY <1>10 DEF NextShard, Fields
    <3> HIDE DEF x, k
    <3>2. [x EXCEPT !.records_clk_index = k].records_clk = x.records_clk
      BY <3>1 DEF Fields
    <3>3. [x EXCEPT !.records_clk_index = k].records_clk_index = k
      BY <3>1 DEF Fields
    <3> QED
      BY <1>13, <3>1, <3>2, <3>3 DEF x
  <2>8. /\ Keeps(c, n, {"current_shard", "clk", "records_clk", "records_clk_index"})
        /\ n.current_shard = c.current_shard + 1 /\ n.clk = 0
    <3>1. IncShardIfNeed(c).cut /\ IncShardIfNeed(c).ex = n
      BY <1>17, <1>20 DEF IncShardIfNeed
    <3> QED
      BY <1>6, <3>1, CutFacts
  <2>9. ~c.unconstrained /\ ~d.unconstrained
    BY <1>10, <1>20 DEF MayCut
  <2> HIDE DEF n, q, k
  <2>10. Sim(n, q, K, H)
    <3> DEFINE F == {"current_shard", "clk"}
               G == {"records_clk", "records_clk_index"}
    <3>1. Keeps(c, n, F \cup G) /\ Keeps(d, q, F \cup G) /\ \A f \in F : q[f] = n[f]
      BY <1>10, <2>6, <2>8 DEF Keeps
    <3>2. Len(q.records) = Len(n.records)
      BY <1>9, <3>1 DEF Keeps, Fields, Sim
    <3>3. F \subseteq SharedFields \ {"unconstrained"} /\ G \cap (PlainFields \ {"records"}) = {}
      BY DEF SharedFields, PlainFields
    <3> HIDE DEF F, G
    <3> QED
      BY <1>9, <3>1, <3>2, <3>3, SimChange
  <2>11. /\ Sound(n, "Checkpoint", s) /\ Sound(q, "Trace", t) /\ Typed(n) /\ Typed(q)
    <3>1. Sound(n, "Checkpoint", s) /\ Sound(q, "Trace", t)
      BY <1>4, <1>12, <2>6, <2>8, <2>9, ShardSound
    <3> QED
      BY <3>1 DEF Sound, Fit
  <2>12. Sim(y, w, K, H)
    BY <1>20, <2>5, <2>10, <2>11, BumpSim
  <2>13. ~q.unconstrained
    BY <2>6, <2>9 DEF Keeps, Fields
  <2> DEFINE e == BumpRecord(q)
             f == [e EXCEPT !.status = "batch"]
  <2>14. Keeps(q, e, BumpFields)
    BY <2>11, <2>13, BumpSound DEF BumpFields
  <2>15. w \in {e, f}
    BY <2>5 DEF EndShard
  <2> HIDE DEF e, w
  <2>16. Keeps(e, f, {"status"})
    BY <2>14 DEF Keeps, Fields
  <2> HIDE DEF f
  <2>17. Keeps(q, w, BumpFields \cup {"status"})
    BY <2>14, <2>15, <2>16 DEF Keeps
  <2>18. w.records_clk = b /\ w.records_clk_index = k
    BY <2>7, <2>17 DEF Keeps, Fields, BumpFields
  <2> QED
    BY <1>1, <2>1, <2>12, <2>18 DEF Cuts, b, w
<1> QED
  BY <1>7, <1>18, <1>19, <1>20

-----------------------------------------------------------------------------
(* The replay begins where the batch began. *)

LEMMA InitializeFacts ==
  ASSUME NEW ex, DOMAIN ex = Fields
  PROVE  /\ Keeps(ex, Initialize(ex), {"clk", "records_clk_index", "memory"})
         /\ ex.global_clk # 0 => Initialize(ex) = ex
         /\ ex.global_clk = 0 => Initialize(ex).clk = 0 /\ Initialize(ex).records_clk_index = 0
         /\ \A a : a \notin DOMAIN Image \/ ex.global_clk # 0 =>
                      SameAt(Initialize(ex).memory, ex.memory, a)
         /\ ex.global_clk = 0 =>
               \A a \in DOMAIN Image :
                  /\ a \in DOMAIN Initialize(ex).memory
                  /\ Initialize(ex).memory[a] = [value |-> Image[a], shard |-> 0, timestamp |-> 0]
<1>1. CASE ex.global_clk # 0
  BY <1>1 DEF Initialize, Keeps, SameAt
<1>2. CASE ex.global_clk = 0
  <2> DEFINE mem == [a \in DOMAIN Image \cup DOMAIN ex.memory |->
                        IF a \in DOMAIN Image
                        THEN [value |-> Image[a], shard |-> 0, timestamp |-> 0]
                        ELSE ex.memory[a]]
             e == Initialize(ex)
  <2>1. e = [ex EXCEPT !.clk = 0, !.records_clk_index = 0, !.memory = mem]
    BY <1>2 DEF Initialize
  <2>2. /\ \A a : a \notin DOMAIN Image => SameAt(mem, ex.memory, a)
        /\ \A a \in DOMAIN Image :
              a \in DOMAIN mem /\ mem[a] = [value |-> Image[a], shard |-> 0, timestamp |-> 0]
    BY DEF SameAt
  <2> HIDE DEF mem
  <2>3. /\ Keeps(ex, e, {"clk", "records_clk_index", "memory"}) /\ e.clk = 0
        /\ e.memory = mem /\ e.records_clk_index = 0
    BY <2>1 DEF Keeps, Fields
  <2> HIDE DEF e
  <2> QED
    BY <1>2, <2>2, <2>3 DEF e
<1> QED
  BY <1>1, <1>2

\* What the checkpoint has of a batch that began as x.
LEMMA CheckpointMaps ==
  ASSUME NEW s, NEW x, NEW g, DOMAIN s = Fields, Extends(x, g), Typed(g), Typed(x),
         x.memory_checkpoint = Empty, x.uninitialized_memory_checkpoint = Empty
  PROVE  /\ \A b \in DOMAIN g.memory_checkpoint : SameAt(MakeCheckpoint(s, g).memory, x.memory, b)
         /\ g.status # "done" =>
               DOMAIN MakeCheckpoint(s, g).memory \subseteq DOMAIN g.memory_checkpoint
         /\ g.status = "done" => \A b : SameAt(MakeCheckpoint(s, g).memory, x.memory, b)
         /\ DOMAIN MakeCheckpoint(s, g).uninitialized_memory \subseteq DOMAIN x.uninitialized_memory
         /\ \A b : b \in DOMAIN g.uninitialized_memory_checkpoint \/ g.status = "done" =>
                      InitialValue(MakeCheckpoint(s, g), b) = InitialValue(x, b)
<1> DEFINE c == MakeCheckpoint(s, g)
           mc == g.memory_checkpoint
           mem == g.memory
           u == g.uninitialized_memory
           marked == g.uninitialized_memory_checkpoint
           looked == {a \in DOMAIN mc : mc[a] # None}
           old == {a \in DOMAIN marked : marked[a]}
           new == DOMAIN u \ (DOMAIN marked \ old)
<1>1. /\ c.memory = IF g.status = "done" THEN Restore(mem, mc) ELSE Restrict(mc, looked)
      /\ c.uninitialized_memory = Restrict(u, IF g.status = "done" THEN new ELSE old)
  BY DEF MakeCheckpoint, Fields
<1>2. DOMAIN Empty = {}
  BY DEF Empty
<1>3. /\ IsMap(x.memory, Stamp) /\ None \notin Stamp /\ Marks(marked, u)
  BY ExecutorAssumption DEF Typed, Stamp
<1>4. /\ \A b \in DOMAIN mc : mc[b] = Get(x.memory, b)
      /\ \A b : b \notin DOMAIN mc => SameAt(mem, x.memory, b)
      /\ \A b \in DOMAIN marked : marked[b] = (InitialValue(x, b) # 0)
      /\ \A b : b \notin DOMAIN marked => SameAt(u, x.uninitialized_memory, b)
      /\ \A b \in DOMAIN x.uninitialized_memory :
            b \in DOMAIN u /\ u[b] = x.uninitialized_memory[b]
  BY <1>2 DEF Extends
<1> HIDE DEF c, mc, mem, u, marked
<1>5. ASSUME NEW b \in DOMAIN mc
      PROVE  /\ mc[b] # None <=> b \in DOMAIN x.memory
             /\ b \in DOMAIN x.memory => mc[b] = x.memory[b]
  BY <1>3, <1>4 DEF Get, IsMap
<1>6. CASE g.status = "done"
  <2>1. c.memory = Restore(mem, mc) /\ c.uninitialized_memory = Restrict(u, new)
    BY <1>1, <1>6
  <2>2. ASSUME NEW b PROVE SameAt(c.memory, x.memory, b)
    <3>1. CASE b \in DOMAIN mc
      BY <1>5, <2>1, <3>1, RestoreFacts DEF SameAt
    <3>2. CASE b \notin DOMAIN mc
      BY <1>4, <2>1, <3>2, RestoreFacts DEF SameAt
    <3> QED
      BY <3>1, <3>2
  <2>3. DOMAIN c.uninitialized_memory = new /\ \A b \in new : c.uninitialized_memory[b] = u[b]
    BY <2>1 DEF Restrict
  <2>4. ASSUME NEW b \in new
        PROVE  /\ b \in DOMAIN x.uninitialized_memory
               /\ u[b] = x.uninitialized_memory[b]
    <3>1. CASE b \in DOMAIN marked
      <4>1. marked[b]
        BY <3>1
      <4>2. InitialValue(x, b) # 0
        BY <1>4, <3>1, <4>1
      <4>3. b \in DOMAIN x.uninitialized_memory
        BY <4>2 DEF InitialValue
      <4> QED
        BY <1>4, <4>3
    <3>2. CASE b \notin DOMAIN marked
      BY <1>4, <3>2 DEF SameAt
    <3> QED
      BY <3>1, <3>2
  <2>5. ASSUME NEW b, b \notin new PROVE InitialValue(x, b) = 0
    <3>1. CASE b \in DOMAIN u
      <4>1. b \in DOMAIN marked /\ ~marked[b]
        BY <2>5, <3>1
      <4> QED
        BY <1>4, <4>1
    <3>2. CASE b \notin DOMAIN u
      <4>1. b \notin DOMAIN x.uninitialized_memory
        BY <1>4, <3>2
      <4> QED
        BY <4>1 DEF InitialValue
    <3> QED
      BY <3>1, <3>2
  <2> HIDE DEF new
  <2>6. ASSUME NEW b PROVE InitialValue(c, b) = InitialValue(x, b)
    BY <2>3, <2>4, <2>5 DEF InitialValue
  <2>7. DOMAIN c.uninitialized_memory \subseteq DOMAIN x.uninitialized_memory
    BY <2>3, <2>4
  <2> QED
    BY <1>6, <2>2, <2>6, <2>7 DEF c, mc, marked
<1>7. CASE g.status # "done"
  <2>1. c.memory = Restrict(mc, looked) /\ c.uninitialized_memory = Restrict(u, old)
    BY <1>1, <1>7
  <2>2. DOMAIN c.memory = looked /\ \A b \in looked : c.memory[b] = mc[b]
    BY <2>1 DEF Restrict
  <2>3. ASSUME NEW b \in DOMAIN mc PROVE SameAt(c.memory, x.memory, b)
    BY <1>5, <2>2 DEF SameAt
  <2>4. DOMAIN c.uninitialized_memory = old /\ \A b \in old : c.uninitialized_memory[b] = u[b]
    BY <2>1 DEF Restrict
  <2>5. ASSUME NEW b \in old
        PROVE  b \in DOMAIN x.uninitialized_memory /\ u[b] = x.uninitialized_memory[b]
    <3>1. InitialValue(x, b) # 0
      BY <1>4
    <3>2. b \in DOMAIN x.uninitialized_memory
      BY <3>1 DEF InitialValue
    <3> QED
      BY <1>4, <3>2
  <2>6. ASSUME NEW b \in DOMAIN marked, b \notin old PROVE InitialValue(x, b) = 0
    BY <1>4, <2>6
  <2>7. DOMAIN c.memory \subseteq DOMAIN mc
    BY <2>2
  <2> HIDE DEF old
  <2>8. ASSUME NEW b \in DOMAIN marked PROVE InitialValue(c, b) = InitialValue(x, b)
    BY <2>4, <2>5, <2>6 DEF InitialValue
  <2> QED
    BY <1>7, <2>3, <2>4, <2>5, <2>7, <2>8 DEF c, mc, marked
<1> QED
  BY <1>6, <1>7

\* How a batch begins.
Start(s) ==
    /\ s.status = "run" /\ s.mode = "Checkpoint" /\ s.unconstrained = FALSE
    /\ s.memory_checkpoint = Empty /\ s.uninitialized_memory_checkpoint = Empty
    /\ s.records = <<>> /\ s.records_clk = <<>> /\ s.records_clk_index = 0
    /\ s.local_mem = 0 /\ s.hooks = ContextHooks

\* What the replay of batch s, which ended as g, has of memory and hints.
KnownWords(s, g) ==
    IF g.status = "done" THEN Locations
    ELSE DOMAIN g.memory_checkpoint \cup (IF s.global_clk = 0 THEN DOMAIN Image ELSE {})

KnownHints(g) ==
    DOMAIN g.uninitialized_memory_checkpoint \cup (IF g.status = "done" THEN Locations ELSE {})

LEMMA KnownWithin ==
  ASSUME NEW s, NEW g, ExecInv(g, "Checkpoint", s)
  PROVE  Within(g, KnownWords(s, g), KnownHints(g))
<1>1. Typed(g)
  BY DEF ExecInv, Sound, Fit
<1> QED
  BY <1>1 DEF Within, KnownWords, KnownHints, Typed, IsMap

LEMMA RecoverSim ==
  ASSUME NEW s, NEW g, Begun(s), Start(s), ExecInv(g, "Checkpoint", s), g.status # "run",
         Extends(Initialize(s), g), Typed(Initialize(s))
  PROVE  /\ Sim(Initialize(s), Recover(MakeCheckpoint(s, g)), KnownWords(s, g), KnownHints(g))
         /\ Cuts(Initialize(s), Recover(MakeCheckpoint(s, g)), g.records_clk)
<1> DEFINE c == MakeCheckpoint(s, g)
           n == NewExecutor(DefaultHooks, c.opts)
           e == [n EXCEPT
                    !.pc = c.pc, !.next_pc = c.next_pc, !.clk = c.clk,
                    !.global_clk = c.global_clk, !.current_shard = c.current_shard,
                    !.exited = c.exited, !.next_is_delayslot = c.next_is_delayslot,
                    !.records_clk = c.records_clk,
                    !.records_clk_index = c.records_clk_index, !.memory = c.memory,
                    !.uninitialized_memory = c.uninitialized_memory,
                    !.input_stream = c.input_stream,
                    !.input_stream_ptr = c.input_stream_ptr,
                    !.public_values_stream = c.public_values_stream,
                    !.proof_stream = c.proof_stream,
                    !.proof_stream_ptr = c.proof_stream_ptr,
                    !.verify_deferred = VerifiesAgain, !.mode = "Trace", !.emit = TRUE]
           x == Initialize(s)
           r == Initialize(e)
           K == KnownWords(s, g)
           H == KnownHints(g)
<1>1. Typed(s) /\ DOMAIN s = Fields /\ Typed(g)
  BY DEF Begun, Typed, ExecInv, Sound, Fit
<1>2. Recover(c) = r
  BY DEF Recover
<1>3. /\ Keeps(s, c, {"memory", "uninitialized_memory", "proof_stream", "records_clk"})
      /\ c.records_clk = g.records_clk
  BY <1>1 DEF MakeCheckpoint, Keeps, Fields
<1>4. IsMap(c.memory, Stamp)
  BY <1>1, OldMemory
<1>5. /\ Keeps(s, x, {"clk", "records_clk_index", "memory"})
      /\ s.global_clk # 0 => x = s
      /\ s.global_clk = 0 => x.clk = 0 /\ x.records_clk_index = 0
      /\ \A a : a \notin DOMAIN Image \/ s.global_clk # 0 => SameAt(x.memory, s.memory, a)
      /\ s.global_clk = 0 =>
            \A a \in DOMAIN Image :
               /\ a \in DOMAIN x.memory
               /\ x.memory[a] = [value |-> Image[a], shard |-> 0, timestamp |-> 0]
  BY <1>1, InitializeFacts
<1>6. /\ \A b \in DOMAIN g.memory_checkpoint : SameAt(c.memory, x.memory, b)
      /\ g.status # "done" => DOMAIN c.memory \subseteq DOMAIN g.memory_checkpoint
      /\ g.status = "done" => \A b : SameAt(c.memory, x.memory, b)
      /\ DOMAIN c.uninitialized_memory \subseteq DOMAIN x.uninitialized_memory
      /\ \A b : b \in DOMAIN g.uninitialized_memory_checkpoint \/ g.status = "done" =>
                   InitialValue(c, b) = InitialValue(x, b)
  <2>1. x.memory_checkpoint = Empty /\ x.uninitialized_memory_checkpoint = Empty
    <3> HIDE DEF x
    <3> QED
      BY <1>5 DEF Keeps, Fields, Start
  <2> QED
    BY <1>1, <2>1, CheckpointMaps
<1> HIDE DEF c
<1>7. /\ DOMAIN n = Fields /\ n.opts = c.opts /\ n.unconstrained = FALSE /\ n.local_mem = 0
      /\ n.status = "run" /\ n.records = <<>> /\ n.hooks = DefaultHooks
  BY DEF NewExecutor, Fields
<1> HIDE DEF n
<1>8. /\ e.opts = c.opts /\ e.unconstrained = FALSE /\ e.local_mem = 0 /\ e.status = "run"
      /\ e.records = <<>> /\ e.hooks = DefaultHooks /\ DOMAIN e = Fields
  BY <1>7 DEF Fields
<1>9. /\ e.pc = c.pc /\ e.next_pc = c.next_pc /\ e.clk = c.clk
      /\ e.global_clk = c.global_clk /\ e.current_shard = c.current_shard
      /\ e.exited = c.exited
  BY <1>7 DEF Fields
<1>10. /\ e.next_is_delayslot = c.next_is_delayslot
       /\ e.records_clk = c.records_clk /\ e.records_clk_index = c.records_clk_index
       /\ e.memory = c.memory /\ e.uninitialized_memory = c.uninitialized_memory
  BY <1>7 DEF Fields
<1>11. /\ e.input_stream = c.input_stream /\ e.input_stream_ptr = c.input_stream_ptr
       /\ e.public_values_stream = c.public_values_stream
       /\ e.verify_deferred = FALSE /\ e.mode = "Trace"
  BY <1>7 DEF Fields, VerifiesAgain
<1> HIDE DEF e
<1>12. /\ Keeps(e, r, {"clk", "records_clk_index", "memory"})
       /\ e.global_clk # 0 => r = e
       /\ e.global_clk = 0 => r.clk = 0 /\ r.records_clk_index = 0
       /\ \A a : a \notin DOMAIN Image \/ e.global_clk # 0 => SameAt(r.memory, e.memory, a)
       /\ e.global_clk = 0 =>
            \A a \in DOMAIN Image :
               /\ a \in DOMAIN r.memory
               /\ r.memory[a] = [value |-> Image[a], shard |-> 0, timestamp |-> 0]
  BY <1>8, InitializeFacts
<1> HIDE DEF x, r
<1>13. /\ c.opts = s.opts /\ c.pc = s.pc /\ c.next_pc = s.next_pc /\ c.clk = s.clk
       /\ c.global_clk = s.global_clk /\ c.current_shard = s.current_shard
       /\ c.exited = s.exited /\ c.next_is_delayslot = s.next_is_delayslot
       /\ c.records_clk_index = s.records_clk_index
       /\ c.input_stream = s.input_stream /\ c.input_stream_ptr = s.input_stream_ptr
       /\ c.public_values_stream = s.public_values_stream
  BY <1>3 DEF Keeps, Fields
<1>14. e.global_clk = s.global_clk /\ r.clk = x.clk
  BY <1>5, <1>9, <1>12, <1>13
<1>15. \A f \in SharedFields : r[f] = x[f]
  <2> DEFINE S == SharedFields \ {"clk"}
  <2>1. ASSUME NEW f \in S PROVE e[f] = s[f]
    BY <1>8, <1>9, <1>10, <1>11, <1>13 DEF SharedFields, Start
  <2>2. S \subseteq Fields \ {"clk", "records_clk_index", "memory"}
    BY DEF SharedFields, Fields
  <2>3. \A f \in S : r[f] = x[f]
    <3> HIDE DEF S
    <3> QED
      BY <1>5, <1>12, <2>1, <2>2 DEF Keeps
  <2> QED
    BY <1>14, <2>3
<1>16. SameMemory(x, r, K)
  <2>1. ASSUME NEW b \in DOMAIN r.memory PROVE b \in K
    <3>1. CASE b \in DOMAIN Image /\ s.global_clk = 0
      BY <3>1, ExecutorAssumption DEF KnownWords, Locations
    <3>2. CASE ~(b \in DOMAIN Image /\ s.global_clk = 0)
      <4>1. b \in DOMAIN c.memory
        BY <1>10, <1>12, <1>14, <2>1, <3>2 DEF SameAt
      <4> QED
        BY <1>4, <1>6, <4>1 DEF KnownWords, IsMap
    <3> QED
      BY <3>1, <3>2
  <2>2. ASSUME NEW b \in K PROVE SameAt(r.memory, x.memory, b)
    <3>1. CASE b \in DOMAIN Image /\ s.global_clk = 0
      BY <1>5, <1>12, <1>14, <3>1 DEF SameAt
    <3>2. CASE ~(b \in DOMAIN Image /\ s.global_clk = 0)
      <4>1. SameAt(r.memory, c.memory, b)
        BY <1>10, <1>12, <1>14, <3>2
      <4>2. SameAt(c.memory, x.memory, b)
        BY <1>6, <2>2, <3>2 DEF KnownWords
      <4> QED
        BY <4>1, <4>2 DEF SameAt
    <3> QED
      BY <3>1, <3>2
  <2> QED
    BY <2>1, <2>2 DEF SameMemory
<1>17. SameHints(x, r, H)
  <2>1. r.uninitialized_memory = c.uninitialized_memory
    BY <1>10, <1>12 DEF Keeps, Fields
  <2>2. \A b \in H : InitialValue(r, b) = InitialValue(x, b)
    <3>1. \A b : InitialValue(r, b) = InitialValue(c, b)
      BY <2>1 DEF InitialValue
    <3> QED
      BY <1>6, <3>1 DEF KnownHints
  <2> QED
    BY <1>6, <2>1, <2>2 DEF SameHints
<1>18. /\ x.unconstrained = FALSE /\ x.mode = "Checkpoint" /\ x.records = <<>>
       /\ x.hooks = ContextHooks /\ DOMAIN x = Fields /\ x.records_clk = <<>>
  BY <1>5 DEF Keeps, Fields, Start
<1>19. /\ r.mode = "Trace" /\ r.records = <<>> /\ r.hooks = DefaultHooks
       /\ DOMAIN r = Fields /\ r.verify_deferred = FALSE /\ r.records_clk = g.records_clk
  BY <1>3, <1>8, <1>10, <1>11, <1>12 DEF Keeps, Fields
<1>20. Sim(x, r, K, H)
  BY <1>15, <1>16, <1>17, <1>18, <1>19 DEF Sim, SameBlock
<1>21. r.records_clk_index = 0
  BY <1>10, <1>12, <1>13 DEF Start
<1>22. Cuts(x, r, g.records_clk)
  BY <1>18, <1>19, <1>21 DEF Cuts
<1> QED
  BY <1>2, <1>20, <1>22 DEF c, x
-----------------------------------------------------------------------------
(* The turns of a batch, one after the other. *)

\* An executor of the batch that began with s, at or before g.
Waypoint(x, s, g) ==
    /\ ExecInv(x, "Checkpoint", s) /\ Clocked(x) /\ x.records_clk_index = 0
    /\ Later(x, g)

\* The generator went from x to y in one turn of its loop over program p.
Turns(x, y, p) == /\ x.status = "run" /\ p[x.pc] # None /\ y.status # "err"
                  /\ y = LoopTurn(x, p[x.pc], TRUE)

\* t is what the generator went through from the start s of the batch to g.
Trail(n, t, p, s, g) ==
    /\ t[0] = Initialize(s) /\ t[n] = g
    /\ \A k \in 0 .. n : Waypoint(t[k], s, g)
    /\ \A k \in 1 .. n : /\ t[k].global_clk # 0
                         /\ t[k].status = "batch" => t[k].local_mem = 0
    /\ \A k \in 0 .. n - 1 : Turns(t[k], t[k + 1], p)

LEMMA TrailStart ==
  ASSUME NEW s, NEW p, Start(s), DOMAIN s = Fields,
         ExecInv(Initialize(s), "Checkpoint", s)
  PROVE  \E n \in Nat : \E t : Trail(n, t, p, s, Initialize(s))
<1> DEFINE x == Initialize(s)
           t == [k \in {0} |-> x]
<1>1. x.records_clk = <<>> /\ x.records_clk_index = 0
  <2>1. /\ Keeps(s, x, {"clk", "records_clk_index", "memory"})
        /\ s.global_clk # 0 => x = s
        /\ s.global_clk = 0 => x.records_clk_index = 0
    BY InitializeFacts
  <2> HIDE DEF x
  <2> QED
    BY <2>1 DEF Keeps, Fields, Start
<1>2. ExecInv(x, "Checkpoint", s) /\ Sound(x, "Checkpoint", s)
  BY DEF ExecInv
<1>3. t[0] = x
  OBVIOUS
<1> HIDE DEF x
<1>4. Clocked(x)
  BY <1>1, <1>2, SoundClocked DEF Clocked
<1>5. Later(x, x)
  BY <1>4, ExtendsSelf, AheadSelf DEF Later
<1>6. Waypoint(x, s, x)
  BY <1>1, <1>2, <1>4, <1>5 DEF Waypoint
<1>7. Trail(0, t, p, s, x)
  <2> HIDE DEF t
  <2>1. t[0] = Initialize(s)
    BY <1>3 DEF x
  <2>2. \A k \in 0 .. 0 : Waypoint(t[k], s, x)
    BY <1>3, <1>6
  <2> QED
    BY <1>3, <2>1, <2>2 DEF Trail
<1> QED
  BY <1>7 DEF x

LEMMA TrailGrows ==
  ASSUME NEW n \in Nat, NEW t, NEW p, NEW s, NEW g, NEW i, Trail(n, t, p, s, g),
         DOMAIN p = 1 .. ProgramLength, g.status = "run", p[g.pc] \in {None, i}, i # None,
         Instruction(i), DefaultHook(i), LoopTurn(g, i, TRUE).status # "err"
  PROVE  \E m \in Nat : \E u : Trail(m, u, [p EXCEPT ![g.pc] = i], s, LoopTurn(g, i, TRUE))
<1> DEFINE y == LoopTurn(g, i, TRUE)
           q == [p EXCEPT ![g.pc] = i]
           u == [k \in 0 .. n + 1 |-> IF k <= n THEN t[k] ELSE y]
<1>1. Waypoint(g, s, g) /\ t[0] = Initialize(s) /\ t[n] = g
  BY DEF Trail
<1>2. /\ Sound(g, "Checkpoint", s) /\ Clocked(g) /\ g.records_clk \in Seq(Nat)
      /\ g.records_clk_index = 0 /\ g.pc \in 1 .. ProgramLength
  BY <1>1 DEF Waypoint, ExecInv, Clocked
<1>3. /\ Later(g, y) /\ Clocked(y) /\ y.records_clk_index = 0 /\ y.global_clk # 0
      /\ y.status = "batch" => y.local_mem = 0
  BY <1>2, TurnLater
<1>4. ExecInv(y, "Checkpoint", s) /\ y.status # "err"
  BY <1>2, TurnSound
<1>5. u[n + 1] = y /\ \A k \in 0 .. n : u[k] = t[k]
  <2> HIDE DEF y
  <2>1. /\ n + 1 \in 0 .. n + 1 /\ ~(n + 1 <= n)
        /\ \A k \in 0 .. n : k \in 0 .. n + 1 /\ k <= n
    OBVIOUS
  <2> QED
    BY <2>1
<1>6. q[g.pc] = i /\ \A k : p[k] # None /\ k \in DOMAIN p => q[k] = p[k]
  BY <1>2
<1>7. y = LoopTurn(g, q[g.pc], TRUE)
  BY <1>6
<1> HIDE DEF y, q, u
<1>8. Waypoint(y, s, y)
  <2>1. Extends(y, y) /\ Ahead(y, y)
    BY <1>3, ExtendsSelf, AheadSelf
  <2> QED
    BY <1>3, <1>4, <2>1 DEF Waypoint, Later
<1>9. ASSUME NEW k \in 0 .. n PROVE Waypoint(t[k], s, y)
  <2>1. Waypoint(t[k], s, g)
    BY DEF Trail
  <2>2. Extends(t[k], y)
    BY <1>3, <2>1, ExtendsTrans DEF Later, Waypoint
  <2>3. Ahead(t[k], y)
    BY <1>2, <1>3, <2>1, AheadTrans DEF Later, Waypoint
  <2> QED
    BY <2>1, <2>2, <2>3 DEF Waypoint, Later
<1>10. \A k \in 0 .. n + 1 : Waypoint(u[k], s, y)
  <2>1. \A k \in 0 .. n + 1 : k \in 0 .. n \/ k = n + 1
    OBVIOUS
  <2> QED
    BY <1>5, <1>8, <1>9, <2>1
<1>11. \A k \in 1 .. n + 1 : /\ u[k].global_clk # 0
                             /\ u[k].status = "batch" => u[k].local_mem = 0
  <2> SUFFICES ASSUME NEW k \in 1 .. n + 1
               PROVE  /\ u[k].global_clk # 0
                      /\ u[k].status = "batch" => u[k].local_mem = 0
    OBVIOUS
  <2>1. CASE k = n + 1
    BY <1>3, <1>5, <2>1
  <2>2. CASE k # n + 1
    <3>1. k \in 1 .. n /\ k \in 0 .. n
      BY <2>2
    <3> QED
      BY <1>5, <3>1 DEF Trail
  <2> QED
    BY <2>1, <2>2
<1>12. \A k \in 0 .. n : Turns(u[k], u[k + 1], q)
  <2> SUFFICES ASSUME NEW k \in 0 .. n PROVE Turns(u[k], u[k + 1], q)
    OBVIOUS
  <2>1. CASE k = n
    <3>1. u[k] = g /\ u[k + 1] = y
      BY <1>1, <1>5, <2>1
    <3> QED
      BY <1>4, <1>6, <1>7, <3>1 DEF Turns
  <2>2. CASE k # n
    <3>1. k \in 0 .. n - 1 /\ k + 1 \in 0 .. n
      BY <2>2
    <3>2. Turns(t[k], t[k + 1], p) /\ Waypoint(t[k], s, g)
      BY <3>1 DEF Trail
    <3>3. t[k].pc \in DOMAIN p
      BY <3>2 DEF Turns, Waypoint, ExecInv
    <3>4. q[t[k].pc] = p[t[k].pc]
      BY <1>6, <3>2, <3>3 DEF Turns
    <3>5. Turns(t[k], t[k + 1], q)
      BY <3>2, <3>4 DEF Turns
    <3> QED
      BY <1>5, <3>1, <3>5
  <2> QED
    BY <2>1, <2>2
<1>13. Trail(n + 1, u, q, s, y)
  <2>1. u[0] = Initialize(s)
    BY <1>1, <1>5
  <2>2. (n + 1) - 1 = n
    OBVIOUS
  <2> QED
    BY <1>5, <1>10, <1>11, <1>12, <2>1, <2>2 DEF Trail
<1>14. n + 1 \in Nat
  OBVIOUS
<1> QED
  BY <1>13, <1>14 DEF y, q

LEMMA TrailReplay ==
  ASSUME NEW n \in Nat, NEW t, NEW p, NEW s, NEW g, NEW r, NEW K, NEW H, NEW k \in 0 .. n,
         Trail(n, t, p, s, g), Sound(r, "Trace", s), g.status # "run", r.status = "run",
         \A j \in 1 .. ProgramLength : p[j] # None => Instruction(p[j]) /\ DefaultHook(p[j]),
         Sim(t[k], r, K, H), Cuts(t[k], r, g.records_clk), Within(g, K, H)
  PROVE  /\ p[r.pc] # None /\ k + 1 \in 0 .. n
         /\ Sim(t[k + 1], LoopTurn(r, p[r.pc], FALSE), K, H)
         /\ Cuts(t[k + 1], LoopTurn(r, p[r.pc], FALSE), g.records_clk)
<1>1. t[k].status = "run" /\ t[k].pc = r.pc
  BY SimFields
<1>2. k \in 0 .. n - 1 /\ k + 1 \in 0 .. n
  <2>1. k # n
    BY <1>1 DEF Trail
  <2> QED
    BY <2>1
<1>3. /\ Turns(t[k], t[k + 1], p) /\ Waypoint(t[k], s, g) /\ Waypoint(t[k + 1], s, g)
      /\ Waypoint(g, s, g)
  BY <1>2 DEF Trail
<1> DEFINE i == p[r.pc]
<1>4. /\ i # None /\ t[k + 1] = LoopTurn(t[k], i, TRUE)
      /\ LoopTurn(t[k], i, TRUE).status # "err"
  BY <1>1, <1>3 DEF Turns
<1>5. Instruction(i) /\ DefaultHook(i)
  BY <1>1, <1>3, <1>4 DEF Waypoint, ExecInv
<1>6. /\ Sound(t[k], "Checkpoint", s) /\ t[k].records_clk \in Seq(Nat)
      /\ t[k].records_clk_index = 0 /\ Clocked(g)
      /\ Ahead(t[k + 1], g) /\ Extends(t[k + 1], g)
  BY <1>3 DEF Waypoint, ExecInv, Clocked, Later
<1>7. Within(t[k + 1], K, H)
  BY <1>6, WithinBefore
<1> HIDE DEF i
<1>8. /\ Sim(LoopTurn(t[k], i, TRUE), LoopTurn(r, i, FALSE), K, H)
      /\ Cuts(LoopTurn(t[k], i, TRUE), LoopTurn(r, i, FALSE), g.records_clk)
  BY <1>1, <1>4, <1>5, <1>6, <1>7, TurnSim
<1> QED
  BY <1>2, <1>4, <1>8 DEF i
-----------------------------------------------------------------------------
(* The replay follows the generator. *)

\* The hooks that the instructions call are among those of a recovered executor too.
OnlyDefaultHooks == \A c \in Cases : \A i \in c.instructions : DefaultHook(i)

HooksOk == \A k \in 1 .. ProgramLength : prog[k] # None => DefaultHook(prog[k])

\* Replay r of the batch from s to g is where the generator was at x.
Follows(x, r, s, g) == /\ Sim(x, r, KnownWords(s, g), KnownHints(g))
                       /\ Cuts(x, r, g.records_clk)

Generated(p, s, g) == \E n \in Nat : \E t : Trail(n, t, p, s, g)

Replayed(p, s, g, r) ==
    \E n \in Nat : \E t : /\ Trail(n, t, p, s, g)
                          /\ \E k \in 0 .. n : Follows(t[k], r, s, g)

MatchInv ==
    /\ HooksOk
    /\ phase # "done" => Start(saved)
    /\ phase = "generate" /\ gen.status # "err" => Generated(prog, saved, gen)
    /\ phase = "replay" => Replayed(prog, saved, gen, rep)

LEMMA InitMatch == Init => MatchInv
<1> SUFFICES ASSUME Init PROVE MatchInv
  OBVIOUS
<1>1. PICK c \in Cases :
        /\ prog = [i \in 1 .. ProgramLength |-> None]
        /\ saved = [BeginBatch(NewExecutor(ContextHooks, c.opts)) EXCEPT
                      !.proof_stream = ProofStream]
        /\ gen = Initialize([BeginBatch(NewExecutor(ContextHooks, c.opts)) EXCEPT
                               !.proof_stream = ProofStream])
        /\ phase = "generate"
  BY DEF Init
<1>2. Start(saved) /\ DOMAIN saved = Fields
  BY <1>1 DEF NewExecutor, BeginBatch, Fields, Start
<1>3. gen = Initialize(saved)
  BY <1>1
<1>4. HooksOk
  BY <1>1 DEF HooksOk
<1>5. gen.status # "err" => Generated(prog, saved, gen)
  <2> SUFFICES ASSUME gen.status # "err" PROVE Generated(prog, saved, gen)
    OBVIOUS
  <2>1. ExecInv(Initialize(saved), "Checkpoint", saved)
    BY <1>3, InitInv DEF ReplayInv
  <2> QED
    BY <1>2, <1>3, <2>1, TrailStart DEF Generated
<1> QED
  BY <1>1, <1>2, <1>4, <1>5 DEF MatchInv

LEMMA GenerateMatch ==
  OnlyDefaultHooks /\ ReplayInv /\ MatchInv /\ Generate => MatchInv'
<1> SUFFICES ASSUME OnlyDefaultHooks, ReplayInv, MatchInv, Generate PROVE MatchInv'
  OBVIOUS
<1>1. /\ phase = "generate" /\ gen.status = "run"
      /\ UNCHANGED <<saved, rep, phase, shards>>
  BY DEF Generate
<1>2. PICK i \in (IF prog[gen.pc] = None THEN Fresh ELSE {prog[gen.pc]}) :
        prog' = [prog EXCEPT ![gen.pc] = i] /\ gen' = LoopTurn(gen, i, TRUE)
  BY DEF Generate
<1>3. gen.pc \in 1 .. ProgramLength /\ DOMAIN prog = 1 .. ProgramLength
  BY <1>1 DEF ReplayInv, ExecInv, ProgramOk
<1>4. Instruction(i) /\ DefaultHook(i) /\ i # None /\ prog[gen.pc] \in {None, i}
  <2>1. CASE prog[gen.pc] = None
    <3>1. PICK c \in Cases : i \in c.instructions
      BY <1>2, <2>1 DEF Fresh
    <3> QED
      BY <2>1, <3>1, CasesAssumption DEF OnlyDefaultHooks
  <2>2. CASE prog[gen.pc] # None
    BY <1>2, <1>3, <2>2 DEF ReplayInv, ProgramOk, MatchInv, HooksOk
  <2> QED
    BY <2>1, <2>2
<1>5. HooksOk'
  BY <1>2, <1>3, <1>4 DEF MatchInv, HooksOk
<1>6. ASSUME gen'.status # "err" PROVE Generated(prog', saved', gen')
  <2>1. PICK n \in Nat : \E t : Trail(n, t, prog, saved, gen)
    BY <1>1 DEF MatchInv, Generated
  <2>2. PICK t : Trail(n, t, prog, saved, gen)
    BY <2>1
  <2>3. \E m \in Nat : \E u : Trail(m, u, [prog EXCEPT ![gen.pc] = i], saved,
                                    LoopTurn(gen, i, TRUE))
    BY <1>1, <1>2, <1>3, <1>4, <1>6, <2>2, TrailGrows
  <2> QED
    BY <1>1, <1>2, <2>3 DEF Generated
<1> QED
  BY <1>1, <1>5, <1>6 DEF MatchInv

LEMMA CheckpointMatch == ReplayInv /\ MatchInv /\ Checkpoint => MatchInv'
<1> SUFFICES ASSUME ReplayInv, MatchInv, Checkpoint PROVE MatchInv'
  OBVIOUS
<1>1. /\ phase = "generate" /\ gen.status \in {"batch", "done"} /\ phase' = "replay"
      /\ rep' = Recover(MakeCheckpoint(saved, gen))
      /\ UNCHANGED <<prog, gen, saved, shards, before>>
  BY DEF Checkpoint
<1>2. /\ ExecInv(gen, "Checkpoint", saved) /\ Begun(saved) /\ gen.status # "run"
      /\ Start(saved)
  BY <1>1 DEF ReplayInv, MatchInv
<1>3. PICK n \in Nat : \E t : Trail(n, t, prog, saved, gen)
  BY <1>1 DEF MatchInv, Generated
<1>4. PICK t : Trail(n, t, prog, saved, gen)
  BY <1>3
<1>5. 0 \in 0 .. n /\ t[0] = Initialize(saved)
  BY <1>4 DEF Trail
<1>6. Waypoint(t[0], saved, gen)
  BY <1>4, <1>5 DEF Trail
<1>7. Typed(Initialize(saved)) /\ Extends(Initialize(saved), gen)
  BY <1>5, <1>6 DEF Waypoint, ExecInv, Sound, Fit, Later
<1>8. Follows(t[0], rep', saved, gen)
  BY <1>1, <1>2, <1>5, <1>7, RecoverSim DEF Follows
<1>9. Replayed(prog', saved', gen', rep')
  BY <1>1, <1>4, <1>5, <1>8 DEF Replayed
<1>10. HooksOk'
  BY <1>1 DEF MatchInv, HooksOk
<1> QED
  BY <1>1, <1>2, <1>9, <1>10 DEF MatchInv

LEMMA ReplayStepMatch == ReplayInv /\ MatchInv /\ Replay => MatchInv'
<1> SUFFICES ASSUME ReplayInv, MatchInv, Replay PROVE MatchInv'
  OBVIOUS
<1>1. /\ phase = "replay" /\ rep.status = "run"
      /\ rep' = IF prog[rep.pc] = None THEN Err(rep) ELSE LoopTurn(rep, prog[rep.pc], FALSE)
      /\ UNCHANGED <<prog, gen, saved, phase, shards>>
  BY DEF Replay
<1>2. /\ gen.status # "run" /\ ExecInv(gen, "Checkpoint", saved) /\ Sound(rep, "Trace", saved)
      /\ Start(saved)
  BY <1>1 DEF ReplayInv, ExecInv, MatchInv
<1>3. \A j \in 1 .. ProgramLength :
         prog[j] # None => Instruction(prog[j]) /\ DefaultHook(prog[j])
  BY DEF ReplayInv, ProgramOk, MatchInv, HooksOk
<1> DEFINE K == KnownWords(saved, gen)
           H == KnownHints(gen)
<1>4. Within(gen, K, H)
  BY <1>2, KnownWithin
<1>5. PICK n \in Nat :
         \E t : /\ Trail(n, t, prog, saved, gen)
                /\ \E k \in 0 .. n : Follows(t[k], rep, saved, gen)
  BY <1>1 DEF MatchInv, Replayed
<1>6. PICK t : /\ Trail(n, t, prog, saved, gen)
               /\ \E k \in 0 .. n : Follows(t[k], rep, saved, gen)
  BY <1>5
<1>7. PICK k \in 0 .. n : Follows(t[k], rep, saved, gen)
  BY <1>6
<1>8. Sim(t[k], rep, K, H) /\ Cuts(t[k], rep, gen.records_clk)
  BY <1>7 DEF Follows
<1> HIDE DEF K, H
<1>9. /\ prog[rep.pc] # None /\ k + 1 \in 0 .. n
      /\ Sim(t[k + 1], LoopTurn(rep, prog[rep.pc], FALSE), K, H)
      /\ Cuts(t[k + 1], LoopTurn(rep, prog[rep.pc], FALSE), gen.records_clk)
  BY <1>1, <1>2, <1>3, <1>4, <1>6, <1>8, TrailReplay
<1>10. Follows(t[k + 1], rep', saved, gen)
  BY <1>1, <1>9 DEF Follows, K, H
<1>11. Replayed(prog', saved', gen', rep')
  BY <1>1, <1>6, <1>9, <1>10 DEF Replayed
<1>12. HooksOk'
  BY <1>1 DEF MatchInv, HooksOk
<1> QED
  BY <1>1, <1>2, <1>11, <1>12 DEF MatchInv

\* A replay that is over has come all the way.
LEMMA ReplayArrives ==
  ASSUME NEW p, NEW s, NEW g, NEW r, Replayed(p, s, g, r), r.status # "run"
  PROVE  /\ Follows(g, r, s, g)
         /\ g.records_clk_index = 0 /\ ExecInv(g, "Checkpoint", s)
         /\ g.status = "batch" /\ Start(s) => g.global_clk # 0 /\ g.local_mem = 0
<1>1. PICK n \in Nat : \E t : /\ Trail(n, t, p, s, g)
                              /\ \E k \in 0 .. n : Follows(t[k], r, s, g)
  BY DEF Replayed
<1>2. PICK t : /\ Trail(n, t, p, s, g)
               /\ \E k \in 0 .. n : Follows(t[k], r, s, g)
  BY <1>1
<1>3. PICK k \in 0 .. n : Follows(t[k], r, s, g)
  BY <1>2
<1>4. k = n
  <2> SUFFICES ASSUME k # n PROVE FALSE
    OBVIOUS
  <2>1. k \in 0 .. n - 1
    OBVIOUS
  <2>2. t[k].status = "run"
    BY <1>2, <2>1 DEF Trail, Turns
  <2> QED
    BY <1>3, <2>2, SimFields DEF Follows
<1>5. t[n] = g /\ Waypoint(t[n], s, g) /\ t[0] = Initialize(s)
  BY <1>2 DEF Trail
<1>6. ASSUME g.status = "batch", Start(s) PROVE g.global_clk # 0 /\ g.local_mem = 0
  <2>1. n # 0
    <3> SUFFICES ASSUME n = 0 PROVE FALSE
      OBVIOUS
    <3>1. g = Initialize(s)
      BY <1>5
    <3>2. Initialize(s).status = s.status
      BY DEF Initialize
    <3> QED
      BY <1>6, <3>1, <3>2 DEF Start
  <2>2. n \in 1 .. n
    BY <2>1
  <2> QED
    BY <1>2, <1>5, <1>6, <2>2 DEF Trail
<1> QED
  BY <1>3, <1>4, <1>5, <1>6 DEF Waypoint

LEMMA EndReplayMatch == ReplayInv /\ MatchInv /\ EndReplay => MatchInv'
<1> SUFFICES ASSUME ReplayInv, MatchInv, EndReplay PROVE MatchInv'
  OBVIOUS
<1> DEFINE x == [BeginBatch(gen) EXCEPT !.records_clk = <<>>,
                                        !.uninitialized_memory_checkpoint = Empty]
<1>1. /\ phase = "replay" /\ rep.status \in {"batch", "done"} /\ UNCHANGED <<prog, rep>>
  BY DEF EndReplay
<1>2. HooksOk'
  BY <1>1 DEF MatchInv, HooksOk
<1>3. CASE gen.status = "done"
  <2>1. phase' = "done"
    BY <1>3 DEF EndReplay
  <2> QED
    BY <1>2, <2>1 DEF MatchInv
<1>4. CASE gen.status # "done"
  <2>1. phase' = "generate" /\ gen' = x /\ saved' = x
    BY <1>4 DEF EndReplay
  <2>2. gen.status = "batch" /\ Start(saved)
    BY <1>1, <1>4 DEF ReplayInv, MatchInv
  <2>3. /\ Follows(gen, rep, saved, gen) /\ gen.records_clk_index = 0
        /\ ExecInv(gen, "Checkpoint", saved) /\ gen.global_clk # 0 /\ gen.local_mem = 0
    BY <1>1, <2>2, ReplayArrives DEF MatchInv
  <2>4. DOMAIN gen = Fields /\ gen.unconstrained = FALSE /\ gen.hooks = ContextHooks
    BY <2>2, <2>3 DEF ExecInv, Sound, Fit, Typed, Follows, Sim
  <2>5. /\ x.mode = "Checkpoint" /\ x.memory_checkpoint = Empty /\ x.records = <<>>
        /\ x.status = "run" /\ x.uninitialized_memory_checkpoint = Empty
        /\ x.records_clk = <<>> /\ DOMAIN x = Fields
        /\ x.unconstrained = gen.unconstrained /\ x.hooks = gen.hooks
        /\ x.records_clk_index = gen.records_clk_index /\ x.local_mem = gen.local_mem
        /\ x.global_clk = gen.global_clk
    BY <2>4 DEF BeginBatch, Fields
  <2> HIDE DEF x
  <2>6. Start(x)
    BY <2>3, <2>4, <2>5 DEF Start
  <2>7. Initialize(x) = x
    BY <2>3, <2>5 DEF Initialize
  <2>8. ExecInv(x, "Checkpoint", x)
    <3>1. gen'.status # "err"
      BY <2>1, <2>5
    <3> QED
      BY <2>1, <3>1, EndReplayInv DEF ReplayInv
  <2>9. Generated(prog, x, x)
    BY <2>5, <2>6, <2>7, <2>8, TrailStart DEF Generated
  <2> QED
    BY <1>1, <1>2, <2>1, <2>6, <2>9 DEF MatchInv
<1> QED
  BY <1>3, <1>4

\* While a batch is replayed, the replay is where the generator was after as many
\* turns: it has its program counter, clocks, streams, and its memory wherever the
\* checkpoint knows it, and the boundaries of the shards still to come.
THEOREM MatchInvariant ==
  ASSUME OnlyDefaultHooks
  PROVE  Spec => [](ReplayInv /\ MatchInv)
<1>1. Init => ReplayInv /\ MatchInv
  BY InitInv, InitMatch
<1>2. ReplayInv /\ MatchInv /\ [Next]_vars => (ReplayInv /\ MatchInv)'
  <2> SUFFICES ASSUME ReplayInv, MatchInv, [Next]_vars PROVE (ReplayInv /\ MatchInv)'
    OBVIOUS
  <2>1. CASE Stop \/ UNCHANGED vars
    BY <2>1 DEF Stop, vars, ReplayInv, ProgramOk, ShardsOk, MatchInv, HooksOk
  <2>2. CASE Generate
    BY <2>2, GenerateInv, GenerateMatch
  <2>3. CASE Checkpoint
    BY <2>3, CheckpointInv, CheckpointMatch
  <2>4. CASE Replay
    BY <2>4, ReplayStepInv, ReplayStepMatch
  <2>5. CASE EndReplay
    BY <2>5, EndReplayInv, EndReplayMatch
  <2> QED
    BY <2>1, <2>2, <2>3, <2>4, <2>5 DEF Next
<1> QED
  BY <1>1, <1>2, PTL DEF Spec

\* A checkpoint holds all a replay needs, for every program, batch size and shard
\* limit: a replay of execute_record that ends has not failed and has the state of
\* execute_state, if the hooks the program calls are ones Executor::recover installs.
THEOREM ReplayMatchesHolds ==
  ASSUME OnlyDefaultHooks
  PROVE  Spec => []ReplayMatches
<1>1. ReplayInv /\ MatchInv => ReplayMatches
  <2> SUFFICES ASSUME ReplayInv, MatchInv, ReplayEnded
               PROVE  /\ rep.status = gen.status
                      /\ Len(rep.records) = Len(gen.records)
                      /\ rep.pc = gen.pc /\ rep.next_pc = gen.next_pc
                      /\ rep.clk = gen.clk /\ rep.global_clk = gen.global_clk
                      /\ rep.current_shard = gen.current_shard
                      /\ rep.input_stream = gen.input_stream
                      /\ rep.input_stream_ptr = gen.input_stream_ptr
                      /\ rep.public_values_stream = gen.public_values_stream
                      /\ \A a \in DOMAIN rep.memory :
                           a \in DOMAIN gen.memory /\ rep.memory[a] = gen.memory[a]
                      /\ rep.status = "done" =>
                           /\ DOMAIN rep.memory = DOMAIN gen.memory
                           /\ \A a \in DOMAIN gen.memory :
                                InitialValue(rep, a) = InitialValue(gen, a)
    BY DEF ReplayMatches
  <2> DEFINE K == KnownWords(saved, gen)
             H == KnownHints(gen)
  <2>1. Follows(gen, rep, saved, gen) /\ ExecInv(gen, "Checkpoint", saved)
    BY ReplayArrives DEF MatchInv, ReplayEnded
  <2>2. Sim(gen, rep, K, H) /\ DOMAIN gen.memory \subseteq Locations
    BY <2>1 DEF Follows, ExecInv, Sound, Fit, Typed, IsMap
  <2>3. gen.status = "done" => K = Locations /\ Locations \subseteq H
    BY DEF KnownWords, KnownHints
  <2> HIDE DEF K, H
  <2>4. /\ rep.status = gen.status /\ rep.pc = gen.pc /\ rep.next_pc = gen.next_pc
        /\ rep.clk = gen.clk /\ rep.global_clk = gen.global_clk
        /\ rep.current_shard = gen.current_shard
        /\ rep.input_stream = gen.input_stream
        /\ rep.input_stream_ptr = gen.input_stream_ptr
        /\ rep.public_values_stream = gen.public_values_stream
    BY <2>2, SimFields
  <2>5. /\ Len(rep.records) = Len(gen.records)
        /\ DOMAIN rep.memory \subseteq K
        /\ \A b \in K : SameAt(rep.memory, gen.memory, b)
        /\ \A b \in H : InitialValue(rep, b) = InitialValue(gen, b)
    BY <2>2 DEF Sim, SameMemory, SameHints
  <2>6. \A a \in DOMAIN rep.memory :
           a \in DOMAIN gen.memory /\ rep.memory[a] = gen.memory[a]
    BY <2>5 DEF SameAt
  <2>7. ASSUME rep.status = "done"
        PROVE  /\ DOMAIN rep.memory = DOMAIN gen.memory
               /\ \A a \in DOMAIN gen.memory : InitialValue(rep, a) = InitialValue(gen, a)
    BY <2>2, <2>3, <2>4, <2>5, <2>7 DEF SameAt
  <2> QED
    BY <2>4, <2>5, <2>6, <2>7
<1> QED
  BY <1>1, MatchInvariant, PTL

-----------------------------------------------------------------------------
(* What a replay traces. *)

\* The fields that only the end of an instruction or of a shard changes.
PlaceFields == {"pc", "record", "records", "current_shard", "exited", "mode"}

SamePlace(ex, e) == DOMAIN e = Fields /\ \A f \in PlaceFields : e[f] = ex[f]

LEMMA KeepsPlace ==
  ASSUME NEW ex, NEW e, NEW F, Keeps(ex, e, F), F \cap PlaceFields = {}
  PROVE  SamePlace(ex, e)
BY DEF SamePlace, PlaceFields, Keeps, Fields

LEMMA SamePlaceTrans ==
  ASSUME NEW ex, NEW e, NEW d, SamePlace(ex, e), SamePlace(e, d)
  PROVE  SamePlace(ex, d)
BY DEF SamePlace

\* The CPU event of an instruction at pc that led from ex to e.
Events(ex, e, pc) ==
    /\ DOMAIN e = Fields /\ e.records = ex.records /\ e.current_shard = ex.current_shard
    /\ e.record.cpu = Append(ex.record.cpu, [pc |-> pc, next_pc |-> e.pc])

LEMMA RetireEvents ==
  ASSUME NEW ex, NEW e, NEW pc, NEW next, NEW nn, SamePlace(ex, e), ex.mode = "Trace",
         ex.record \in TraceRecord
  PROVE  /\ Events(ex, Retire(e, pc, next, nn), pc) /\ Retire(e, pc, next, nn).pc = next
         /\ Retire(e, pc, next, nn).exited = ex.exited
<1> DEFINE r == Retire(e, pc, next, nn)
<1>1. Retired(e, r, pc, next, nn)
  BY RetireFacts DEF SamePlace
<1> HIDE DEF r
<1>2. /\ e.mode = "Trace" /\ e.record = ex.record /\ e.records = ex.records
      /\ e.current_shard = ex.current_shard /\ e.exited = ex.exited
  BY DEF SamePlace, PlaceFields
<1>3. /\ r.records = ex.records /\ r.current_shard = ex.current_shard /\ r.exited = ex.exited
      /\ DOMAIN r = Fields /\ r.pc = next
  BY <1>1, <1>2 DEF Retired, Keeps, Fields
<1>4. r.record = [ex.record EXCEPT !.cpu = Append(@, [pc |-> pc, next_pc |-> next])]
  BY <1>1, <1>2 DEF Retired
<1>5. r.record.cpu = Append(ex.record.cpu, [pc |-> pc, next_pc |-> next])
  BY <1>4 DEF TraceRecord
<1> QED
  BY <1>3, <1>5 DEF Events, r

LEMMA AccessPlace ==
  ASSUME NEW ex, NEW e, NEW a, NEW v, NEW pos, SamePlace(ex, e)
  PROVE  /\ SamePlace(ex, Peek(e, a)) /\ SamePlace(ex, Read(e, a, pos))
         /\ SamePlace(ex, Write(e, a, v, pos))
<1>1. DOMAIN e = Fields
  BY DEF SamePlace
<1>2. ASSUME NEW w PROVE SamePlace(e, Access(e, a, w, pos))
  BY <1>1, AccessKeeps, KeepsPlace DEF TouchedFields, PlaceFields
<1>3. SamePlace(e, Peek(e, a))
  BY <1>1, PeekFacts, KeepsPlace DEF PlaceFields
<1>4. ASSUME NEW w PROVE SamePlace(ex, Access(e, a, w, pos))
  BY <1>2, SamePlaceTrans
<1>5. SamePlace(ex, Peek(e, a))
  BY <1>3, SamePlaceTrans
<1> QED
  BY <1>4, <1>5 DEF Read, Write

\* An instruction that is no syscall.
Plain(ex, e) == Events(ex, e, ex.pc) /\ e.exited = ex.exited

LEMMA SequentialPlain ==
  ASSUME NEW ex, NEW e, SamePlace(ex, e), ex.mode = "Trace", ex.record \in TraceRecord
  PROVE  Plain(ex, Sequential(e))
<1>1. e.pc = ex.pc
  BY DEF SamePlace, PlaceFields
<1> QED
  BY <1>1, RetireEvents DEF Sequential, Plain

LEMMA PlainEvents ==
  ASSUME NEW ex, NEW a, NEW target, DOMAIN ex = Fields, ex.mode = "Trace",
         ex.record \in TraceRecord
  PROVE  /\ Plain(ex, ADDI(ex)) /\ Plain(ex, LW(ex, a)) /\ Plain(ex, SW(ex, a))
         /\ Plain(ex, SB(ex, a)) /\ Plain(ex, BLEZ(ex, target))
<1>1. SamePlace(ex, ex)
  BY DEF SamePlace
<1>2. Plain(ex, ADDI(ex))
  <2> DEFINE v == (RecordOf(ex, R).value + 1) % 4
  <2>1. ADDI(ex) = Sequential(Write(Read(ex, R, PosB), R, v, PosA))
    BY DEF ADDI
  <2> HIDE DEF v
  <2> QED
    BY <1>1, <2>1, AccessPlace, SequentialPlain
<1>3. Plain(ex, LW(ex, a))
  <2> DEFINE v == RecordOf(ex, a).value
  <2>1. LW(ex, a) = Sequential(Write(Read(Peek(ex, R), a, PosMemory), R, v, PosA))
    BY DEF LW
  <2> HIDE DEF v
  <2> QED
    BY <1>1, <2>1, AccessPlace, SequentialPlain
<1>4. Plain(ex, SW(ex, a)) /\ Plain(ex, SB(ex, a))
  <2> DEFINE v == RecordOf(ex, R).value
             w == 2 * (PeekValue(ex, a) \div 2) + (RecordOf(ex, R).value % 2)
             p == Peek(Read(ex, R, PosA), a)
  <2>1. /\ SW(ex, a) = Sequential(Write(p, a, v, PosMemory))
        /\ SB(ex, a) = Sequential(Write(p, a, w, PosMemory))
    BY DEF SW, SB
  <2>2. SamePlace(ex, p)
    BY <1>1, AccessPlace
  <2> HIDE DEF v, w, p
  <2> QED
    BY <2>1, <2>2, AccessPlace, SequentialPlain
<1>5. Plain(ex, BLEZ(ex, target))
  <2> DEFINE r == Read(ex, V0, PosA)
             e == [r EXCEPT !.next_is_delayslot = TRUE]
             n == IF RecordOf(ex, V0).value = 0 THEN target ELSE ex.next_pc + 1
  <2>1. BLEZ(ex, target) = Retire(e, ex.pc, ex.next_pc, n)
    BY DEF BLEZ
  <2>2. SamePlace(ex, r)
    BY <1>1, AccessPlace
  <2> HIDE DEF r, n
  <2>3. SamePlace(ex, e)
    BY <2>2 DEF SamePlace, PlaceFields, Fields
  <2> HIDE DEF e
  <2> QED
    BY <2>1, <2>3, RetireEvents DEF Plain
<1> QED
  BY <1>2, <1>3, <1>4, <1>5

\* A syscall that neither begins nor ends a block: only PRECOMPILE adds to the record, and
\* only HALT exits, to program counter 0.
Answers(ex, y) ==
    /\ DOMAIN y.ex = Fields /\ y.ex.record.cpu = ex.record.cpu
    /\ \A f \in {"pc", "records", "current_shard", "mode"} : y.ex[f] = ex[f]
    /\ y.ex.exited => ex.exited \/ y.next = 0

LEMMA AnswersSame ==
  ASSUME NEW ex, NEW e, NEW v, SamePlace(ex, e)
  PROVE  Answers(ex, Ret(e, v))
<1>1. Ret(e, v).ex = e
  BY DEF Ret
<1> HIDE DEF Ret
<1> QED
  BY <1>1 DEF Answers, SamePlace, PlaceFields

LEMMA CallAnswers ==
  ASSUME NEW ex, NEW i, DOMAIN ex = Fields, ex.record \in TraceRecord, Instruction(i),
         i.op \notin {"ADDI", "LW", "SW", "SB", "BLEZ", "ENTER", "EXIT"}
  PROVE  Answers(ex, Syscall(ex, i))
<1> DEFINE y == Syscall(ex, i)
           a == i.addr
           p == Peek(ex, a)
<1>1. SamePlace(ex, ex)
  BY DEF SamePlace
<1>2. SamePlace(ex, p) /\ DOMAIN p = Fields
  <2>1. SamePlace(ex, p)
    BY <1>1, AccessPlace
  <2> QED
    BY <2>1 DEF SamePlace
<1>3. SamePlace(ex, Err(ex))
  BY DEF SamePlace, PlaceFields, Fields, Err
<1>4. CASE i.op \in {"HALT", "COMMIT", "COMMIT_DEFERRED", "HINT_LEN"}
  <2> DEFINE w == ex.memory[R].value
             c == [ex EXCEPT !.digest = w]
             d == [ex EXCEPT !.deferred_digest = w]
             h == [ex EXCEPT !.exited = TRUE]
  <2>1. y \in {HALT(ex), COMMIT(ex, w), COMMIT_DEFERRED_PROOFS(ex, w), HINT_LEN(ex)}
    BY <1>4 DEF Syscall
  <2> HIDE DEF w, y
  <2>2. Answers(ex, HALT(ex))
    <3>1. HALT(ex).ex = h /\ HALT(ex).next = 0
      BY DEF HALT, Ret
    <3>2. /\ DOMAIN h = Fields /\ h.record = ex.record
          /\ \A f \in {"pc", "records", "current_shard", "mode"} : h[f] = ex[f]
      BY DEF Fields
    <3> HIDE DEF h
    <3> QED
      BY <3>1, <3>2 DEF Answers
  <2>3. SamePlace(ex, c) /\ SamePlace(ex, d)
    BY DEF SamePlace, PlaceFields, Fields
  <2>4. /\ COMMIT(ex, w) = Ret(c, None) /\ COMMIT_DEFERRED_PROOFS(ex, w) = Ret(d, None)
        /\ HINT_LEN(ex) \in {Ret(Err(ex), None), Ret(ex, 1)}
    BY DEF COMMIT, COMMIT_DEFERRED_PROOFS, HINT_LEN
  <2> HIDE DEF c, d
  <2> QED
    BY <1>1, <1>3, <2>1, <2>2, <2>3, <2>4, AnswersSame DEF y
<1>5. CASE i.op \in {"VERIFY", "HINT_READ", "PRECOMPILE"}
  <2>1. y \in {VERIFY_ZKM_PROOF(ex, a), HINT_READ(ex, a), PRECOMPILE(ex, a)}
    BY <1>5 DEF Syscall
  <2> HIDE DEF y
  <2>2. Answers(ex, VERIFY_ZKM_PROOF(ex, a))
    <3> DEFINE n == ex.proof_stream_ptr + 1
               e == [p EXCEPT !.proof_stream_ptr = n]
    <3>1. VERIFY_ZKM_PROOF(ex, a) \in {Ret(ex, None), Ret(Err(ex), None), Ret(e, None)}
      BY DEF VERIFY_ZKM_PROOF
    <3> HIDE DEF n, p
    <3>2. SamePlace(ex, e)
      BY <1>2 DEF SamePlace, PlaceFields, Fields
    <3> HIDE DEF e
    <3> QED
      BY <1>1, <1>3, <3>1, <3>2, AnswersSame
  <2>3. Answers(ex, HINT_READ(ex, a))
    <3> DEFINE n == ex.input_stream_ptr + 1
               u == OrInsert(ex.uninitialized_memory_checkpoint, a, FALSE)
               v == Insert(ex.uninitialized_memory, a, ex.input_stream[n])
               e == [ex EXCEPT !.input_stream_ptr = n, !.uninitialized_memory_checkpoint = u,
                               !.uninitialized_memory = v]
    <3>1. HINT_READ(ex, a) \in {Ret(Err(ex), None), Ret(e, None)}
      BY DEF HINT_READ
    <3> HIDE DEF n, u, v
    <3>2. SamePlace(ex, e)
      BY DEF SamePlace, PlaceFields, Fields
    <3> HIDE DEF e
    <3> QED
      BY <1>3, <3>1, <3>2, AnswersSame
  <2>4. Answers(ex, PRECOMPILE(ex, a))
    <3> DEFINE v == (RecordOf(ex, a).value + 1) % 4
               t == Touch(ex, a, v, ex.clk, TRUE)
               w == WithSyscallEvent(ex, t, a)
    <3>1. Touches(ex, t, a, v, ex.clk)
      <4> HIDE DEF v
      <4> QED
        BY TouchFacts
    <3>2. PRECOMPILE(ex, a).ex = w
      BY DEF PRECOMPILE, SyscallWrite, Ret
    <3> HIDE DEF v, t
    <3>3. SamePlace(ex, t) /\ DOMAIN t = Fields
      BY <3>1 DEF Touches, Keeps, Fields, TouchedFields, SamePlace, PlaceFields
    <3>4. t.record = ex.record
      BY <3>3 DEF SamePlace, PlaceFields
    <3>5. /\ DOMAIN w = Fields /\ w.record.cpu = t.record.cpu
          /\ \A f \in {"pc", "records", "current_shard", "mode", "exited"} : w[f] = t[f]
      BY <3>3, <3>4 DEF WithSyscallEvent, Fields, TraceRecord
    <3> HIDE DEF w
    <3> QED
      BY <3>2, <3>3, <3>4, <3>5 DEF Answers, SamePlace, PlaceFields
  <2> QED
    BY <2>1, <2>2, <2>3, <2>4 DEF y
<1>6. CASE i.op \in {"WRITE_HINT", "WRITE_PV", "WRITE_HOOK"}
  <2>1. y \in {WRITE_HINT(ex, a), WRITE_PUBLIC_VALUES(ex, a), WRITE_HOOK(ex, a, i.fd)}
    BY <1>6 DEF Syscall
  <2> DEFINE n == ex.input_stream_ptr
             said == Append(p.input_stream, PeekValue(ex, a))
             told == Append(p.public_values_stream, PeekValue(ex, a))
             answered == SubSeq(p.input_stream, 1, n) \o <<3>>
                         \o SubSeq(p.input_stream, n + 1, Len(p.input_stream))
             d1 == [p EXCEPT !.input_stream = said]
             d2 == [p EXCEPT !.public_values_stream = told]
             d3 == [p EXCEPT !.input_stream = answered]
  <2>2. /\ WRITE_HINT(ex, a) = Ret(d1, None) /\ WRITE_PUBLIC_VALUES(ex, a) = Ret(d2, None)
        /\ WRITE_HOOK(ex, a, i.fd) \in {Ret(p, None), Ret(d3, None)}
    BY DEF WRITE_HINT, WRITE_PUBLIC_VALUES, WRITE_HOOK
  <2> HIDE DEF p, said, told, answered, y
  <2>3. SamePlace(ex, d1) /\ SamePlace(ex, d2) /\ SamePlace(ex, d3)
    BY <1>2 DEF SamePlace, PlaceFields, Fields
  <2> HIDE DEF d1, d2, d3
  <2> QED
    BY <1>2, <2>1, <2>2, <2>3, AnswersSame DEF y
<1> QED
  BY <1>4, <1>5, <1>6 DEF Instruction, OtherOps, AddressOps

\* $v0 is written and the instruction retires.
LEMMA EndEvents ==
  ASSUME NEW y, DOMAIN y.ex = Fields, y.ex.mode = "Trace", y.ex.record \in TraceRecord,
         EndSyscall(y).status # "err"
  PROVE  /\ Events(y.ex, EndSyscall(y), y.ex.pc) /\ EndSyscall(y).pc = y.next
         /\ EndSyscall(y).exited = y.ex.exited
<1> DEFINE v == IF y.ret = None THEN SyscallId ELSE y.ret
           w == Write(y.ex, V0, v, PosA)
           e == [w EXCEPT !.clk = @ + y.cycles]
<1>1. EndSyscall(y) = Retire(e, y.ex.pc, y.next, y.next + 1)
  BY DEF EndSyscall
<1> HIDE DEF v
<1>2. SamePlace(y.ex, y.ex)
  BY DEF SamePlace
<1>3. SamePlace(y.ex, w)
  BY <1>2, AccessPlace
<1> HIDE DEF w
<1>4. SamePlace(y.ex, e)
  BY <1>3 DEF SamePlace, PlaceFields, Fields
<1> HIDE DEF e
<1> QED
  BY <1>1, <1>4, RetireEvents

\* Where the program is, and what it has traced, if unconstrained blocks do not count.
OuterPc(ex) == IF ex.unconstrained THEN ex.fork.pc ELSE ex.pc
OuterCpu(ex) == IF ex.unconstrained THEN ex.fork.record.cpu ELSE ex.record.cpu

\* From ex to e one more instruction is traced, or nothing because e is in a block.
Traces(ex, e) ==
    /\ DOMAIN e = Fields /\ e.records = ex.records /\ e.current_shard = ex.current_shard
    /\ e.exited => ex.exited \/ (~e.unconstrained /\ e.pc = 0)
    /\ IF e.unconstrained
       THEN OuterCpu(e) = OuterCpu(ex) /\ OuterPc(e) = OuterPc(ex)
       ELSE e.record.cpu = Append(OuterCpu(ex), [pc |-> OuterPc(ex), next_pc |-> e.pc])

LEMMA StablePlace ==
  ASSUME NEW ex, NEW e, DOMAIN ex = Fields, DOMAIN e = Fields, ex.unconstrained, Stable(ex, e)
  PROVE  /\ e.unconstrained /\ e.fork.pc = ex.fork.pc /\ e.fork.record = ex.fork.record
         /\ e.fork.mode = ex.fork.mode
         /\ e.records = ex.records /\ e.current_shard = ex.current_shard
         /\ e.exited = ex.exited
<1> DEFINE F == {"records", "current_shard", "exited"}
<1>1. e.unconstrained /\ Keeps(Back(ex), Back(e), VolatileFields)
  BY DEF Stable
<1>2. \A f \in F \cup {"pc", "record", "mode"} : Back(e)[f] = Back(ex)[f]
  BY <1>1 DEF Keeps, Fields, VolatileFields
<1>3. ASSUME NEW x, DOMAIN x = Fields, x.unconstrained
      PROVE  /\ Back(x).pc = x.fork.pc /\ Back(x).record = x.fork.record
             /\ Back(x).mode = x.fork.mode
             /\ \A f \in F : Back(x)[f] = x[f]
  <2>1. Keeps(x, Back(x), RestoredFields)
    BY <1>3, BackFacts
  <2> QED
    BY <1>3, <2>1, BackFacts DEF Keeps, Fields, RestoredFields
<1>4. \A f \in F : e[f] = ex[f]
  BY <1>1, <1>2, <1>3
<1> QED
  BY <1>1, <1>2, <1>3, <1>4

LEMMA OperationTraces ==
  ASSUME NEW ex, NEW s, NEW i, Sound(ex, "Trace", s), ex.status = "run", Instruction(i),
         ExecuteOperation(ex, i).status # "err"
  PROVE  Traces(ex, ExecuteOperation(ex, i))
<1> DEFINE d == [ex EXCEPT !.next_is_delayslot = FALSE]
           o == ExecuteOperation(ex, i)
           m == "Trace"
<1>1. /\ Typed(ex) /\ DOMAIN ex = Fields /\ ex.unconstrained \in BOOLEAN
      /\ OuterMode(ex) = "Trace" /\ ex.record \in TraceRecord
  BY DEF Sound, Fit, Typed
<1>2. Sound(o, m, s) /\ DOMAIN o = Fields
  <2>1. Sound(o, m, s)
    BY OperationSound
  <2> HIDE DEF o
  <2> QED
    BY <2>1 DEF Sound, Fit, Typed
<1>3. Passes(ex, d, m, s, {}, 0)
  BY PassStart, PassSlot DEF Sound
<1>4. /\ d.status = "run" /\ Fit(d, m, s, {}, 0) /\ d.unconstrained = ex.unconstrained
      /\ DOMAIN d = Fields /\ SamePlace(ex, d) /\ d.fork = ex.fork
  <2>1. Keeps(ex, d, {"next_is_delayslot"})
    BY <1>1 DEF Keeps, Fields
  <2> HIDE DEF d
  <2>2. d.fork = ex.fork
    BY <2>1 DEF Keeps, Fields
  <2> QED
    BY <1>3, <2>1, <2>2, KeepsPlace DEF Passes, Along, Fit, Typed, PlaceFields
<1>5. /\ d.pc = ex.pc /\ d.record = ex.record /\ d.records = ex.records /\ d.mode = ex.mode
      /\ d.current_shard = ex.current_shard /\ d.exited = ex.exited
  BY <1>4 DEF SamePlace, PlaceFields
<1>6. Sound(d, m, s)
  <2> SUFFICES ASSUME d.unconstrained PROVE Bounded(Back(d), {R}, 3)
    BY <1>4 DEF Sound
  <2> HIDE DEF d
  <2>1. Stable(ex, d) /\ Bounded(Back(ex), {R}, 3)
    BY <1>3, <1>4 DEF Sound, Passes
  <2> QED
    BY <2>1, StableBounded
<1>7. CASE ex.unconstrained /\ i.op # "EXIT"
  <2>1. Stable(ex, o)
    BY <1>7, OperationBlock
  <2> HIDE DEF o
  <2>2. /\ o.unconstrained /\ o.fork.pc = ex.fork.pc /\ o.fork.record = ex.fork.record
        /\ o.records = ex.records /\ o.current_shard = ex.current_shard
        /\ o.exited = ex.exited
    BY <1>1, <1>2, <1>7, <2>1, StablePlace
  <2> QED
    BY <1>2, <1>7, <2>2 DEF Traces, OuterPc, OuterCpu, o
<1>8. CASE ~ex.unconstrained /\ i.op \in {"ADDI", "LW", "SW", "SB", "BLEZ"}
  <2>1. o \in {ADDI(d), LW(d, i.addr), SW(d, i.addr), SB(d, i.addr), BLEZ(d, i.target)}
    BY <1>8 DEF ExecuteOperation
  <2>2. ~o.unconstrained
    BY <1>8, OperationBlock
  <2>3. d.mode = "Trace" /\ d.record \in TraceRecord
    BY <1>1, <1>5, <1>8 DEF OuterMode
  <2> HIDE DEF d, o
  <2>4. Plain(d, o)
    BY <1>4, <2>1, <2>3, PlainEvents
  <2>5. Traces(ex, o)
    BY <1>5, <1>8, <2>2, <2>4 DEF Plain, Events, Traces, OuterPc, OuterCpu
  <2> QED
    BY <2>5 DEF o
<1>9. CASE i.op \notin {"ADDI", "LW", "SW", "SB", "BLEZ"} /\ (ex.unconstrained => i.op = "EXIT")
  <2> DEFINE c == Caller(d)
             y == Syscall(c, i)
  <2>1. o = SYSCALL(d, i) /\ o.status # "err"
    BY <1>9 DEF ExecuteOperation
  <2> HIDE DEF d, o
  <2>2. Calls(d, i, m, s)
    BY <1>4, <1>6, <1>9, <2>1, SyscallGood
  <2>3. /\ o = EndSyscall(y) /\ Passes(d, c, m, s, {R}, 3) /\ GoodCall(y, m, s)
    BY <2>1, <2>2 DEF Calls
  <2>4. SamePlace(d, c) /\ DOMAIN c = Fields
    <3>1. Keeps(d, c, TouchedFields \cup {"local_memory_access"})
      BY <1>4, CallerKeeps
    <3> HIDE DEF c
    <3> QED
      BY <3>1, KeepsPlace DEF TouchedFields, PlaceFields, SamePlace
  <2>5. /\ c.pc = ex.pc /\ c.record = ex.record /\ c.records = ex.records /\ c.mode = ex.mode
        /\ c.current_shard = ex.current_shard /\ c.exited = ex.exited
    BY <1>5, <2>4 DEF SamePlace, PlaceFields
  <2>6. c.unconstrained = ex.unconstrained
    BY <1>4, <2>3 DEF Passes, Along
  <2>7. ex.unconstrained => /\ c.fork.pc = ex.fork.pc /\ c.fork.record = ex.fork.record
                            /\ c.fork.mode = "Trace"
    <3> SUFFICES ASSUME ex.unconstrained
                 PROVE  /\ c.fork.pc = ex.fork.pc /\ c.fork.record = ex.fork.record
                        /\ c.fork.mode = "Trace"
      OBVIOUS
    <3>1. Stable(d, c) /\ d.unconstrained
      BY <1>4, <2>3 DEF Passes
    <3> HIDE DEF c
    <3>2. /\ c.fork.pc = d.fork.pc /\ c.fork.record = d.fork.record
          /\ c.fork.mode = d.fork.mode
      BY <1>4, <2>4, <3>1, StablePlace
    <3> QED
      BY <1>1, <1>4, <3>2 DEF OuterMode
  <2>8. ~ex.unconstrained => c.mode = "Trace"
    BY <1>1, <2>5 DEF OuterMode
  <2>9. y.ex.status # "err" /\ Typed(y.ex) /\ y.ex.record \in TraceRecord /\ DOMAIN y.ex = Fields
    <3>1. y.ex.status # "err"
      BY <2>1, <2>3 DEF EndSyscall
    <3> HIDE DEF y
    <3> QED
      BY <2>3, <3>1 DEF GoodCall, Fit, Typed
  <2> HIDE DEF c
  <2>10. CASE i.op = "ENTER"
    <3>1. ~c.unconstrained /\ ~ex.unconstrained
      BY <1>9, <2>6, <2>10
    <3>2. y = ENTER_UNCONSTRAINED(c)
      BY <2>10 DEF Syscall
    <3>3. /\ y.ex.unconstrained /\ y.ex.fork.pc = c.pc /\ y.ex.fork.record = c.record
          /\ y.ex.records = c.records /\ y.ex.current_shard = c.current_shard
          /\ y.ex.exited = c.exited
      <4> DEFINE f == [global_clk |-> c.global_clk, clk |-> c.clk, pc |-> c.pc,
                       memory_diff |-> Empty, mode |-> c.mode, record |-> c.record]
                 e == [c EXCEPT !.unconstrained = TRUE, !.fork = f, !.record = NewExecRecord,
                                !.mode = "Simple"]
      <4>1. y.ex = e
        BY <3>2 DEF ENTER_UNCONSTRAINED, Ret
      <4>2. f.pc = c.pc /\ f.record = c.record
        OBVIOUS
      <4> HIDE DEF f, y
      <4>3. /\ e.unconstrained /\ e.fork = f /\ e.records = c.records
            /\ e.current_shard = c.current_shard /\ e.exited = c.exited
        BY <2>4 DEF Fields
      <4> QED
        BY <4>1, <4>2, <4>3
    <3> HIDE DEF y
    <3>4. Stable(y.ex, o)
      BY <2>1, <2>3, <3>3, EndCarries DEF Carries
    <3>5. /\ o.unconstrained /\ o.fork.pc = y.ex.fork.pc /\ o.fork.record = y.ex.fork.record
          /\ o.records = y.ex.records /\ o.current_shard = y.ex.current_shard
          /\ o.exited = y.ex.exited
      BY <1>2, <2>9, <3>3, <3>4, StablePlace DEF o
    <3>6. Traces(ex, o)
      BY <1>2, <2>5, <3>1, <3>3, <3>5 DEF Traces, OuterPc, OuterCpu, o
    <3> QED
      BY <3>6 DEF o
  <2>11. CASE i.op = "EXIT"
    <3>1. y = EXIT_UNCONSTRAINED(c)
      BY <2>11 DEF Syscall
    <3>2. CASE c.unconstrained
      <4>1. /\ Keeps(c, y.ex, RestoredFields) /\ y.ex.pc = c.fork.pc
            /\ y.ex.record = c.fork.record /\ y.ex.mode = c.fork.mode
            /\ y.ex.unconstrained = FALSE
        BY <2>4, <3>1, <3>2, BackFacts DEF Back
      <4> HIDE DEF y
      <4>2. /\ y.ex.records = c.records /\ y.ex.current_shard = c.current_shard
            /\ y.ex.exited = c.exited
        BY <4>1 DEF Keeps, Fields, RestoredFields
      <4>3. Events(y.ex, o, y.ex.pc) /\ o.exited = y.ex.exited
        BY <2>1, <2>3, <2>6, <2>7, <2>9, <3>2, <4>1, EndEvents
      <4>4. ~o.unconstrained
        BY <2>1, <2>3, <4>1, EndCarries DEF Carries
      <4>5. Traces(ex, o)
        BY <2>5, <2>6, <2>7, <3>2, <4>1, <4>2, <4>3, <4>4 DEF Traces, Events, OuterPc, OuterCpu
      <4> QED
        BY <4>5 DEF o
    <3>3. CASE ~c.unconstrained
      <4>1. /\ y.ex.records = c.records /\ y.ex.current_shard = c.current_shard
            /\ y.ex.exited = c.exited /\ y.ex.pc = c.pc /\ y.ex.record = c.record
            /\ y.ex.mode = c.mode /\ ~y.ex.unconstrained
        BY <2>4, <3>1, <3>3 DEF EXIT_UNCONSTRAINED, Ret, Fields
      <4> HIDE DEF y
      <4>2. Events(y.ex, o, y.ex.pc) /\ o.exited = y.ex.exited
        BY <2>1, <2>3, <2>6, <2>8, <2>9, <3>3, <4>1, EndEvents
      <4>3. ~o.unconstrained
        BY <2>1, <2>3, <4>1, EndCarries DEF Carries
      <4>4. Traces(ex, o)
        BY <2>5, <2>6, <3>3, <4>1, <4>2, <4>3 DEF Traces, Events, OuterPc, OuterCpu
      <4> QED
        BY <4>4 DEF o
    <3> QED
      BY <3>2, <3>3
  <2>12. CASE i.op \notin {"ENTER", "EXIT"}
    <3>1. ~ex.unconstrained /\ ~o.unconstrained
      BY <1>9, <2>12, OperationBlock DEF o
    <3>2. Answers(c, y)
      BY <1>1, <1>9, <2>4, <2>5, <2>12, CallAnswers
    <3> HIDE DEF y
    <3>3. y.ex.mode = "Trace"
      BY <2>8, <3>1, <3>2 DEF Answers
    <3>4. /\ Events(y.ex, o, y.ex.pc) /\ o.pc = y.next /\ o.exited = y.ex.exited
      BY <2>1, <2>3, <2>9, <3>3, EndEvents
    <3>5. Traces(ex, o)
      BY <2>5, <3>1, <3>2, <3>4 DEF Traces, Events, Answers, OuterPc, OuterCpu
    <3> QED
      BY <3>5 DEF o
  <2> QED
    BY <2>10, <2>11, <2>12
<1> QED
  BY <1>7, <1>8, <1>9

-----------------------------------------------------------------------------
(* Shards that continue each other. *)

\* The first and the last program counter of the CPU events of a record.
From(cpu) == Head(cpu).pc
Upto(cpu) == Last(cpu).next_pc

\* Where the shards of records end, if the first begins at pc.
EndOf(records, pc) ==
    IF records = <<>> THEN pc ELSE Upto(records[Len(records)].cpu)

\* Each record has instructions and begins where the one before ends.
Linked(records, pc) ==
    \A k \in DOMAIN records :
        /\ records[k].cpu # <<>> /\ From(records[k].cpu) # 0
        /\ From(records[k].cpu) = IF k = 1 THEN pc ELSE Upto(records[k - 1].cpu)

\* The open record begins where the closed ones end and ends where the program is.
OpenLinked(ex, pc) ==
    /\ OuterPc(ex) # 0
    /\ IF OuterCpu(ex) = <<>> THEN OuterPc(ex) = EndOf(ex.records, pc)
       ELSE /\ From(OuterCpu(ex)) = EndOf(ex.records, pc) /\ From(OuterCpu(ex)) # 0
            /\ Upto(OuterCpu(ex)) = OuterPc(ex)

\* The replay ex of the batch that began with s.
Chain(ex, s) ==
    /\ Linked(ex.records, s.pc)
    /\ ex.status # "done" =>
          /\ ex.current_shard = s.current_shard + Len(ex.records)
          /\ ~ex.exited /\ OpenLinked(ex, s.pc)
    /\ ex.status # "run" => EndOf(ex.records, s.pc) = ex.pc
    /\ ex.status = "done" => ex.records # <<>> /\ (ex.exited => ex.pc = 0)

LEMMA AppendCpu ==
  ASSUME NEW cpu \in Seq(CpuEvent), NEW e
  PROVE  /\ Append(cpu, e) # <<>> /\ Upto(Append(cpu, e)) = e.next_pc
         /\ From(Append(cpu, e)) = IF cpu = <<>> THEN e.pc ELSE From(cpu)
<1> DEFINE t == Append(cpu, e)
           n == Len(cpu)
<1>1. /\ n \in Nat /\ Len(t) = n + 1 /\ t[n + 1] = e /\ t # <<>>
      /\ (cpu = <<>> <=> n = 0) /\ \A k \in 1 .. n : t[k] = cpu[k]
  OBVIOUS
<1>2. Head(t) = t[1] /\ Head(cpu) = cpu[1]
  OBVIOUS
<1> HIDE DEF t, n
<1>3. cpu = <<>> => Head(t) = e
  BY <1>1, <1>2
<1>4. cpu # <<>> => Head(t) = Head(cpu)
  BY <1>1, <1>2
<1> QED
  BY <1>1, <1>3, <1>4 DEF From, Upto, Last, t

LEMMA LinkRecord ==
  ASSUME NEW rs \in Seq(TraceRecord), NEW x, NEW pc, Linked(rs, pc), x.cpu # <<>>,
         From(x.cpu) # 0, From(x.cpu) = EndOf(rs, pc)
  PROVE  /\ Linked(Append(rs, x), pc) /\ EndOf(Append(rs, x), pc) = Upto(x.cpu)
         /\ Append(rs, x) # <<>> /\ Len(Append(rs, x)) = Len(rs) + 1
<1> DEFINE n == Len(rs)
           t == Append(rs, x)
<1>1. /\ n \in Nat /\ DOMAIN rs = 1 .. n /\ DOMAIN t = 1 .. n + 1 /\ Len(t) = n + 1
      /\ t[n + 1] = x /\ t # <<>> /\ (rs = <<>> <=> n = 0)
  OBVIOUS
<1>2. \A k \in 1 .. n : t[k] = rs[k]
  OBVIOUS
<1> HIDE DEF n, t
<1>3. Linked(t, pc)
  <2> SUFFICES ASSUME NEW k \in 1 .. n + 1
               PROVE  /\ t[k].cpu # <<>> /\ From(t[k].cpu) # 0
                      /\ From(t[k].cpu) = IF k = 1 THEN pc ELSE Upto(t[k - 1].cpu)
    BY <1>1 DEF Linked
  <2>1. CASE k = n + 1
    <3>1. k # 1 => k - 1 = n /\ n \in 1 .. n /\ n # 0
      BY <1>1, <2>1
    <3>2. k = 1 => n = 0
      BY <1>1, <2>1
    <3> QED
      BY <1>1, <1>2, <2>1, <3>1, <3>2 DEF EndOf, n
  <2>2. CASE k # n + 1
    <3>1. k \in 1 .. n /\ (k # 1 => k - 1 \in 1 .. n)
      BY <1>1, <2>2
    <3> QED
      BY <1>1, <1>2, <3>1 DEF Linked
  <2> QED
    BY <2>1, <2>2
<1>4. EndOf(t, pc) = Upto(x.cpu)
  BY <1>1 DEF EndOf
<1> QED
  BY <1>1, <1>3, <1>4 DEF t, n

LEMMA BumpCpu ==
  ASSUME NEW c, DOMAIN c = Fields, c.mode = "Trace", c.record \in TraceRecord,
         c.records \in Seq(TraceRecord)
  PROVE  /\ \E x : x.cpu = c.record.cpu /\ BumpRecord(c).records = Append(c.records, x)
         /\ BumpRecord(c).record.cpu = <<>>
<1> DEFINE local == {c.local_memory_access[a] : a \in DOMAIN c.local_memory_access}
           x == [c.record EXCEPT !.local = @ \cup local]
<1>1. x.cpu = c.record.cpu
  BY DEF TraceRecord
<1>2. BumpRecord(c).records = Append(c.records, x)
  <2> HIDE DEF local, x
  <2> QED
    BY DEF BumpRecord, Fields, x, local
<1>3. BumpRecord(c).record.cpu = <<>>
  BY DEF BumpRecord, Fields, NewExecRecord
<1> QED
  BY <1>1, <1>2, <1>3

\* The record that is open when a shard ends joins the closed ones.
LEMMA BumpLinks ==
  ASSUME NEW c, NEW pc, DOMAIN c = Fields, c.mode = "Trace", ~c.unconstrained,
         c.record \in TraceRecord, c.records \in Seq(TraceRecord),
         Linked(c.records, pc), c.record.cpu # <<>>, From(c.record.cpu) # 0,
         From(c.record.cpu) = EndOf(c.records, pc), Upto(c.record.cpu) = c.pc
  PROVE  /\ Linked(BumpRecord(c).records, pc) /\ EndOf(BumpRecord(c).records, pc) = c.pc
         /\ BumpRecord(c).records # <<>>
         /\ Len(BumpRecord(c).records) = Len(c.records) + 1
         /\ BumpRecord(c).record.cpu = <<>>
<1>1. PICK x : x.cpu = c.record.cpu /\ BumpRecord(c).records = Append(c.records, x)
  BY BumpCpu
<1>2. BumpRecord(c).record.cpu = <<>>
  BY BumpCpu
<1> QED
  BY <1>1, <1>2, LinkRecord

\* A cycle of the replay.
LEMMA CycleTraces ==
  ASSUME NEW ex, NEW s, NEW i, NEW limit, Sound(ex, "Trace", s), ex.status = "run",
         Instruction(i), ExecuteCycle(ex, i, limit).status # "err"
  PROVE  /\ Traces(ex, ExecuteCycle(ex, i, limit))
         /\ ExecuteCycle(ex, i, limit).exited =>
               ExecuteCycle(ex, i, limit).status = "done"
<1> DEFINE o == ExecuteOperation(ex, i)
           g == [o EXCEPT !.global_clk = @ + 1]
           e == EndCycle(g, limit)
<1>1. ExecuteCycle(ex, i, limit) = e
  BY DEF ExecuteCycle
<1>2. o.status # "err"
  BY CycleForm
<1>3. Traces(ex, o)
  BY <1>2, OperationTraces
<1> HIDE DEF o
<1>4. Keeps(o, g, {"global_clk"})
  BY <1>3 DEF Traces, Keeps, Fields
<1> HIDE DEF g
<1>5. Keeps(g, e, {"status"}) /\ (e.status # "err" /\ e.exited => e.status = "done")
  <2>1. DOMAIN g = Fields
    BY <1>4 DEF Keeps
  <2> QED
    BY <2>1 DEF EndCycle, Err, Keeps, Fields
<1> HIDE DEF e
<1>6. Keeps(o, e, {"global_clk", "status"})
  BY <1>4, <1>5 DEF Keeps
<1>7. /\ e.records = o.records /\ e.current_shard = o.current_shard /\ e.exited = o.exited
      /\ e.pc = o.pc /\ e.unconstrained = o.unconstrained /\ e.fork = o.fork
      /\ e.record = o.record /\ DOMAIN e = Fields
  BY <1>6 DEF Keeps, Fields
<1>8. Traces(ex, e)
  BY <1>3, <1>7 DEF Traces, OuterPc, OuterCpu
<1> QED
  BY <1>1, <1>5, <1>8

\* A turn of the replay keeps the chain.
LEMMA TurnChain ==
  ASSUME NEW r, NEW t, NEW s, NEW i, Sound(r, "Trace", t), r.status = "run", Instruction(i),
         s.current_shard \in Nat, Chain(r, s), LoopTurn(r, i, FALSE).status # "err"
  PROVE  Chain(LoopTurn(r, i, FALSE), s)
<1> DEFINE c == ExecuteCycle(r, i, FALSE)
           inc == IncShardIfNeed(c)
           y == EndTurn(c)
<1>1. LoopTurn(r, i, FALSE) = y
  BY DEF LoopTurn
<1>2. c.status # "err"
  <2> SUFFICES ASSUME c.status = "err" PROVE FALSE
    OBVIOUS
  <2> HIDE DEF c
  <2>1. y = c
    BY DEF EndTurn
  <2> QED
    BY <1>1, <2>1
<1>3. ExecInv(c, "Trace", t) /\ c.status # "batch"
  BY <1>2, CycleSound
<1>4. Traces(r, c) /\ (c.exited => c.status = "done")
  BY <1>2, CycleTraces
<1> HIDE DEF c
<1>5. /\ Sound(c, "Trace", t) /\ DOMAIN c = Fields /\ c.record \in TraceRecord
      /\ c.records \in Seq(TraceRecord) /\ c.status \in {"run", "done"}
      /\ (~c.unconstrained => c.mode = "Trace")
  BY <1>2, <1>3 DEF ExecInv, Sound, Fit, Typed, OuterMode
<1>6. OuterCpu(r) \in Seq(CpuEvent)
  BY DEF Sound, Fit, Typed, ForkTyped, TraceRecord, OuterCpu
<1>7. /\ Linked(r.records, s.pc) /\ r.current_shard = s.current_shard + Len(r.records)
      /\ ~r.exited /\ OpenLinked(r, s.pc)
  BY DEF Chain
<1>8. /\ c.records = r.records /\ c.current_shard = r.current_shard
      /\ (c.exited => ~c.unconstrained /\ c.pc = 0)
  BY <1>4, <1>7 DEF Traces
<1>9. CASE c.unconstrained
  <2>1. c.status = "run" /\ y = c
    BY <1>3, <1>5, <1>9 DEF ExecInv, EndTurn, MayCut
  <2>2. OuterCpu(c) = OuterCpu(r) /\ OuterPc(c) = OuterPc(r)
    BY <1>4, <1>9 DEF Traces
  <2>3. OpenLinked(c, s.pc)
    BY <1>7, <1>8, <2>2 DEF OpenLinked
  <2> QED
    BY <1>1, <1>4, <1>7, <1>8, <2>1, <2>3 DEF Chain
<1>10. CASE ~c.unconstrained
  <2> DEFINE E == EndOf(c.records, s.pc)
  <2>1. c.record.cpu = Append(OuterCpu(r), [pc |-> OuterPc(r), next_pc |-> c.pc])
    BY <1>4, <1>10 DEF Traces
  <2>2. /\ c.record.cpu # <<>> /\ From(c.record.cpu) # 0 /\ From(c.record.cpu) = E
        /\ Upto(c.record.cpu) = c.pc
    BY <1>6, <1>7, <1>8, <2>1, AppendCpu DEF OpenLinked
  <2>3. Linked(c.records, s.pc) /\ c.current_shard = s.current_shard + Len(c.records)
    BY <1>7, <1>8
  <2>4. CASE c.status = "done"
    <3> DEFINE b == BumpRecord(c)
    <3>1. y = b
      BY <2>4 DEF EndTurn
    <3>2. Keeps(c, b, {"local_mem", "local_memory_access", "record", "records"})
      BY <1>5, <1>10, BumpSound
    <3>3. /\ Linked(b.records, s.pc) /\ EndOf(b.records, s.pc) = c.pc /\ b.records # <<>>
      BY <1>5, <1>10, <2>2, <2>3, BumpLinks
    <3> HIDE DEF b
    <3>4. b.status = "done" /\ b.pc = c.pc /\ b.exited = c.exited
      BY <2>4, <3>2 DEF Keeps, Fields
    <3> QED
      BY <1>1, <1>8, <3>1, <3>3, <3>4 DEF Chain
  <2>5. CASE c.status = "run" /\ (~MayCut(c) \/ ~inc.cut)
    <3>1. y = c
      BY <2>5 DEF EndTurn
    <3>2. c.pc # 0
      BY <1>3, <2>5 DEF ExecInv
    <3>3. OpenLinked(c, s.pc)
      BY <1>10, <2>2, <3>2 DEF OpenLinked, OuterPc, OuterCpu
    <3> QED
      BY <1>1, <1>4, <2>3, <2>5, <3>1, <3>3 DEF Chain
  <2>6. CASE c.status = "run" /\ MayCut(c) /\ inc.cut
    <3> DEFINE n == inc.ex
               b == BumpRecord(n)
               f == [b EXCEPT !.status = "batch"]
    <3>1. y = EndShard(b)
      BY <2>6 DEF EndTurn
    <3>2. y \in {b, f}
      BY <3>1 DEF EndShard
    <3>3. /\ Keeps(c, n, {"current_shard", "clk", "records_clk", "records_clk_index"})
          /\ n.current_shard = c.current_shard + 1 /\ n.clk = 0
      BY <1>5, <2>6, CutFacts
    <3> HIDE DEF n
    <3>4. /\ n.record = c.record /\ n.records = c.records /\ n.mode = c.mode /\ n.pc = c.pc
          /\ n.unconstrained = c.unconstrained /\ n.exited = c.exited
          /\ n.status = c.status /\ DOMAIN n = Fields
      BY <3>3 DEF Keeps, Fields
    <3>5. Sound(n, "Trace", t)
      BY <1>5, <1>10, <3>3, ShardSound
    <3>6. Keeps(n, b, {"local_mem", "local_memory_access", "record", "records"})
      BY <1>10, <3>4, <3>5, BumpSound
    <3>7. /\ Linked(b.records, s.pc) /\ EndOf(b.records, s.pc) = n.pc /\ b.records # <<>>
          /\ Len(b.records) = Len(n.records) + 1 /\ b.record.cpu = <<>>
      BY <1>5, <1>10, <2>2, <2>3, <3>4, BumpLinks
    <3> HIDE DEF b
    <3>8. /\ b.status = "run" /\ b.pc = c.pc /\ ~b.exited /\ ~b.unconstrained
          /\ b.current_shard = c.current_shard + 1 /\ DOMAIN b = Fields
      <4>1. ~c.exited
        BY <1>4, <2>6
      <4> QED
        BY <1>10, <2>6, <3>3, <3>4, <3>6, <4>1 DEF Keeps, Fields
    <3>9. Keeps(b, f, {"status"})
      BY <3>8 DEF Keeps, Fields
    <3> HIDE DEF f
    <3>10. Keeps(b, y, {"status"}) /\ (y.status = "run" \/ y.status = "batch")
      <4>1. f.status = "batch"
        BY <3>8 DEF f, Fields
      <4> QED
        BY <3>2, <3>8, <3>9, <4>1 DEF Keeps
    <3> HIDE DEF y
    <3>11. /\ y.records = b.records /\ y.record = b.record /\ y.pc = b.pc
           /\ y.exited = b.exited /\ y.unconstrained = b.unconstrained
           /\ y.current_shard = b.current_shard
      BY <3>10 DEF Keeps, Fields
    <3>12. c.pc # 0
      BY <1>3, <2>6 DEF ExecInv
    <3>13. OpenLinked(y, s.pc)
      BY <3>4, <3>7, <3>8, <3>11, <3>12 DEF OpenLinked, OuterPc, OuterCpu
    <3>14. y.current_shard = s.current_shard + Len(y.records)
      <4>1. Len(c.records) \in Nat
        BY <1>5
      <4> QED
        BY <2>3, <3>4, <3>7, <3>8, <3>11, <4>1
    <3>15. Chain(y, s)
      BY <3>4, <3>7, <3>8, <3>10, <3>11, <3>13, <3>14 DEF Chain
    <3> QED
      BY <1>1, <3>15
  <2> QED
    BY <1>5, <2>4, <2>5, <2>6
<1> QED
  BY <1>9, <1>10

\* The replay begins the chain.
LEMMA RecoverFresh ==
  ASSUME NEW c
  PROVE  Recover(c).record.cpu = <<>> /\ Recover(c).records = <<>>
<1> DEFINE n == NewExecutor(DefaultHooks, c.opts)
           e == [n EXCEPT
                    !.pc = c.pc, !.next_pc = c.next_pc, !.clk = c.clk,
                    !.global_clk = c.global_clk, !.current_shard = c.current_shard,
                    !.exited = c.exited, !.next_is_delayslot = c.next_is_delayslot,
                    !.records_clk = c.records_clk,
                    !.records_clk_index = c.records_clk_index, !.memory = c.memory,
                    !.uninitialized_memory = c.uninitialized_memory,
                    !.input_stream = c.input_stream,
                    !.input_stream_ptr = c.input_stream_ptr,
                    !.public_values_stream = c.public_values_stream,
                    !.proof_stream = c.proof_stream,
                    !.proof_stream_ptr = c.proof_stream_ptr,
                    !.verify_deferred = VerifiesAgain, !.mode = "Trace", !.emit = TRUE]
<1>1. Recover(c) = Initialize(e)
  BY DEF Recover
<1>2. DOMAIN n = Fields /\ n.record = NewExecRecord /\ n.records = <<>>
  BY DEF NewExecutor, Fields
<1> HIDE DEF n
<1>3. DOMAIN e = Fields /\ e.record = NewExecRecord /\ e.records = <<>>
  BY <1>2 DEF Fields
<1> HIDE DEF e
<1>4. Keeps(e, Initialize(e), {"clk", "records_clk_index", "memory"})
  BY <1>3, InitializeFacts
<1> QED
  BY <1>1, <1>3, <1>4 DEF Keeps, Fields, NewExecRecord

-----------------------------------------------------------------------------
(* The shards of all batches. *)

ShardsEnd(sh) == IF sh = <<>> THEN 1 ELSE sh[Len(sh)].next_pc

\* What the verifier asks of CPU shards.
Chained(sh) ==
    \A k \in DOMAIN sh :
        /\ sh[k].execution_shard = k /\ sh[k].start_pc # 0
        /\ sh[k].start_pc = IF k = 1 THEN 1 ELSE sh[k - 1].next_pc

LEMMA JoinShards ==
  ASSUME NEW S, NEW sh \in Seq(S), Chained(sh), NEW ex, ex.records \in Seq(TraceRecord),
         NEW pc, Linked(ex.records, pc), pc = ShardsEnd(sh)
  PROVE  LET z == sh \o WithPublicValues(ex, Len(sh) + 1)
         IN /\ Chained(z) /\ ShardsEnd(z) = EndOf(ex.records, pc)
            /\ Len(z) = Len(sh) + Len(ex.records)
<1> DEFINE rs == ex.records
           w == WithPublicValues(ex, Len(sh) + 1)
           z == sh \o w
           m == Len(sh)
           n == Len(rs)
           T == {w[k] : k \in DOMAIN w}
<1>1. /\ m \in Nat /\ n \in Nat /\ DOMAIN rs = 1 .. n /\ DOMAIN sh = 1 .. m
      /\ (sh = <<>> <=> m = 0) /\ (rs = <<>> <=> n = 0)
  OBVIOUS
<1>2. /\ w = [k \in DOMAIN rs |-> w[k]]
      /\ \A k \in DOMAIN rs : /\ w[k].execution_shard = (m + 1) + k - 1
                              /\ w[k].start_pc = From(rs[k].cpu)
                              /\ w[k].next_pc = Upto(rs[k].cpu)
  BY DEF WithPublicValues, From, Upto
<1> HIDE DEF w, rs, m, n
<1>3. w \in Seq(T) /\ Len(w) = n
  <2>1. w \in [1 .. n -> T]
    BY <1>1, <1>2
  <2> HIDE DEF T
  <2>2. w \in Seq(T)
    <3>1. \A q \in Nat : \A f \in [1 .. q -> T] : f \in Seq(T)
      OBVIOUS
    <3> QED
      BY <1>1, <2>1, <3>1
  <2>3. DOMAIN w = 1 .. n /\ DOMAIN w = 1 .. Len(w) /\ Len(w) \in Nat
    BY <2>1, <2>2
  <2>4. \A p, q \in Nat : 1 .. p = 1 .. q => p = q
    OBVIOUS
  <2> QED
    BY <1>1, <2>2, <2>3, <2>4
<1> HIDE DEF T
<1>4. /\ Len(z) = m + n /\ DOMAIN z = 1 .. m + n
      /\ \A k \in 1 .. m : z[k] = sh[k]
      /\ \A k \in 1 .. n : z[m + k] = w[k]
      /\ (z = <<>> <=> m + n = 0)
  <2>1. sh \in Seq(S \cup T) /\ w \in Seq(S \cup T)
    BY <1>3
  <2>2. z \in Seq(S \cup T) /\ Len(z) = m + n
    BY <1>3, <2>1 DEF m
  <2>3. \A k \in 1 .. m + n : z[k] = IF k <= m THEN sh[k] ELSE w[k - m]
    BY <1>3, <2>1 DEF m
  <2>4. \A k \in 1 .. m : k \in 1 .. m + n /\ k <= m
    BY <1>1
  <2>5. \A k \in 1 .. n : m + k \in 1 .. m + n /\ ~(m + k <= m) /\ (m + k) - m = k
    BY <1>1
  <2> HIDE DEF z
  <2>6. DOMAIN z = 1 .. m + n /\ (z = <<>> <=> m + n = 0)
    BY <1>1, <2>2
  <2> QED
    BY <2>2, <2>3, <2>4, <2>5, <2>6
<1> HIDE DEF z
<1>5. Chained(z)
  <2> SUFFICES ASSUME NEW k \in 1 .. m + n
               PROVE  /\ z[k].execution_shard = k /\ z[k].start_pc # 0
                      /\ z[k].start_pc = IF k = 1 THEN 1 ELSE z[k - 1].next_pc
    BY <1>4 DEF Chained
  <2>1. CASE k <= m
    <3>1. k \in 1 .. m /\ (k # 1 => k - 1 \in 1 .. m)
      BY <1>1, <2>1
    <3> QED
      BY <1>1, <1>4, <3>1 DEF Chained
  <2>2. CASE ~(k <= m)
    <3> DEFINE j == k - m
    <3>1. /\ j \in 1 .. n /\ k = m + j /\ (m + 1) + j - 1 = k
          /\ (j # 1 => j - 1 \in 1 .. n /\ k - 1 = m + (j - 1) /\ k # 1)
          /\ (j = 1 /\ k # 1 => k - 1 = m /\ m \in 1 .. m /\ m # 0)
          /\ (k = 1 => j = 1 /\ m = 0)
      BY <1>1, <2>2
    <3> HIDE DEF j
    <3>2. z[k] = w[j] /\ j \in DOMAIN rs
      BY <1>1, <1>4, <3>1
    <3>3. z[k].execution_shard = k /\ z[k].start_pc = From(rs[j].cpu)
      BY <1>2, <3>1, <3>2
    <3>4. /\ From(rs[j].cpu) # 0
          /\ From(rs[j].cpu) = IF j = 1 THEN pc ELSE Upto(rs[j - 1].cpu)
      BY <3>2 DEF Linked, rs
    <3>5. CASE j # 1
      <4>1. z[k - 1] = w[j - 1] /\ j - 1 \in DOMAIN rs
        BY <1>1, <1>4, <3>1, <3>5
      <4> QED
        BY <1>2, <3>1, <3>3, <3>4, <3>5, <4>1
    <3>6. CASE j = 1 /\ k # 1
      <4>1. z[k - 1] = sh[m] /\ m # 0
        BY <1>4, <3>1, <3>6
      <4> QED
        BY <1>1, <3>3, <3>4, <3>6, <4>1 DEF ShardsEnd, m
    <3>7. CASE k = 1
      BY <1>1, <3>1, <3>3, <3>4, <3>7 DEF ShardsEnd
    <3> QED
      BY <3>5, <3>6, <3>7
  <2> QED
    BY <2>1, <2>2
<1>6. ShardsEnd(z) = EndOf(rs, pc)
  <2>1. CASE n = 0
    <3>1. m + n = m /\ (m # 0 => m \in 1 .. m)
      BY <1>1, <2>1
    <3> QED
      BY <1>1, <1>4, <2>1, <3>1 DEF ShardsEnd, EndOf, m
  <2>2. CASE n # 0
    <3>1. n \in 1 .. n /\ m + n # 0
      BY <1>1, <2>2
    <3>2. z[m + n] = w[n] /\ w[n].next_pc = Upto(rs[n].cpu)
      BY <1>1, <1>2, <1>4, <3>1
    <3> QED
      BY <1>1, <1>4, <2>2, <3>1, <3>2 DEF ShardsEnd, EndOf, n
  <2> QED
    BY <2>1, <2>2
<1> QED
  BY <1>4, <1>5, <1>6 DEF z, w, m, n, rs

ChainInv ==
    /\ Chained(shards)
    /\ phase # "done" => /\ saved.current_shard = Len(shards) + 1
                         /\ saved.pc = ShardsEnd(shards) /\ ~saved.exited
    /\ phase = "replay" => Chain(rep, saved)
    /\ phase = "done" /\ gen.exited => ShardsEnd(shards) = 0

\* A replay that follows the generator does not fail.
LEMMA ReplayGoesWell ==
  ASSUME NEW p, NEW s, NEW g, NEW r, Replayed(p, s, g, r)
  PROVE  r.status # "err"
<1>1. PICK n \in Nat : \E t : /\ Trail(n, t, p, s, g)
                              /\ \E k \in 0 .. n : Follows(t[k], r, s, g)
  BY DEF Replayed
<1>2. PICK t : /\ Trail(n, t, p, s, g)
               /\ \E k \in 0 .. n : Follows(t[k], r, s, g)
  BY <1>1
<1>3. PICK k \in 0 .. n : Follows(t[k], r, s, g)
  BY <1>2
<1>4. t[k].status # "err"
  BY <1>2 DEF Trail, Waypoint, ExecInv
<1> QED
  BY <1>3, <1>4, SimFields DEF Follows

LEMMA InitChain == Init => ChainInv
<1> SUFFICES ASSUME Init PROVE ChainInv
  OBVIOUS
<1>1. PICK c \in Cases :
        /\ saved = [BeginBatch(NewExecutor(ContextHooks, c.opts)) EXCEPT
                      !.proof_stream = ProofStream]
        /\ phase = "generate" /\ shards = <<>>
  BY DEF Init
<1>2. saved.current_shard = 1 /\ saved.pc = 1 /\ ~saved.exited
  BY <1>1 DEF NewExecutor, BeginBatch
<1>3. Len(shards) = 0 /\ DOMAIN shards = {}
  BY <1>1
<1> QED
  BY <1>1, <1>2, <1>3 DEF ChainInv, Chained, ShardsEnd

LEMMA CheckpointChain ==
  ReplayInv /\ MatchInv /\ ChainInv /\ Checkpoint => ChainInv'
<1> SUFFICES ASSUME ReplayInv, MatchInv, ChainInv, Checkpoint PROVE ChainInv'
  OBVIOUS
<1>1. /\ phase = "generate" /\ gen.status \in {"batch", "done"} /\ phase' = "replay"
      /\ rep' = Recover(MakeCheckpoint(saved, gen))
      /\ UNCHANGED <<prog, gen, saved, shards, before>>
  BY DEF Checkpoint
<1>2. /\ ExecInv(gen, "Checkpoint", saved) /\ Begun(saved) /\ gen.status # "run"
      /\ Start(saved) /\ Typed(saved) /\ saved.pc # 0 /\ saved.current_shard \in Nat
  BY <1>1 DEF ReplayInv, MatchInv, Begun, Typed
<1>3. PICK n \in Nat : \E t : Trail(n, t, prog, saved, gen)
  BY <1>1 DEF MatchInv, Generated
<1>4. PICK t : Trail(n, t, prog, saved, gen)
  BY <1>3
<1>5. 0 \in 0 .. n /\ t[0] = Initialize(saved)
  BY <1>4 DEF Trail
<1>6. Waypoint(t[0], saved, gen)
  BY <1>4, <1>5 DEF Trail
<1> DEFINE x == Initialize(saved)
<1>7. Typed(x) /\ Extends(x, gen)
  BY <1>5, <1>6 DEF Waypoint, ExecInv, Sound, Fit, Later
<1>8. Sim(x, rep', KnownWords(saved, gen), KnownHints(gen))
  BY <1>1, <1>2, <1>7, RecoverSim
<1>9. Keeps(saved, x, {"clk", "records_clk_index", "memory"})
  BY <1>2, InitializeFacts DEF Typed
<1> HIDE DEF x
<1>10. /\ rep'.pc = saved.pc /\ rep'.current_shard = saved.current_shard
       /\ rep'.exited = saved.exited /\ ~rep'.unconstrained /\ rep'.status = "run"
  <2>1. /\ rep'.pc = x.pc /\ rep'.current_shard = x.current_shard /\ rep'.exited = x.exited
        /\ rep'.unconstrained = x.unconstrained /\ rep'.status = x.status
    BY <1>8, SimFields
  <2> QED
    BY <1>2, <1>9, <2>1 DEF Keeps, Fields, Start
<1>11. rep'.record.cpu = <<>> /\ rep'.records = <<>>
  BY <1>1, RecoverFresh
<1>12. ~saved.exited
  BY <1>1 DEF ChainInv
<1>13. Chain(rep', saved)
  <2>1. Len(rep'.records) = 0 /\ DOMAIN rep'.records = {}
    BY <1>11
  <2>2. Linked(rep'.records, saved.pc) /\ EndOf(rep'.records, saved.pc) = saved.pc
    BY <1>11, <2>1 DEF Linked, EndOf
  <2>3. OpenLinked(rep', saved.pc)
    BY <1>2, <1>10, <1>11, <2>2 DEF OpenLinked, OuterPc, OuterCpu
  <2> QED
    BY <1>2, <1>10, <1>12, <2>1, <2>2, <2>3 DEF Chain
<1> QED
  BY <1>1, <1>13 DEF ChainInv

LEMMA ReplayStepChain ==
  ReplayInv /\ MatchInv /\ ChainInv /\ Replay => ChainInv'
<1> SUFFICES ASSUME ReplayInv, MatchInv, ChainInv, Replay PROVE ChainInv'
  OBVIOUS
<1>1. /\ phase = "replay" /\ rep.status = "run"
      /\ rep' = IF prog[rep.pc] = None THEN Err(rep) ELSE LoopTurn(rep, prog[rep.pc], FALSE)
      /\ UNCHANGED <<prog, gen, saved, phase, shards>>
  BY DEF Replay
<1>2. Replayed(prog', saved', gen', rep')
  BY <1>1, ReplayStepMatch DEF MatchInv
<1>3. rep'.status # "err"
  BY <1>2, ReplayGoesWell
<1>4. ExecInv(rep, "Trace", saved) /\ DOMAIN rep = Fields /\ rep.pc \in 1 .. ProgramLength
  BY <1>1 DEF ReplayInv, ExecInv, Sound, Fit, Typed
<1>5. prog[rep.pc] # None
  BY <1>1, <1>3, <1>4 DEF Err, Fields
<1>6. Instruction(prog[rep.pc])
  BY <1>4, <1>5 DEF ReplayInv, ProgramOk
<1>7. Sound(rep, "Trace", saved) /\ saved.current_shard \in Nat /\ Chain(rep, saved)
  BY <1>1, <1>4 DEF ExecInv, ReplayInv, Begun, Typed, ChainInv
<1>8. rep' = LoopTurn(rep, prog[rep.pc], FALSE)
  BY <1>1, <1>5
<1>9. Chain(rep', saved)
  BY <1>1, <1>3, <1>6, <1>7, <1>8, TurnChain
<1> QED
  BY <1>1, <1>9 DEF ChainInv

LEMMA EndReplayChain ==
  ReplayInv /\ MatchInv /\ ChainInv /\ EndReplay => ChainInv'
<1> SUFFICES ASSUME ReplayInv, MatchInv, ChainInv, EndReplay PROVE ChainInv'
  OBVIOUS
<1> DEFINE x == [BeginBatch(gen) EXCEPT !.records_clk = <<>>,
                                        !.uninitialized_memory_checkpoint = Empty]
<1>1. /\ phase = "replay" /\ rep.status \in {"batch", "done"} /\ UNCHANGED <<prog, rep>>
      /\ shards' = shards \o WithPublicValues(rep, saved.current_shard)
  BY DEF EndReplay
<1>2. /\ saved.current_shard = Len(shards) + 1 /\ saved.pc = ShardsEnd(shards)
      /\ Chain(rep, saved) /\ Chained(shards)
  BY <1>1 DEF ChainInv
<1>3. /\ Follows(gen, rep, saved, gen) /\ ExecInv(gen, "Checkpoint", saved)
  BY <1>1, ReplayArrives DEF MatchInv
<1>4. /\ rep.status = gen.status /\ rep.pc = gen.pc /\ rep.exited = gen.exited
      /\ rep.current_shard = gen.current_shard /\ DOMAIN gen = Fields
  BY <1>3, SimFields DEF Follows, Sim
<1>5. rep.records \in Seq(TraceRecord)
  BY <1>1 DEF ReplayInv, ExecInv, Sound, Fit, Typed
<1>6. PICK S : shards \in Seq(S)
  BY DEF ReplayInv, ShardsOk
<1>7. /\ Chained(shards') /\ ShardsEnd(shards') = EndOf(rep.records, saved.pc)
      /\ Len(shards') = Len(shards) + Len(rep.records)
  <2>1. Linked(rep.records, saved.pc)
    BY <1>2 DEF Chain
  <2> QED
    BY <1>1, <1>2, <1>5, <1>6, <2>1, JoinShards
<1>8. EndOf(rep.records, saved.pc) = rep.pc
  BY <1>1, <1>2 DEF Chain
<1>9. CASE gen.status = "done"
  <2>1. phase' = "done" /\ UNCHANGED <<gen, saved>>
    BY <1>9 DEF EndReplay
  <2>2. rep.exited => rep.pc = 0
    BY <1>2, <1>4, <1>9 DEF Chain
  <2> QED
    BY <1>4, <1>7, <1>8, <2>1, <2>2 DEF ChainInv
<1>10. CASE gen.status # "done"
  <2>1. phase' = "generate" /\ gen' = x /\ saved' = x
    BY <1>10 DEF EndReplay
  <2>2. x.pc = gen.pc /\ x.exited = gen.exited /\ x.current_shard = gen.current_shard
    BY <1>4 DEF BeginBatch, Fields
  <2> HIDE DEF x
  <2>3. ~rep.exited /\ rep.current_shard = saved.current_shard + Len(rep.records)
    BY <1>2, <1>4, <1>10 DEF Chain
  <2>4. Len(shards) \in Nat /\ Len(rep.records) \in Nat
    BY <1>5, <1>6
  <2>5. x.current_shard = Len(shards') + 1
    <3>1. x.current_shard = (Len(shards) + 1) + Len(rep.records)
      BY <1>2, <1>4, <2>2, <2>3
    <3>2. Len(shards') = Len(shards) + Len(rep.records)
      BY <1>7
    <3>3. (Len(shards) + 1) + Len(rep.records) = (Len(shards) + Len(rep.records)) + 1
      <4>1. \A p, q \in Nat : (p + 1) + q = (p + q) + 1
        OBVIOUS
      <4> QED
        BY <2>4, <4>1
    <3> QED
      BY <3>1, <3>2, <3>3
  <2> QED
    BY <1>4, <1>7, <1>8, <2>1, <2>2, <2>3, <2>5 DEF ChainInv
<1> QED
  BY <1>9, <1>10

\* The shards so far satisfy the verifier's rules, the next batch begins where they end,
\* and the replay continues them with the shard numbers the generator counted.
THEOREM ChainInvariant ==
  ASSUME OnlyDefaultHooks
  PROVE  Spec => [](ReplayInv /\ MatchInv /\ ChainInv)
<1>1. Init => ChainInv
  BY InitChain
<1>2. ReplayInv /\ MatchInv /\ ChainInv /\ [Next]_vars => ChainInv'
  <2> SUFFICES ASSUME ReplayInv, MatchInv, ChainInv, [Next]_vars PROVE ChainInv'
    OBVIOUS
  <2>1. CASE Stop \/ UNCHANGED vars
    BY <2>1 DEF Stop, vars, ChainInv
  <2>2. CASE Generate
    BY <2>2 DEF Generate, ChainInv
  <2> QED
    BY <2>1, <2>2, CheckpointChain, ReplayStepChain, EndReplayChain DEF Next
<1> QED
  BY <1>1, <1>2, MatchInvariant, PTL DEF Spec

\* The shards of a program that halts, however many batches and shards it takes, pass
\* the checks of ZKMProver::verify on execution shards and program counters.
THEOREM ShardsChainHolds ==
  ASSUME OnlyDefaultHooks
  PROVE  Spec => []ShardsChain
<1>1. ReplayInv /\ ChainInv => ShardsChain
  <2> SUFFICES ASSUME ReplayInv, ChainInv, phase = "done", gen.exited
               PROVE  /\ Verifier!ExecutionShardsCountUp(ShardProofs)
                      /\ Verifier!ProgramCounterChain(ShardProofs)
    BY DEF ShardsChain
  <2>1. Chained(shards) /\ ShardsEnd(shards) = 0
    BY DEF ChainInv
  <2>2. PICK S : shards \in Seq(S)
    BY DEF ReplayInv, ShardsOk
  <2> DEFINE n == Len(shards)
  <2>3. n \in Nat /\ DOMAIN shards = 1 .. n
    BY <2>2
  <2>4. /\ DOMAIN ShardProofs = 1 .. n /\ Len(ShardProofs) = n
        /\ \A k \in 1 .. n : ShardProofs[k].cpu = TRUE /\ ShardProofs[k].pv = shards[k]
    BY <2>3 DEF ShardProofs
  <2> HIDE DEF n, ShardProofs
  <2>5. ASSUME NEW k \in 1 .. n PROVE Verifier!CpuUpTo(ShardProofs, k) = k
    <3>1. k \in Nat /\ \A j \in 1 .. k : j \in 1 .. n
      BY <2>3
    <3>2. {j \in 1 .. k : ShardProofs[j].cpu} = 1 .. k
      BY <2>4, <3>1
    <3>3. Cardinality(1 .. k) = k
      BY <3>1, FS_Interval
    <3>4. Verifier!CpuUpTo(ShardProofs, k) = Cardinality({j \in 1 .. k : ShardProofs[j].cpu})
      BY Zenon DEF Verifier!CpuUpTo, Verifier!Cardinality, Cardinality
    <3> QED
      BY <3>2, <3>3, <3>4
  <2>6. Verifier!ExecutionShardsCountUp(ShardProofs)
    BY <2>1, <2>3, <2>4, <2>5 DEF Verifier!ExecutionShardsCountUp, Chained
  <2>7. Verifier!ProgramCounterChain(ShardProofs)
    <3> SUFFICES ASSUME NEW k \in 1 .. n
                 PROVE  /\ shards[k].start_pc =
                              IF k = 1 THEN 1 ELSE ShardProofs[k - 1].pv.next_pc
                        /\ shards[k].start_pc # 0
                        /\ k = n => shards[k].next_pc = 0
      BY <2>4 DEF Verifier!ProgramCounterChain
    <3>1. k # 1 => k - 1 \in 1 .. n
      BY <2>3
    <3>2. /\ shards[k].start_pc # 0
          /\ shards[k].start_pc = IF k = 1 THEN 1 ELSE shards[k - 1].next_pc
      BY <2>1, <2>3 DEF Chained
    <3>3. k = n => shards[k].next_pc = 0
      BY <2>1, <2>2, <2>3 DEF ShardsEnd, n
    <3> QED
      BY <2>4, <3>1, <3>2, <3>3
  <2> QED
    BY <2>6, <2>7
<1> QED
  BY <1>1, ChainInvariant, PTL
=============================================================================
