---------------------------- MODULE CompressTree ----------------------------
(***************************************************************************)
(* ZKMProver::compress of prover/src/lib.rs: the threads that reduce the   *)
(* shard proofs of a core proof, and the deferred proofs it refers to, to  *)
(* one proof.                                                              *)
(*                                                                         *)
(*   leaf sender --\                                                       *)
(*                  input --> workers --> traces --> provers --> proofs    *)
(*   tree thread --/                                               |       *)
(*        ^--------------------------------------------------------/       *)
(*                                                                         *)
(* The first layer has one input per proof.  The tree thread pairs proofs  *)
(* in the order of their indices and feeds the pairs back as inputs of the *)
(* next layer; a batch whose two proofs are of different layers shows that *)
(* a layer had an odd length, and then only its first proof goes up.       *)
(* Three turn counters keep each channel in the order of the indices; a    *)
(* wait for a turn is a guard here, which TurnBasedSync.tla justifies.     *)
(*                                                                         *)
(* The public values of a proof are the shards it covers and how far it    *)
(* has folded the deferred proofs' digest, a digest being the number of    *)
(* proofs folded into it.  The recursion programs assert that their inputs *)
(* are consecutive; a worker executes the program and panics when an       *)
(* assertion fails.                                                        *)
(*                                                                         *)
(* Main holds a receiver of each channel until its closure ends, and       *)
(* joins the provers and the tree thread; the leaf sender and the workers  *)
(* are only waited for by thread::scope.  A thread that panics in a send   *)
(* poisons the sender's mutex, but it still owns the turn, so that no      *)
(* other thread gets as far as that mutex.                                 *)
(***************************************************************************)
EXTENDS Naturals, FiniteSets, Sequences, SequencesExt

CONSTANTS
    Workers,         \* recursion_opts.trace_gen_workers threads
    Provers,         \* the prover_handles, a sequence of shard_batch_size threads
    LeafSender,      \* the thread that sends the first layer
    TreeThread,      \* the thread that makes the next layers
    InputCapacity,   \* recursion_opts.checkpoints_channel_capacity
    TraceCapacity,   \* recursion_opts.records_and_traces_channel_capacity
    MaxShards,       \* bound: shard proofs of the core proof
    MaxDeferred,     \* bound: deferred proofs
    MaxFaults        \* bound: failures of a run

ASSUME CompressAssumption ==
    /\ Workers # {} /\ Provers # <<>> /\ Provers \in Seq(ToSet(Provers))
    /\ LeafSender # TreeThread /\ Workers \cap ToSet(Provers) = {}
    /\ {LeafSender, TreeThread} \cap (Workers \cup ToSet(Provers)) = {}
    /\ {InputCapacity, TraceCapacity, MaxShards} \subseteq Nat \ {0}
    /\ {MaxDeferred, MaxFaults} \subseteq Nat

REDUCE_BATCH_SIZE == 2

Threads == {LeafSender, TreeThread} \cup Workers \cup ToSet(Provers)
Channels == {"input", "traces", "proofs"}

VARIABLES
    shards,      \* proof.proof.0.len()
    deferreds,   \* deferred_proofs.len()
    committed,   \* last_proof_pv.deferred_proofs_digest
    pc,          \* where each thread is
    held,        \* held[t]: the input, record or proof thread t has at hand
    channel,     \* channel[c]: what has been sent and not received
    turn,        \* turn[c]: current_turn of the counter that orders channel c
    batch,       \* tree thread: the proofs it has not used yet
    count,       \* tree thread: the index of its next input
    joined,      \* how many handles main has joined: the provers, then the tree
    mainPc,      \* "join", "returned" or "panic"
    root,        \* the proof main takes, as a sequence of at most one
    faults,      \* how many failures have happened
    result       \* "running", "ok" or "panic"

sizes == <<shards, deferreds, committed>>
tree == <<batch, count>>
main == <<joined, mainPc, root, result>>
vars == <<sizes, pc, held, channel, turn, tree, main, faults>>

Ended == {"ok", "err", "panic"}
NoItem == [index |-> 0, height |-> 0, proofs |-> <<>>, complete |-> FALSE]

-----------------------------------------------------------------------------
(* Inputs and public values. *)

\* num_first_layer_inputs: the first layer's batch size is 1.
NumLeaves == shards + deferreds

\* The public values of a shard's proof: its shard number, and nothing folded.
CoreRange(i) ==
    [startShard |-> i + 1, nextShard |-> i + 2, startDigest |-> 0, endDigest |-> 0]

\* A deferred proof stands after the last shard and folds one proof.
DeferredRange(j) ==
    [startShard |-> shards + 1, nextShard |-> shards + 1, startDigest |-> j,
     endDigest |-> j + 1]

\* Mutant of CoreIsComplete: the deferred proofs are forgotten.
BugCoreIsComplete == shards = 1

CoreIsComplete == shards = 1 /\ deferreds = 0

\* get_first_layer_inputs: the core inputs, then the deferred ones.
LeafInput(i) ==
    [index |-> i, height |-> 0,
     proofs |-> << IF i < shards THEN CoreRange(i) ELSE DeferredRange(i - shards) >>,
     complete |-> i < shards /\ CoreIsComplete]

Adjacent(a, b) == a.nextShard = b.startShard /\ a.endDigest = b.startDigest

\* The aggregated public values of an input's proofs.
Aggregate(x) ==
    [startShard |-> Head(x.proofs).startShard, nextShard |-> Last(x.proofs).nextShard,
     startDigest |-> Head(x.proofs).startDigest, endDigest |-> Last(x.proofs).endDigest]

\* assert_complete.  The program's next_pc is 0 after its last shard only.
CompleteRange(r) ==
    /\ r.startShard = 1 /\ r.nextShard = shards + 1
    /\ r.startDigest = 0 /\ r.endDigest = committed

\* What the recursion program asserts of its input.
Accepts(x) ==
    /\ \A i \in 1 .. Len(x.proofs) - 1 : Adjacent(x.proofs[i], x.proofs[i + 1])
    /\ x.complete => CompleteRange(Aggregate(x))

\* How many times the loop halves n inputs.
Halvings[n \in Nat] == IF n > REDUCE_BATCH_SIZE THEN 1 + Halvings[(n + 1) \div 2] ELSE 0

\* Mutant of ExpectedHeight: the first layer is not counted.
BugShortHeight == Halvings[NumLeaves]

\* Mutant of ExpectedHeight: a layer of two counts as one to halve.
BugTallHeight == IF NumLeaves = 1 THEN 0 ELSE 2 + Halvings[NumLeaves]

ExpectedHeight == IF NumLeaves = 1 THEN 0 ELSE 1 + Halvings[NumLeaves]

Init ==
    /\ shards \in 1 .. MaxShards
    /\ deferreds \in 0 .. MaxDeferred
    /\ committed \in 0 .. MaxDeferred
    /\ pc = [t \in Threads |->
                CASE t = LeafSender -> "send"
                  [] t = TreeThread /\ ExpectedHeight = 0 -> "ok"
                  [] OTHER -> "recv"]
    /\ held = [t \in Threads |-> IF t = LeafSender THEN LeafInput(0) ELSE NoItem]
    /\ channel = [c \in Channels |-> <<>>]
    /\ turn = [c \in Channels |-> 0]
    /\ batch = <<>> /\ count = NumLeaves
    /\ joined = 0 /\ mainPc = "join" /\ root = <<>>
    /\ faults = 0
    /\ result = "running"

-----------------------------------------------------------------------------
(* Channels: bounded, ordered by a turn counter, and disconnected once the  *)
(* threads of one side have ended.  Main keeps the receivers while it runs. *)

Receivers(c) == CASE c = "input" -> Workers
                  [] c = "traces" -> ToSet(Provers)
                  [] c = "proofs" -> {TreeThread}
Senders(c) == CASE c = "input" -> {LeafSender, TreeThread}
                [] c = "traces" -> Workers
                [] c = "proofs" -> ToSet(Provers)
In(t) == IF t \in Workers THEN "input" ELSE IF t = TreeThread THEN "proofs" ELSE "traces"
Out(t) ==
    IF t \in Workers THEN "traces" ELSE IF t \in ToSet(Provers) THEN "proofs" ELSE "input"

MainHolds == mainPc = "join"
NoSender(c) == \A t \in Senders(c) : pc[t] \in Ended
NoReceiver(c) == ~MainHolds /\ \A t \in Receivers(c) : pc[t] \in Ended

ProofCapacity == NumLeaves * 2

Capacity(c) == CASE c = "input" -> InputCapacity
                 [] c = "traces" -> TraceCapacity
                 [] c = "proofs" -> ProofCapacity

\* wait_for_turn returns.
HasTurn(t) == pc[t] = "send" /\ turn[Out(t)] = held[t].index

\* The thread in turn sends.  The tree thread remembers that it sent the root.
Send(t) ==
    /\ HasTurn(t) /\ ~NoReceiver(Out(t))
    /\ Len(channel[Out(t)]) < Capacity(Out(t))
    /\ channel' = [channel EXCEPT ![Out(t)] = Append(@, held[t])]
    /\ held' = [held EXCEPT ![t] = NoItem]
    /\ pc' = [pc EXCEPT ![t] = IF t = TreeThread /\ held[t].complete THEN "last" ELSE "advance"]
    /\ UNCHANGED <<sizes, turn, tree, main, faults>>

\* send(...).unwrap() panics when every receiver is gone.
SendPanics(t) ==
    /\ HasTurn(t) /\ NoReceiver(Out(t))
    /\ pc' = [pc EXCEPT ![t] = "panic"]
    /\ UNCHANGED <<sizes, held, channel, turn, tree, main, faults>>

\* recv() fails: the loop of a worker, a prover or the tree thread ends.
Disconnected(t) ==
    /\ pc[t] = "recv"
    /\ channel[In(t)] = <<>> /\ NoSender(In(t))
    /\ pc' = [pc EXCEPT ![t] = "ok"]
    /\ UNCHANGED <<sizes, held, channel, turn, tree, main, faults>>

-----------------------------------------------------------------------------
(* The leaf sender. *)

\* advance_turn, and the next leaf.
AdvanceLeaf ==
    /\ pc[LeafSender] = "advance"
    /\ turn' = [turn EXCEPT !["input"] = @ + 1]
    /\ IF turn'["input"] = NumLeaves
       THEN pc' = [pc EXCEPT ![LeafSender] = "ok"] /\ UNCHANGED held
       ELSE /\ pc' = [pc EXCEPT ![LeafSender] = "send"]
            /\ held' = [held EXCEPT ![LeafSender] = LeafInput(turn'["input"])]
    /\ UNCHANGED <<sizes, channel, tree, main, faults>>

LeafStep == Send(LeafSender) \/ SendPanics(LeafSender) \/ AdvanceLeaf

-----------------------------------------------------------------------------
(* Workers and provers. *)

\* A worker goes on to execute the program, a prover proves (setup, commit and
\* open) and waits for its turn.
Receive(t) ==
    /\ pc[t] = "recv"
    /\ channel[In(t)] # <<>>
    /\ held' = [held EXCEPT ![t] = Head(channel[In(t)])]
    /\ channel' = [channel EXCEPT ![In(t)] = Tail(@)]
    /\ pc' = [pc EXCEPT ![t] = IF t \in Workers THEN "run" ELSE "send"]
    /\ UNCHANGED <<sizes, turn, tree, main, faults>>

Advance(t) ==
    /\ pc[t] = "advance"
    /\ turn' = [turn EXCEPT ![Out(t)] = @ + 1]
    /\ pc' = [pc EXCEPT ![t] = "recv"]
    /\ UNCHANGED <<sizes, held, channel, tree, main, faults>>

LoopStep(t) == Receive(t) \/ Disconnected(t) \/ Send(t) \/ SendPanics(t) \/ Advance(t)

\* Execute the recursion program, generate dependencies and traces.
GenerateTraces(w) ==
    /\ pc[w] = "run"
    /\ Accepts(held[w])
    /\ held' = [held EXCEPT ![w].proofs = <<Aggregate(held[w])>>]
    /\ pc' = [pc EXCEPT ![w] = "send"]
    /\ UNCHANGED <<sizes, channel, turn, tree, main, faults>>

\* runtime.run() fails on an assertion of the program: unwrap panics.
ProgramRejects(w) ==
    /\ pc[w] = "run"
    /\ ~Accepts(held[w])
    /\ pc' = [pc EXCEPT ![w] = "panic"]
    /\ UNCHANGED <<sizes, held, channel, turn, tree, main, faults>>

\* Mutant of WorkerFails: the error is logged and the worker goes on.
BugWorkerFails(w) ==
    /\ faults < MaxFaults
    /\ pc[w] = "run"
    /\ faults' = faults + 1
    /\ held' = [held EXCEPT ![w].proofs = <<Aggregate(held[w])>>]
    /\ pc' = [pc EXCEPT ![w] = "send"]
    /\ UNCHANGED <<sizes, channel, turn, tree, main>>

\* Dependencies or traces cannot be generated: the closure returns an Err that
\* nobody reads.  Any other failure of the runtime panics.
WorkerFails(w) ==
    /\ faults < MaxFaults
    /\ pc[w] = "run"
    /\ faults' = faults + 1
    /\ \E end \in {"err", "panic"} : pc' = [pc EXCEPT ![w] = end]
    /\ UNCHANGED <<sizes, held, channel, turn, tree, main>>

\* open(...).unwrap() panics, before the prover waits for its turn.
ProverFails(p) ==
    /\ faults < MaxFaults
    /\ pc[p] = "send"
    /\ faults' = faults + 1
    /\ pc' = [pc EXCEPT ![p] = "panic"]
    /\ UNCHANGED <<sizes, held, channel, turn, tree, main>>

WorkerStep(w) == LoopStep(w) \/ GenerateTraces(w) \/ ProgramRejects(w)

-----------------------------------------------------------------------------
(* The tree thread. *)

\* Mutant of IsLast: proofs are paired whatever their layers.
BugIsLast(b) == FALSE

\* The batch's first proof ends its layer: the one after it is of the next layer.
IsLast(b) == Head(b).height # Last(b).height

\* The input made of a full batch b.
NextInput(b) ==
    LET height == Head(b).height + 1
    IN  [index |-> count, height |-> height,
         proofs |-> IF IsLast(b) THEN Head(b).proofs ELSE Head(b).proofs \o Last(b).proofs,
         complete |-> height = ExpectedHeight]

ReceiveProof ==
    /\ pc[TreeThread] = "recv"
    /\ channel["proofs"] # <<>>
    /\ channel' = [channel EXCEPT !["proofs"] = Tail(@)]
    /\ LET b == Append(batch, Head(channel["proofs"]))
       IN  IF Len(b) < REDUCE_BATCH_SIZE
           THEN batch' = b /\ UNCHANGED <<pc, held>>
           ELSE /\ held' = [held EXCEPT ![TreeThread] = NextInput(b)]
                /\ batch' = IF IsLast(b) THEN Tail(b) ELSE <<>>
                /\ pc' = [pc EXCEPT ![TreeThread] = "send"]
    /\ UNCHANGED <<sizes, turn, count, main, faults>>

\* At the root of the tree the thread stops.
AdvanceNextInput ==
    /\ pc[TreeThread] \in {"advance", "last"}
    /\ turn' = [turn EXCEPT !["input"] = @ + 1]
    /\ count' = count + 1
    /\ pc' = [pc EXCEPT ![TreeThread] = IF @ = "last" THEN "ok" ELSE "recv"]
    /\ UNCHANGED <<sizes, held, channel, batch, main, faults>>

TreeStep ==
    \/ ReceiveProof \/ Disconnected(TreeThread)
    \/ Send(TreeThread) \/ SendPanics(TreeThread) \/ AdvanceNextInput

-----------------------------------------------------------------------------
(* Main: join the handles in order, take one proof, and let the scope wait  *)
(* for the threads that nobody joined.                                      *)

Handles == Append(Provers, TreeThread)

JoinHandle ==
    /\ mainPc = "join" /\ joined < Len(Handles)
    /\ pc[Handles[joined + 1]] \in Ended
    /\ IF pc[Handles[joined + 1]] = "panic"
       THEN mainPc' = "panic" /\ UNCHANGED joined
       ELSE joined' = joined + 1 /\ UNCHANGED mainPc
    /\ UNCHANGED <<sizes, pc, held, channel, turn, tree, root, result, faults>>

\* Every sender of the channel is gone: recv fails on an empty one.
TakeRoot ==
    /\ mainPc = "join" /\ joined = Len(Handles)
    /\ IF channel["proofs"] = <<>>
       THEN mainPc' = "panic" /\ UNCHANGED <<root, channel>>
       ELSE /\ mainPc' = "returned"
            /\ root' = <<Head(channel["proofs"])>>
            /\ channel' = [channel EXCEPT !["proofs"] = Tail(@)]
    /\ UNCHANGED <<sizes, pc, held, turn, tree, joined, result, faults>>

\* thread::scope panics if a thread that was not joined has panicked.
ScopeEnds ==
    /\ result = "running" /\ ~MainHolds
    /\ \A t \in Threads : pc[t] \in Ended
    /\ result' = IF mainPc = "returned" /\ \A t \in Threads : pc[t] # "panic"
                 THEN "ok" ELSE "panic"
    /\ UNCHANGED <<sizes, pc, held, channel, turn, tree, joined, mainPc, root, faults>>

MainStep == JoinHandle \/ TakeRoot \/ ScopeEnds

Next ==
    \/ LeafStep \/ TreeStep \/ MainStep
    \/ \E w \in Workers : WorkerStep(w) \/ WorkerFails(w)
    \/ \E p \in ToSet(Provers) : LoopStep(p) \/ ProverFails(p)

Spec == Init /\ [][Next]_vars

(***************************************************************************)
(* Every thread that can go on does.  Failures need not happen.  Only the  *)
(* owner of a turn waits for room in a channel, and some thread receives   *)
(* whatever is sent, so that weak fairness is enough.                      *)
(***************************************************************************)
FairSpec ==
    /\ Spec
    /\ WF_vars(LeafStep) /\ WF_vars(TreeStep) /\ WF_vars(MainStep)
    /\ \A w \in Workers : WF_vars(WorkerStep(w))
    /\ \A p \in ToSet(Provers) : WF_vars(LoopStep(p))

-----------------------------------------------------------------------------
(* Properties. *)

\* compress returns only the root: a proof that is complete and covers every
\* shard, and every deferred proof the program committed to, for odd and even
\* layers and for a single leaf.
OkIsRoot ==
    result = "ok" =>
        /\ root[1].complete
        /\ CompleteRange(Aggregate(root[1]))
        /\ deferreds = committed

\* A worker that returns Err, a worker or a prover that panics loses an input of
\* the tree: compress never returns Ok after it, although nobody joins the workers.
FailureIsNotOk == faults > 0 => result # "ok"

\* Without a failure no thread panics: no pair the tree thread makes is refused
\* by the recursion program, and no send or receive finds the other side gone.
\* The root alone is refused when the caller's deferred proofs are not those the
\* program committed to.
HealthyRunAccepts ==
    faults = 0 /\ deferreds = committed =>
        mainPc # "panic" /\ \A t \in Threads : pc[t] # "panic"

\* Everything that has not been used up yet, wherever it is; a thread that
\* failed keeps what it held.
Pending ==
    {LeafInput(i) : i \in turn["input"] + 1 .. NumLeaves - 1}
    \cup (UNION {ToSet(channel[c]) : c \in Channels}) \cup ToSet(batch) \cup ToSet(root)
    \cup {held[t] : t \in {u \in Threads : held[u] # NoItem}}

\* From left to right in the tree: the layer being built, then the one below it.
LeftOf(x, y) == x.height > y.height \/ (x.height = y.height /\ x.index < y.index)

\* At all times the proofs and inputs in flight, of neighbouring layers, cover
\* the shards and the deferred proofs in order, each exactly once: nothing is
\* lost, taken twice or paired with a proof that is not its neighbour.
FrontierCoversLeaves ==
    /\ Pending # {}
    /\ \A x \in Pending :
        LET range == Aggregate(x)
            left == {y \in Pending : LeftOf(y, x)}
            right == {y \in Pending : LeftOf(x, y)}
        IN  /\ Cardinality(left) + Cardinality(right) + 1 = Cardinality(Pending)
            /\ left = {} => range.startShard = 1 /\ range.startDigest = 0
            /\ right = {} => range.nextShard = shards + 1 /\ range.endDigest = deferreds
            /\ \A y \in right : (\A z \in right : ~LeftOf(z, y)) =>
                   Adjacent(range, Aggregate(y)) /\ x.height - y.height \in {0, 1}

\* Without a failure every thread ends and compress returns or panics: the leaf
\* sender, which fills a bounded channel, and the tree thread, which waits for
\* it before it takes more proofs, do not stop each other.
Terminates == <>(result # "running" \/ faults > 0)
=============================================================================
