------------------------- MODULE MCCheckpointReplay -------------------------
(***************************************************************************)
(* All programs of a few instructions over two words, for                  *)
(* CheckpointReplay. Each set of instructions asks a question of its own.  *)
(***************************************************************************)
EXTENDS CheckpointReplay, TLC

CONSTANTS a, b

Op(op) == [op |-> op]
On(op, x) == [op |-> op, addr |-> x]
Hook(fd) == [op |-> "WRITE_HOOK", addr |-> a, fd |-> fd]
To(target) == [op |-> "BLEZ", target |-> target]

\* Word a is part of the program image.
ImageA == a :> 2

\* Hints, memory and unconstrained blocks.
HintInstructions ==
    {On("LW", a), On("LW", b), On("SB", b), On("WRITE_HINT", a), On("WRITE_PV", b),
     On("HINT_READ", b), Op("ENTER"), Op("EXIT"), Op("HALT")}

\* Branches with their delay slots, precompiles and blocks.
ControlInstructions ==
    {To(1), To(4), Op("ADDI"), On("SW", a), On("PRECOMPILE", a), Op("ENTER"), Op("EXIT"),
     Op("HALT")}

\* Proofs and hooks.
ProofInstructions ==
    {On("LW", a), On("SW", a), On("VERIFY", a), On("WRITE_HINT", a), Hook("default"),
     On("HINT_READ", b), Op("HINT_LEN"), Op("COMMIT_DEFERRED"), Op("HALT")}

\* Two proofs about the word that is at a in the beginning.
TwoProofs == <<2, 2>>

Options(clk, batch, mem) ==
    [shard_clk |-> clk, shard_batch_size |-> batch, max_local_mem |-> mem]

\* Two instructions and a batch per shard; four instructions per shard, fewer if they
\* touch two words, and two shards per batch.
AllPrograms ==
    {[instructions |-> HintInstructions, opts |-> Options(10, 1, 1)],
     [instructions |-> ProofInstructions, opts |-> Options(10, 1, 2)],
     [instructions |-> ControlInstructions, opts |-> Options(16, 2, 2)]}

CommitAndHalt ==
    {[instructions |-> {On("LW", a), Op("COMMIT"), Op("HALT")}, opts |-> Options(10, 1, 1)]}
=============================================================================
