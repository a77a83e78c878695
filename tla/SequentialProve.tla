-------------------------- MODULE SequentialProve --------------------------
(***************************************************************************)
(* What prove_with_context promises: the shards it proves are those that   *)
(* one loop over the batches, with no threads, would give.  A call that    *)
(* fails may have delivered any number of whole batches; a call that       *)
(* succeeds has delivered all of them.                                     *)
(***************************************************************************)
EXTENDS Naturals, Sequences, SequencesExt

CONSTANTS
    NumBatches,   \* how many batches the execution has
    Outcomes      \* Outcomes[n]: what the loop can have made of the first n of them

VARIABLES
    delivered,   \* number of batches whose shards have been delivered
    shards,      \* the shards, in the order in which they are proved
    result

svars == <<delivered, shards, result>>

SInit == delivered = 0 /\ shards = <<>> /\ result = "running"

DeliverBatch ==
    /\ result = "running"
    /\ delivered < NumBatches
    /\ delivered' = delivered + 1
    /\ \E o \in Outcomes[delivered + 1] : IsPrefix(shards, o.shards) /\ shards' = o.shards
    /\ UNCHANGED result

Succeed ==
    /\ result = "running"
    /\ delivered = NumBatches
    /\ result' = "ok"
    /\ UNCHANGED <<delivered, shards>>

Fail ==
    /\ result = "running"
    /\ result' \in {"err", "panic"}
    /\ UNCHANGED <<delivered, shards>>

SNext == DeliverBatch \/ Succeed \/ Fail

SSpec == SInit /\ [][SNext]_svars
=============================================================================
