-------------------------- MODULE CoreProofProofs --------------------------
(***************************************************************************)
(* Proofs about ProvePipeline and CoreProof for any number of workers and  *)
(* batches, any channel capacities and any failures.                       *)
(*                                                                         *)
(* First ProvePipeline by itself.  Its inductive invariant says who holds  *)
(* which batch (Tickets), that the guards are held exactly in the critical *)
(* section (Guards), how the record turn follows the batch in it           *)
(* (RecordTurns) and, as long as no worker has failed, that the two turns  *)
(* move in lockstep (Lockstep).                                            *)
(*                                                                         *)
(* Then that prove_with_context implements the loop of CoreProof           *)
(* (SequentialProve): the types of what split and the numbering return,    *)
(* that Outcomes is what its recursive definition says, and the inductive  *)
(* invariant LInv.  Control says who may still take the trace turn,        *)
(* SentLists and Fresh what the channels and the workers hold, AsLoop that *)
(* the shared values and the shards sent so far are those of the loop, at  *)
(* whichever stage of a batch the worker in its turn is.                   *)
(***************************************************************************)
EXTENDS CoreProof, SequenceLemmas, FiniteSetTheorems, TLAPS

-----------------------------------------------------------------------------
(* The pipeline. *)

Failed == \E v \in Workers : pc[v] \in {"err", "panic"}

Holding(w) == pc[w] \notin {"recv"} \cup Ended

\* Number of checkpoints handed out to workers.
Received == genIndex - Len(checkpoints)

Tickets ==
    /\ genPc = "run" => genIndex < NumBatches
    /\ Len(checkpoints) <= genIndex
    /\ \A i \in 1 .. Len(checkpoints) : checkpoints[i] = Received + i - 1
    /\ \A w \in Workers : Holding(w) => index[w] < Received
    /\ \A v, w \in Workers : v # w /\ Holding(v) /\ Holding(w) => index[v] # index[w]

Guards ==
    \A w \in Workers :
        /\ pc[w] \in Critical <=> stateLock = w
        /\ pc[w] \in Critical \ {"defer"} <=> deferredLock = w

\* Where the record turn has not been passed on yet ...
BeforePass == {"number", "defer", "split", "dependencies1"}
\* ... where it may have been, by a combined attempt for the last batch ...
Fallback == {"splitPlain", "dependencies2"}
\* ... and where it has been.
AfterPass == {"shape1", "shape2", "traces", "waitTrace", "send"}

RecordTurns ==
    \A w \in Workers :
        /\ pc[w] \in BeforePass => recordTurn = index[w]
        /\ pc[w] \in Fallback => \/ recordTurn = index[w]
                                 \/ Done(index[w]) /\ recordTurn = index[w] + 1
        /\ pc[w] \in AfterPass => \/ recordTurn = index[w] + 1
                                  \/ Done(index[w]) /\ recordTurn = index[w] + 2
        /\ pc[w] \in {"dependencies1", "shape1"} =>
               Done(index[w]) /\ recordTurn <= index[w] + 1
        /\ pc[w] = "send" => traceTurn = index[w]

Working == Critical \ {"dropGuards"}

Lockstep ==
    ~Failed =>
        /\ \A w \in Workers : pc[w] \in Working => traceTurn = index[w]
        /\ (\A w \in Workers : pc[w] \notin Working) =>
               \/ recordTurn = traceTurn
               \/ traceTurn = NumBatches /\ recordTurn >= NumBatches

IInv == TypeOK /\ Tickets /\ Guards /\ RecordTurns /\ Lockstep

-----------------------------------------------------------------------------

\* What the control state depends on.
LEMMA ControlAssumption ==
  /\ NoWorker \notin Workers
  /\ Len(Batches) \in Nat \ {0}
  /\ CheckpointCapacity \in Nat \ {0}
BY PipelineAssumption

\* The pipeline starts in the inductive invariant.
LEMMA InitIInv == Init => IInv
<1> SUFFICES ASSUME Init PROVE IInv
  OBVIOUS
<1> USE ControlAssumption DEF Init, PCs, Critical, Ended, NumBatches
<1>1. TypeOK
  <2>1. checkpoints \in Seq(Nat) /\ Len(checkpoints) = 0
    OBVIOUS
  <2>2. pc \in [Workers -> PCs] /\ index \in [Workers -> 0 .. NumBatches - 1]
    OBVIOUS
  <2>3. poisoned \in BOOLEAN
    BY Zenon
  <2>4. QED
    BY <2>1, <2>2, <2>3 DEF TypeOK
<1>2. Tickets
  BY DEF Tickets, Received, Holding
<1>3. Guards
  BY DEF Guards
<1>4. RecordTurns
  BY DEF RecordTurns, BeforePass, Fallback, AfterPass
<1>5. Lockstep
  BY DEF Lockstep, Working
<1>6. QED
  BY <1>1, <1>2, <1>3, <1>4, <1>5 DEF IInv

\* Every step of a worker preserves it.
LEMMA WorkerIInv ==
  ASSUME IInv, NEW w \in Workers, WorkerStep(w) \/ WorkerFails(w)
  PROVE  IInv'
<1> USE ControlAssumption
<1> USE DEF IInv, TypeOK, PCs, Critical, Ended, NumBatches, Tickets, Received, Holding,
            Guards, RecordTurns, BeforePass, Fallback, AfterPass, Working, Lockstep,
            Failed, Done, Goto, DropLocks, generator, locals, turns, locks, shared, proving
<1>1. CASE Receive(w)
  <2>a. /\ Head(checkpoints) = Received
        /\ Head(checkpoints) \in 0 .. NumBatches - 1
    <3>1. /\ Len(checkpoints) \in Nat \ {0}
          /\ Head(checkpoints) = checkpoints[1]
          /\ genIndex \in 0 .. NumBatches
      BY <1>1 DEF Receive
    <3>2. checkpoints[1] = Received + 1 - 1 /\ Len(checkpoints) <= genIndex
      BY <3>1
    <3>3. NumBatches \in Nat
      OBVIOUS
    <3>4. QED
      BY ONLY <3>1, <3>2, <3>3 DEF Received
  <2>b. /\ Tail(checkpoints) \in Seq(Nat)
        /\ Len(Tail(checkpoints)) = Len(checkpoints) - 1
        /\ \A i \in 1 .. Len(checkpoints) - 1 : Tail(checkpoints)[i] = checkpoints[i + 1]
    BY <1>1 DEF Receive
  <2>1. TypeOK'
    BY <1>1, <2>a, <2>b DEF Receive
  <2>2. Tickets'
    <3>a. genIndex' = genIndex /\ Len(checkpoints') = Len(checkpoints) - 1
      BY <1>1, <2>b DEF Receive
    <3>b. Received' = Received + 1
      BY <3>a
    <3>c. /\ index' = [index EXCEPT ![w] = Received]
          /\ pc' = [pc EXCEPT ![w] = "waitRecord"]
      BY <1>1, <2>a DEF Receive
    <3>1. /\ Received' = Received + 1
          /\ index' = [index EXCEPT ![w] = Received]
          /\ pc' = [pc EXCEPT ![w] = "waitRecord"]
      BY <3>b, <3>c
    <3>2. \A i \in 1 .. Len(checkpoints') : checkpoints'[i] = Received' + i - 1
      BY <1>1, <2>b, <3>1 DEF Receive
    <3>3. \A v \in Workers : Holding(v)' => index'[v] < Received'
      BY <3>1
    <3>4. \A u, v \in Workers :
             u # v /\ Holding(u)' /\ Holding(v)' => index'[u] # index'[v]
      BY <3>1
    <3>5. QED
      BY <1>1, <2>b, <3>2, <3>3, <3>4 DEF Receive
  <2>3. Guards'
    BY <1>1 DEF Receive
  <2>4. RecordTurns'
    BY <1>1 DEF Receive
  <2>5. Lockstep'
    BY <1>1 DEF Receive
  <2>6. QED
    BY <2>1, <2>2, <2>3, <2>4, <2>5
<1>2. CASE ReceiveDisconnected(w)
  BY <1>2 DEF ReceiveDisconnected
<1>3. CASE WaitForRecordTurn(w)
  BY <1>3 DEF WaitForRecordTurn
<1>4. CASE NumberRecords(w)
  BY <1>4 DEF NumberRecords
<1>5. CASE NumberPanics(w)
  BY <1>5 DEF NumberPanics
<1>6. CASE DeferEvents(w)
  <2>1. TypeOK'
    BY <1>6 DEF DeferEvents
  <2>2. Tickets'
    BY <1>6 DEF DeferEvents
  <2>3. Guards'
    BY <1>6 DEF DeferEvents
  <2>4. RecordTurns'
    BY <1>6 DEF DeferEvents
  <2>5. Lockstep'
    BY <1>6 DEF DeferEvents
  <2>6. QED
    BY <2>1, <2>2, <2>3, <2>4, <2>5
<1>7. CASE SplitCombined(w)
  <2>1. TypeOK'
    BY <1>7 DEF SplitCombined, Combine
  <2>2. Tickets'
    BY <1>7 DEF SplitCombined, Combine
  <2>3. Guards'
    BY <1>7 DEF SplitCombined, Combine
  <2>4. RecordTurns'
    BY <1>7 DEF SplitCombined, Combine
  <2>5. Lockstep'
    BY <1>7 DEF SplitCombined, Combine
  <2>6. QED
    BY <2>1, <2>2, <2>3, <2>4, <2>5
<1>8. CASE SkipCombined(w)
  BY <1>8 DEF SkipCombined
<1>9. CASE SplitPlain(w)
  BY <1>9 DEF SplitPlain
<1>10. CASE GenerateDependencies(w)
  <2>1. TypeOK'
    BY <1>10 DEF GenerateDependencies
  <2>2. Tickets'
    BY <1>10 DEF GenerateDependencies
  <2>3. Guards'
    BY <1>10 DEF GenerateDependencies
  <2>4. RecordTurns'
    <3>1. ASSUME NEW v \in Workers, v # w PROVE pc[v] \notin Critical
      BY <1>10, <3>1 DEF GenerateDependencies
    <3>2. recordTurn = index[w] \/ recordTurn = NumBatches
      <4>1. pc[w] \in BeforePass \cup Fallback
        BY <1>10 DEF GenerateDependencies
      <4>2. index[w] \in 0 .. NumBatches - 1
        OBVIOUS
      <4>3. \/ recordTurn = index[w]
            \/ Done(index[w]) /\ recordTurn = index[w] + 1
        BY <4>1
      <4>4. QED
        BY <4>2, <4>3
    <3>3. ASSUME NEW v \in Workers, v # w PROVE pc[v] # "number"
      <4>1. pc[v] = "number" => recordTurn = index[v]
        OBVIOUS
      <4>2. pc[v] = "number" => index[v] # index[w]
        BY <1>10, <3>3 DEF GenerateDependencies
      <4>3. QED
        BY <3>2, <4>1, <4>2
    <3>4. QED
      BY <1>10, <3>1, <3>3 DEF GenerateDependencies
  <2>5. Lockstep'
    BY <1>10 DEF GenerateDependencies
  <2>6. QED
    BY <2>1, <2>2, <2>3, <2>4, <2>5
<1>11. CASE FixShapesCombined(w)
  <2>a. pc' = [pc EXCEPT ![w] = "traces"] \/ pc' = [pc EXCEPT ![w] = "splitPlain"]
    BY <1>11 DEF FixShapesCombined
  <2>b. /\ pc[w] = "shape1"
        /\ UNCHANGED <<unfit, generator, checkpoints, index, turns, locks, proving, result>>
    BY <1>11 DEF FixShapesCombined
  <2>1. TypeOK'
    BY <2>a, <2>b
  <2>2. Tickets'
    <3>1. \A v \in Workers : Holding(v)' <=> Holding(v)
      BY <2>a, <2>b
    <3>2. QED
      BY <2>b, <3>1
  <2>3. Guards'
    BY <2>a, <2>b
  <2>4. RecordTurns'
    BY <2>a, <2>b
  <2>5. Lockstep'
    BY <2>a, <2>b
  <2>6. QED
    BY <2>1, <2>2, <2>3, <2>4, <2>5
<1>12. CASE FixShapesPlain(w)
  <2>1. TypeOK'
    BY <1>12 DEF FixShapesPlain
  <2>2. Tickets'
    BY <1>12 DEF FixShapesPlain
  <2>3. Guards'
    BY <1>12 DEF FixShapesPlain
  <2>4. RecordTurns'
    BY <1>12 DEF FixShapesPlain
  <2>5. Lockstep'
    BY <1>12 DEF FixShapesPlain
  <2>6. QED
    BY <2>1, <2>2, <2>3, <2>4, <2>5
<1>13. CASE FixShapesPanics(w)
  BY <1>13 DEF FixShapesPanics
<1>14. CASE GenerateTraces(w)
  BY <1>14 DEF GenerateTraces
<1>15. CASE WaitForTraceTurn(w)
  BY <1>15 DEF WaitForTraceTurn
<1>16. CASE SendChunk(w)
  BY <1>16 DEF SendChunk
<1>17. CASE SendPanics(w)
  BY <1>17 DEF SendPanics
<1>18. CASE AdvanceTraceTurn(w)
  <2>1. TypeOK'
    BY <1>18 DEF AdvanceTraceTurn
  <2>2. Tickets'
    BY <1>18 DEF AdvanceTraceTurn
  <2>3. Guards'
    BY <1>18 DEF AdvanceTraceTurn
  <2>4. RecordTurns'
    BY <1>18 DEF AdvanceTraceTurn
  <2>5. Lockstep'
    BY <1>18 DEF AdvanceTraceTurn
  <2>6. QED
    BY <2>1, <2>2, <2>3, <2>4, <2>5
<1>19. CASE DropGuards(w)
  BY <1>19 DEF DropGuards
<1>20. CASE WorkerFails(w)
  BY <1>20 DEF WorkerFails
<1>21. QED
  BY <1>1, <1>2, <1>3, <1>4, <1>5, <1>6, <1>7, <1>8, <1>9, <1>10, <1>11, <1>12, <1>13, <1>14, <1>15, <1>16, <1>17, <1>18, <1>19, <1>20 DEF WorkerStep

\* Every step of the generator, the prover and the caller preserves it.
LEMMA OthersIInv ==
  ASSUME IInv,
         \/ GenerateCheckpoint \/ GeneratorFails \/ ProverStep \/ ProverPanics
         \/ Return \/ Returned \/ UNCHANGED vars
  PROVE  IInv'
<1> USE ControlAssumption
<1> USE DEF IInv, TypeOK, Ended, NumBatches, Tickets, Received, Holding, Guards,
            RecordTurns, Lockstep, Failed, Done, generator, locals, turns, locks, shared,
            proving
<1>1. CASE GenerateCheckpoint
  <2>1. /\ checkpoints' = Append(checkpoints, genIndex)
        /\ genIndex \in 0 .. NumBatches - 1
        /\ genIndex' = genIndex + 1
        /\ genPc' = IF Done(genIndex) THEN "ok" ELSE "run"
    BY <1>1 DEF GenerateCheckpoint
  <2>2. /\ checkpoints' \in Seq(Nat)
        /\ Len(checkpoints') = Len(checkpoints) + 1
        /\ Received' = Received
    BY <2>1
  <2>3. ASSUME NEW i \in 1 .. Len(checkpoints') PROVE checkpoints'[i] = Received' + i - 1
    <3>1. CASE i \in 1 .. Len(checkpoints)
      <4>1. checkpoints'[i] = checkpoints[i]
        BY <2>1, <3>1
      <4>2. QED
        BY <2>2, <3>1, <4>1
    <3>2. CASE i = Len(checkpoints) + 1
      <4>1. checkpoints'[i] = genIndex
        BY <2>1, <3>2
      <4>2. QED
        BY <2>1, <2>2, <3>2, <4>1
    <3>3. QED
      BY <2>2, <3>1, <3>2
  <2>4. TypeOK'
    BY <1>1, <2>1, <2>2 DEF GenerateCheckpoint
  <2>5. Tickets'
    <3>1. genPc' = "run" => genIndex' < NumBatches
      BY <2>1
    <3>2. Len(checkpoints') <= genIndex'
      BY <2>1, <2>2
    <3>3. pc' = pc /\ index' = index
      BY <1>1 DEF GenerateCheckpoint
    <3>4. QED
      BY <2>2, <2>3, <3>1, <3>2, <3>3
  <2>6. QED
    BY <1>1, <2>4, <2>5 DEF GenerateCheckpoint
<1>2. CASE GeneratorFails
  BY <1>2 DEF GeneratorFails
<1>3. CASE ProveChunk
  BY <1>3 DEF ProveChunk
<1>4. CASE ProverEnds
  BY <1>4 DEF ProverEnds
<1>5. CASE ProverPanics
  BY <1>5 DEF ProverPanics
<1>6. CASE Return
  BY <1>6 DEF Return, Outcome
<1>7. CASE UNCHANGED vars
  BY <1>7 DEF vars
<1>8. QED
  BY <1>1, <1>2, <1>3, <1>4, <1>5, <1>6, <1>7 DEF ProverStep, Returned

\* The inductive invariant holds in every behaviour.
LEMMA Invariance == Spec => []IInv
<1>1. IInv /\ [Next]_vars => IInv'
  BY WorkerIInv, OthersIInv DEF Next
<1>2. QED
  BY InitIInv, <1>1, PTL DEF Spec

\* The control state of prove_with_context keeps its type: no worker is given an
\* index outside the batches, neither turn runs past the end, and the checkpoint
\* channel stays within its capacity.
THEOREM PipelineTypeCorrect == Spec => []TypeOK
<1>1. IInv => TypeOK
  BY DEF IInv
<1>2. QED
  BY Invariance, <1>1, PTL

\* A worker that holds the guards of `state` and `deferred` does not have to wait
\* for its trace turn, as long as no worker has failed: the mutexes and the turns
\* of prove_with_context never wait for each other.
THEOREM TurnsAndGuardsAgree == Spec => []GuardHolderHasTraceTurn
<1>1. IInv => GuardHolderHasTraceTurn
  BY DEF IInv, Lockstep, Failed, Working, Critical, GuardHolderHasTraceTurn
<1>2. QED
  BY Invariance, <1>1, PTL

-----------------------------------------------------------------------------
(* Chunks. *)

\* Two adjoining pieces of a sequence.
LEMMA Pieces ==
  ASSUME NEW S, NEW s \in Seq(S), NEW p \in Nat, NEW q \in Nat, p <= q, q <= Len(s)
  PROVE  /\ SubSeq(s, 1, p) \o SubSeq(s, p + 1, q) = SubSeq(s, 1, q)
         /\ SubSeq(s, p + 1, q) \in Seq(S) /\ SubSeq(s, 1, p) \in Seq(S)
         /\ SubSeq(s, 1, Len(s)) = s
<1>1. /\ SubSeq(s, 1, p) \in Seq(S) /\ Len(SubSeq(s, 1, p)) = p
      /\ \A i \in 1 .. p : SubSeq(s, 1, p)[i] = s[i]
  OBVIOUS
<1>2. /\ SubSeq(s, 1, q) \in Seq(S) /\ Len(SubSeq(s, 1, q)) = q
      /\ \A i \in 1 .. q : SubSeq(s, 1, q)[i] = s[i]
  OBVIOUS
<1>3. /\ SubSeq(s, p + 1, q) \in Seq(S) /\ Len(SubSeq(s, p + 1, q)) = q - p
      /\ \A i \in 1 .. q - p : SubSeq(s, p + 1, q)[i] = s[p + i]
  OBVIOUS
<1> DEFINE a == SubSeq(s, 1, p)
           b == SubSeq(s, p + 1, q)
           c == SubSeq(s, 1, q)
<1>4. a \o b = c
  <2>1. a \in Seq(S) /\ b \in Seq(S) /\ c \in Seq(S) /\ Len(a) = p /\ Len(b) = q - p /\ Len(c) = q
    BY <1>1, <1>2, <1>3
  <2>2. \A i \in 1 .. p : a[i] = s[i]
    BY <1>1
  <2>3. \A i \in 1 .. q - p : b[i] = s[p + i]
    BY <1>3
  <2>4. \A i \in 1 .. q : c[i] = s[i]
    BY <1>2
  <2> HIDE DEF a, b, c
  <2>5. a \o b \in Seq(S) /\ Len(a \o b) = q
    BY <2>1
  <2>6. ASSUME NEW i \in 1 .. q PROVE (a \o b)[i] = c[i]
    <3>1. CASE i <= p
      BY <2>1, <2>2, <2>4, <3>1
    <3>2. CASE ~ (i <= p)
      <4>1. i - p \in 1 .. q - p /\ p + (i - p) = i
        BY <3>2
      <4>2. (a \o b)[i] = b[i - p]
        BY <2>1, <3>2
      <4> QED
        BY <2>3, <2>4, <4>1, <4>2
    <3> QED
      BY <3>1, <3>2
  <2> QED
    BY <2>1, <2>5, <2>6
<1>5. SubSeq(s, 1, Len(s)) = s
  OBVIOUS
<1> QED
  BY <1>1, <1>3, <1>4, <1>5

\* The chunks of a sequence put together are the sequence.
LEMMA ChunksFlatten ==
  ASSUME NEW S, NEW s \in Seq(S), NEW n \in Nat \ {0}
  PROVE  /\ Chunks(s, n) \in Seq(Seq(S)) /\ FlattenSeq(Chunks(s, n)) = s
         /\ Len(Chunks(s, n)) \in Nat
<1> DEFINE l == Len(s)
           m == (l + n - 1) \div n
           End(k) == IF k * n < l THEN k * n ELSE l
           ch == Chunks(s, n)
<1>1. l \in Nat /\ m \in Nat /\ l <= m * n /\ m * n <= l + n - 1
  <2>1. l \in Nat
    OBVIOUS
  <2> HIDE DEF l
  <2> QED
    BY <2>1, Division
<1>2. ch = [k \in 1 .. m |-> SubSeq(s, (k - 1) * n + 1, End(k))]
  BY DEF Chunks
<1> HIDE DEF l, m, ch
<1>3. ASSUME NEW k \in 1 .. m
      PROVE  /\ End(k) \in Nat /\ (k - 1) * n \in Nat /\ (k - 1) * n <= End(k) /\ End(k) <= l
             /\ k # 1 => End(k - 1) = (k - 1) * n
             /\ k = m => End(k) = l
             /\ k \in Nat
  <2>1. k \in Nat /\ k * n \in Nat /\ (k - 1) * n \in Nat /\ (k - 1) * n + n = k * n
    BY <1>1, ChunkBounds
  <2>2. k < m => k * n + n <= m * n
    BY <1>1, ChunkBounds
  <2>3. m * n \in Nat
    BY <1>1
  <2>4. k = m => k * n = m * n
    OBVIOUS
  <2>5. (k - 1) * n < l
    <3> DEFINE x == k * n
               y == (k - 1) * n
               z == m * n
    <3>1. /\ x \in Nat /\ y \in Nat /\ z \in Nat /\ y + n = x /\ z <= l + n - 1 /\ l \in Nat
          /\ (k < m => x + n <= z) /\ (k = m => x = z) /\ k <= m /\ m \in Nat /\ k \in Nat
      BY <1>1, <2>1, <2>2, <2>3, <2>4
    <3> HIDE DEF x, y, z
    <3>2. y < l
      BY <3>1
    <3> QED
      BY <3>2 DEF y
  <2>6. k = m => ~ (k * n < l)
    BY <1>1, <2>1, <2>4
  <2> DEFINE x == k * n
             y == (k - 1) * n
  <2>7. x \in Nat /\ y \in Nat /\ y + n = x /\ y < l /\ l \in Nat /\ End(k) = IF x < l THEN x ELSE l
    BY <1>1, <2>1, <2>5
  <2>8. k # 1 => End(k - 1) = (k - 1) * n
    BY <2>5
  <2>9. k = m => End(k) = l
    BY <2>6
  <2> HIDE DEF x, y, End
  <2>10. End(k) \in Nat /\ y <= End(k) /\ End(k) <= l
    BY <2>7
  <2> QED
    BY <2>1, <2>8, <2>9, <2>10 DEF y
<1>4. l = Len(s)
  BY DEF l
<1>5. \A k \in 1 .. m : SubSeq(s, (k - 1) * n + 1, End(k)) \in Seq(S)
  <2> TAKE k \in 1 .. m
  <2> DEFINE p == (k - 1) * n
             q == End(k)
  <2>1. p \in Nat /\ q \in Nat /\ p <= q /\ q <= Len(s)
    BY <1>3, <1>4
  <2> HIDE DEF p, q
  <2>2. SubSeq(s, p + 1, q) \in Seq(S)
    BY <2>1, Pieces
  <2> QED
    BY <2>2 DEF p, q
<1>6. ch \in Seq(Seq(S)) /\ Len(ch) = m
  <2>1. ch \in [1 .. m -> Seq(S)]
    BY <1>2, <1>5
  <2> QED
    BY <1>1, <2>1, FunctionIsSeq
<1>7. CASE m = 0
  <2>1. l = 0
    BY <1>1, <1>7
  <2>2. s = <<>> /\ ch = <<>>
    BY <1>4, <1>6, <1>7, <2>1, EmptySeq
  <2> QED
    BY <1>6, <2>2, <1>1, FlattenType DEF ch
<1>8. CASE m # 0
  <2> DEFINE f == [k \in 1 .. m |-> SubSeq(s, 1, End(k))]
  <2>0. ch # <<>> /\ 1 \in 1 .. m /\ m \in 1 .. m
    BY <1>1, <1>6, <1>8
  <2>1. f[1] = ch[1]
    <3>1. (1 - 1) * n + 1 = 1
      OBVIOUS
    <3> QED
      BY <1>2, <2>0, <3>1
  <2>2. ASSUME NEW k \in 2 .. m PROVE f[k] = f[k - 1] \o ch[k]
    <3>1. k \in 1 .. m /\ k - 1 \in 1 .. m /\ k # 1
      BY <1>1
    <3> DEFINE p == (k - 1) * n
               q == End(k)
    <3>2. p \in Nat /\ q \in Nat /\ p <= q /\ q <= Len(s) /\ End(k - 1) = p
      BY <1>3, <1>4, <3>1
    <3>3. f[k] = SubSeq(s, 1, q) /\ f[k - 1] = SubSeq(s, 1, p) /\ ch[k] = SubSeq(s, p + 1, q)
      BY <1>2, <3>1, <3>2
    <3> HIDE DEF p, q, f
    <3>4. SubSeq(s, 1, p) \o SubSeq(s, p + 1, q) = SubSeq(s, 1, q)
      BY <3>2, Pieces
    <3> QED
      BY <3>3, <3>4
  <2>3. f[m] = s
    <3>1. f[m] = SubSeq(s, 1, l)
      BY <1>3, <2>0
    <3>2. SubSeq(s, 1, Len(s)) = s
      OBVIOUS
    <3> QED
      BY <1>4, <3>1, <3>2
  <2> HIDE DEF f
  <2>4. Flattens(f, ch, Len(ch))
    BY <1>6, <2>1, <2>2 DEF Flattens
  <2>5. FlattenSeq(ch) = f[m]
    BY <1>6, <2>0, <2>4, FlattensUnique
  <2> QED
    BY <1>1, <1>6, <2>3, <2>5 DEF ch
<1> QED
  BY <1>1, <1>7, <1>8

-----------------------------------------------------------------------------
(* What the operations on records return. *)

\* The record of deferred events has no CPU events and no public values of its own.
DeferredRecord ==
    [cpu : BOOLEAN, precompile : [Codes -> Seq(Event)], init : Seq(Nat),
     finalize : Seq(Nat), pv : {PublicValuesDefault}]

\* The first record is one.
LEMMA NewIsDeferred == NewRecord \in DeferredRecord
<1>1. NoEvents \in [Codes -> Seq(Event)]
  BY DEF NoEvents
<1> QED
  BY <1>1 DEF NewRecord, DeferredRecord

\* Numbering keeps the events of the records.
LEMMA NumberCpuType ==
  ASSUME NEW s, NEW b \in Seq(Record)
  PROVE  LET r == NumberCpuRecords(s, b).records
         IN  /\ IsSeq(r) /\ DOMAIN r = 1 .. Len(b) /\ Len(b) \in Nat
             /\ \A i \in 1 .. Len(b) :
                   /\ r[i].precompile = b[i].precompile
                   /\ r[i].init = b[i].init /\ r[i].finalize = b[i].finalize
<1> DEFINE after == CHOOSE g : g = [i \in 0 .. Len(b) |->
                        IF i = 0 THEN s ELSE NumberCpuRecord(g[i - 1], b[i])]
           r == NumberCpuRecords(s, b).records
<1>1. r = [i \in DOMAIN b |-> [b[i] EXCEPT !.pv = after[i]]]
  BY DEF NumberCpuRecords
<1> HIDE DEF after, r
<1>2. Len(b) \in Nat /\ DOMAIN b = 1 .. Len(b) /\ \A i \in 1 .. Len(b) : b[i] \in Record
  OBVIOUS
<1>3. DOMAIN r = 1 .. Len(b) /\ \A i \in 1 .. Len(b) : r[i] = [b[i] EXCEPT !.pv = after[i]]
  BY <1>1, <1>2
<1>4. r \in [1 .. Len(b) -> Range(r)]
  BY <1>1, <1>2 DEF Range
<1>5. IsSeq(r)
  BY <1>2, <1>4, FunctionIsSeq
<1>6. ASSUME NEW i \in 1 .. Len(b)
      PROVE  /\ r[i].precompile = b[i].precompile
             /\ r[i].init = b[i].init /\ r[i].finalize = b[i].finalize
  BY <1>2, <1>3 DEF Record
<1> QED
  BY <1>2, <1>3, <1>5, <1>6 DEF r

\* A list of sequences, written as a function.
LEMMA FlattenFunction ==
  ASSUME NEW S, NEW n \in Nat, NEW f \in [1 .. n -> Seq(S)]
  PROVE  FlattenSeq(f) \in Seq(S)
<1>1. f \in Seq(Seq(S))
  BY FunctionIsSeq
<1> QED
  BY <1>1, FlattenType

\* Deferring the events of numbered records keeps the type of the deferred record.
LEMMA DeferType ==
  ASSUME NEW d \in DeferredRecord, NEW s, NEW b \in Seq(Record)
  PROVE  DeferAll(d, NumberCpuRecords(s, b).records) \in DeferredRecord
<1> DEFINE r == NumberCpuRecords(s, b).records
           e == Deferred(r)
<1>1. /\ IsSeq(r) /\ DOMAIN r = 1 .. Len(b) /\ Len(b) \in Nat
      /\ \A i \in 1 .. Len(b) :
            /\ r[i].precompile = b[i].precompile
            /\ r[i].init = b[i].init /\ r[i].finalize = b[i].finalize
  BY NumberCpuType
<1>2. \A i \in 1 .. Len(b) : /\ b[i].precompile \in [Codes -> Seq(Event)]
                             /\ b[i].init \in Seq(Nat) /\ b[i].finalize \in Seq(Nat)
  <2>1. \A i \in 1 .. Len(b) : b[i] \in Record
    OBVIOUS
  <2> QED
    BY <2>1 DEF Record
<1> HIDE DEF r
<1>3. \A c \in Codes : PrecompileEvents(r, c) \in Seq(Event)
  <2> TAKE c \in Codes
  <2>1. [i \in DOMAIN r |-> r[i].precompile[c]] \in [1 .. Len(b) -> Seq(Event)]
    BY <1>1, <1>2
  <2> QED
    BY <1>1, <2>1, FlattenFunction DEF PrecompileEvents
<1>4. InitEvents(r) \in Seq(Nat)
  <2>1. [i \in DOMAIN r |-> r[i].init] \in [1 .. Len(b) -> Seq(Nat)]
    BY <1>1, <1>2
  <2> QED
    BY <1>1, <2>1, FlattenFunction DEF InitEvents
<1>5. FinalizeEvents(r) \in Seq(Nat)
  <2>1. [i \in DOMAIN r |-> r[i].finalize] \in [1 .. Len(b) -> Seq(Nat)]
    BY <1>1, <1>2
  <2> QED
    BY <1>1, <2>1, FlattenFunction DEF FinalizeEvents
<1>6. /\ e.precompile = [c \in Codes |-> PrecompileEvents(r, c)]
      /\ e.init = InitEvents(r) /\ e.finalize = FinalizeEvents(r)
  BY DEF Deferred, NewRecord
<1> HIDE DEF e
<1>7. /\ e.precompile \in [Codes -> Seq(Event)]
      /\ e.init \in Seq(Nat) /\ e.finalize \in Seq(Nat)
  BY <1>3, <1>4, <1>5, <1>6
<1>8. /\ d.precompile \in [Codes -> Seq(Event)] /\ d.init \in Seq(Nat) /\ d.finalize \in Seq(Nat)
  BY DEF DeferredRecord
<1>9. [c \in Codes |-> d.precompile[c] \o e.precompile[c]] \in [Codes -> Seq(Event)]
  BY <1>7, <1>8
<1>10. d.init \o e.init \in Seq(Nat) /\ d.finalize \o e.finalize \in Seq(Nat)
  BY <1>7, <1>8
<1>11. Append2(d, e) \in DeferredRecord
  BY <1>9, <1>10 DEF Append2, DeferredRecord
<1> QED
  BY <1>11 DEF DeferAll, e, r

\* The accumulator of the keccak branch.
KeccakShards == [full : Seq(Seq(Event)), rest : Seq(Event), len : Nat]
KeccakFirst == [full |-> <<>>, rest |-> <<>>, len |-> 0]

\* It keeps its type.
LEMMA KeccakStepType ==
  ASSUME NEW acc \in KeccakShards, NEW e \in Event, NEW n
  PROVE  KeccakStep(acc, e, n) \in KeccakShards
<1>1. /\ acc.full \in Seq(Seq(Event)) /\ acc.rest \in Seq(Event) /\ acc.len \in Nat
      /\ e.blocks \in Nat
  BY DEF KeccakShards, Event
<1>2. /\ Append(acc.full, acc.rest) \in Seq(Seq(Event)) /\ <<e>> \in Seq(Event)
      /\ Append(acc.rest, e) \in Seq(Event) /\ acc.len + e.blocks \in Nat
  BY <1>1
<1>3. [full |-> Append(acc.full, acc.rest), rest |-> <<e>>, len |-> e.blocks] \in KeccakShards
  BY <1>1, <1>2 DEF KeccakShards
<1>4. [acc EXCEPT !.rest = Append(@, e), !.len = @ + e.blocks] \in KeccakShards
  BY <1>1, <1>2 DEF KeccakShards
<1> QED
  BY <1>3, <1>4 DEF KeccakStep

\* f[i] is the accumulator after i events of s, up to m.
Keccaks(f, s, n, m) ==
    f[0] = KeccakFirst /\ \A i \in 1 .. m : f[i] = KeccakStep(f[i - 1], s[i], n)

\* The events of the shards so far.
KeccakEvents(acc) == FlattenSeq(acc.full) \o acc.rest

\* The next event comes last.
LEMMA KeccakStepKeeps ==
  ASSUME NEW acc \in KeccakShards, NEW e \in Event, NEW n
  PROVE  KeccakEvents(KeccakStep(acc, e, n)) = Append(KeccakEvents(acc), e)
<1> DEFINE a == FlattenSeq(acc.full)
           b == acc.rest
<1>1. acc.full \in Seq(Seq(Event)) /\ b \in Seq(Event)
  BY DEF KeccakShards
<1>2. a \in Seq(Event)
  BY <1>1, FlattenType
<1>3. FlattenSeq(Append(acc.full, b)) = a \o b
  BY <1>1, FlattenAppend
<1>4. Append(b, e) = b \o <<e>> /\ a \o Append(b, e) = Append(a \o b, e)
      /\ (a \o b) \o <<e>> = Append(a \o b, e)
  <2> DEFINE T == Event
  <2>1. a \in Seq(T) /\ b \in Seq(T) /\ e \in T
    BY <1>1, <1>2
  <2> HIDE DEF a, b, T
  <2>2. Append(b, e) = b \o <<e>>
    BY <2>1
  <2>3. a \o b \in Seq(T)
    BY <2>1
  <2>4. (a \o b) \o <<e>> = Append(a \o b, e)
    BY <2>1, <2>3
  <2>5. (a \o b) \o <<e>> = a \o (b \o <<e>>)
    <3>1. Associative(T) /\ <<e>> \in Seq(T)
      BY <2>1, ConcatAssoc
    <3> QED
      BY <2>1, <3>1, Zenon DEF Associative
  <2> QED
    BY <2>2, <2>4, <2>5
<1> DEFINE next == KeccakStep(acc, e, n)
<1>5. CASE acc.len + e.blocks > n /\ acc.rest # <<>>
  <2>1. next.full = Append(acc.full, b) /\ next.rest = <<e>>
    BY <1>5 DEF KeccakStep
  <2> HIDE DEF next, a, b
  <2> QED
    BY <1>3, <1>4, <2>1 DEF KeccakEvents, a, b, next
<1>6. CASE ~(acc.len + e.blocks > n /\ acc.rest # <<>>)
  <2>1. next.full = acc.full /\ next.rest = Append(b, e)
    BY <1>6 DEF KeccakStep, KeccakShards
  <2> HIDE DEF next
  <2> QED
    BY <1>4, <2>1 DEF KeccakEvents, next
<1> QED
  BY <1>5, <1>6

\* The keccak branch is such a loop.
LEMMA KeccakLoop ==
  ASSUME NEW s \in Seq(Event), NEW n
  PROVE  \E h : Keccaks(h, s, n, Len(s)) /\ KeccakChunks(s, n) = h[Len(s)]
<1> DEFINE G == {m \in Nat : m <= Len(s) =>
                     \E f \in [0 .. m -> KeccakShards] : Keccaks(f, s, n, m)}
<1>1. Len(s) \in Nat /\ KeccakFirst \in KeccakShards /\ \A i \in 1 .. Len(s) : s[i] \in Event
  BY DEF KeccakFirst, KeccakShards
<1>2. 0 \in G
  <2> DEFINE f == [i \in 0 .. 0 |-> KeccakFirst]
  <2>1. f \in [0 .. 0 -> KeccakShards] /\ f[0] = KeccakFirst /\ \A i \in 1 .. 0 : FALSE
    BY <1>1
  <2> QED
    BY <2>1 DEF Keccaks
<1>3. ASSUME NEW m \in Nat, m \in G PROVE m + 1 \in G
  <2>1. SUFFICES ASSUME m + 1 <= Len(s)
                 PROVE  \E g \in [0 .. m + 1 -> KeccakShards] : Keccaks(g, s, n, m + 1)
    OBVIOUS
  <2>2. PICK f \in [0 .. m -> KeccakShards] : Keccaks(f, s, n, m)
    BY <1>1, <1>3, <2>1
  <2> DEFINE x == KeccakStep(f[m], s[m + 1], n)
             g == [i \in 0 .. m + 1 |-> IF i <= m THEN f[i] ELSE x]
  <2>3. f[m] \in KeccakShards /\ s[m + 1] \in Event
    BY <1>1, <2>1
  <2>4. x \in KeccakShards
    BY <2>3, KeccakStepType
  <2> HIDE DEF x
  <2>5. g \in [0 .. m + 1 -> KeccakShards] /\ g[0] = f[0]
    BY <2>4
  <2>6. ASSUME NEW i \in 1 .. m + 1 PROVE g[i] = KeccakStep(g[i - 1], s[i], n)
    <3>1. CASE i <= m
      <4>1. i \in 1 .. m /\ g[i] = f[i] /\ g[i - 1] = f[i - 1]
        BY <3>1
      <4> HIDE DEF g
      <4> QED
        BY <2>2, <4>1 DEF Keccaks
    <3>2. CASE ~ (i <= m)
      <4>1. i = m + 1 /\ i - 1 = m /\ m + 1 \in 0 .. m + 1 /\ m \in 0 .. m + 1
            /\ ~ (m + 1 <= m) /\ m <= m
        BY <3>2
      <4>2. g[m + 1] = x /\ g[m] = f[m]
        BY <4>1
      <4> HIDE DEF g
      <4> QED
        BY <4>1, <4>2 DEF x
    <3> QED
      BY <3>1, <3>2
  <2> HIDE DEF g
  <2> QED
    BY <2>2, <2>5, <2>6 DEF Keccaks
<1> HIDE DEF G
<1>4. Len(s) \in G
  <2>1. \A m \in Nat : m \in G
    BY <1>2, <1>3, Induction
  <2> QED
    BY <1>1, <2>1
<1>5. PICK f \in [0 .. Len(s) -> KeccakShards] : Keccaks(f, s, n, Len(s))
  BY <1>1, <1>4 DEF G
<1> DEFINE Eq(g) == g = [i \in 0 .. Len(s) |->
                            IF i = 0 THEN [full |-> <<>>, rest |-> <<>>, len |-> 0]
                                     ELSE KeccakStep(g[i - 1], s[i], n)]
           h == CHOOSE g : Eq(g)
<1>6. Eq(f)
  <2>1. \A i \in 0 .. Len(s) : f[i] = IF i = 0 THEN [full |-> <<>>, rest |-> <<>>, len |-> 0]
                                     ELSE KeccakStep(f[i - 1], s[i], n)
    <3> TAKE i \in 0 .. Len(s)
    <3>1. i # 0 => i \in 1 .. Len(s)
      BY <1>1
    <3> QED
      BY <1>5, <3>1 DEF Keccaks, KeccakFirst
  <2> QED
    BY <1>5, <2>1
<1>7. Eq(h)
  <2> HIDE DEF Eq
  <2> QED
    BY <1>6
<1>8. KeccakChunks(s, n) = h[Len(s)]
  BY DEF KeccakChunks
<1>9. \A i \in 0 .. Len(s) : h[i] = IF i = 0 THEN KeccakFirst ELSE KeccakStep(h[i - 1], s[i], n)
  <2> HIDE DEF h
  <2> QED
    BY <1>7 DEF KeccakFirst
<1> HIDE DEF h, Eq
<1>10. h[0] = KeccakFirst
  BY <1>1, <1>9
<1>11. ASSUME NEW i \in 1 .. Len(s) PROVE h[i] = KeccakStep(h[i - 1], s[i], n)
  <2>1. i \in 0 .. Len(s) /\ i # 0
    BY <1>1
  <2> QED
    BY <1>9, <2>1
<1> QED
  BY <1>8, <1>10, <1>11 DEF Keccaks

\* The keccak branch returns full shards and a remainder, of all the events in order.
LEMMA KeccakType ==
  ASSUME NEW s \in Seq(Event), NEW n
  PROVE  KeccakChunks(s, n) \in KeccakShards /\ KeccakEvents(KeccakChunks(s, n)) = s
<1>1. Len(s) \in Nat /\ KeccakFirst \in KeccakShards /\ \A i \in 1 .. Len(s) : s[i] \in Event
  BY DEF KeccakFirst, KeccakShards
<1>2. PICK h : Keccaks(h, s, n, Len(s)) /\ KeccakChunks(s, n) = h[Len(s)]
  BY KeccakLoop
<1> DEFINE H == {m \in Nat : m <= Len(s) => /\ h[m] \in KeccakShards
                                         /\ KeccakEvents(h[m]) = SubSeq(s, 1, m)}
<1>3. 0 \in H
  <2>1. h[0] = KeccakFirst
    BY <1>2 DEF Keccaks
  <2>2. FlattenSeq(<<>>) \o <<>> = <<>> /\ SubSeq(s, 1, 0) = <<>>
    BY FlattenNothing
  <2>3. KeccakEvents(KeccakFirst) = <<>>
    BY <2>2 DEF KeccakEvents, KeccakFirst
  <2> QED
    BY <1>1, <2>1, <2>2, <2>3
<1>4. ASSUME NEW m \in Nat, m \in H PROVE m + 1 \in H
  <2>1. SUFFICES ASSUME m + 1 <= Len(s)
                 PROVE  /\ h[m + 1] \in KeccakShards
                        /\ KeccakEvents(h[m + 1]) = SubSeq(s, 1, m + 1)
    OBVIOUS
  <2>2. h[m] \in KeccakShards /\ s[m + 1] \in Event /\ KeccakEvents(h[m]) = SubSeq(s, 1, m)
    BY <1>1, <1>4, <2>1
  <2>3. m + 1 \in 1 .. Len(s) /\ (m + 1) - 1 = m
    BY <1>1, <2>1
  <2>4. h[m + 1] = KeccakStep(h[m], s[m + 1], n)
    BY <1>2, <2>3 DEF Keccaks
  <2>5. h[m + 1] \in KeccakShards
    BY <2>2, <2>4, KeccakStepType
  <2>6. KeccakEvents(h[m + 1]) = Append(KeccakEvents(h[m]), s[m + 1])
    BY <2>2, <2>4, KeccakStepKeeps
  <2>7. Append(SubSeq(s, 1, m), s[m + 1]) = SubSeq(s, 1, m + 1)
    <3> DEFINE T == Event
    <3>1. s \in Seq(T)
      OBVIOUS
    <3> HIDE DEF T
    <3> QED
      BY <1>1, <2>1, <3>1
  <2> QED
    BY <2>2, <2>5, <2>6, <2>7
<1> HIDE DEF H
<1>5. \A m \in Nat : m \in H
  BY <1>3, <1>4, Induction
<1>6. h[Len(s)] \in KeccakShards /\ KeccakEvents(h[Len(s)]) = SubSeq(s, 1, Len(s))
  BY <1>1, <1>5 DEF H
<1>7. SubSeq(s, 1, Len(s)) = s
  OBVIOUS
<1> QED
  BY <1>2, <1>6, <1>7

-----------------------------------------------------------------------------
(* The shards that split makes are sequences, whatever their records hold. *)

\* A function on the domain of a sequence is a sequence.
LEMMA SameDomain ==
  ASSUME NEW s, IsSeq(s), NEW f, f = [k \in DOMAIN s |-> f[k]]
  PROVE  IsSeq(f) /\ Len(f) = Len(s) /\ DOMAIN f = DOMAIN s
<1>1. Len(s) \in Nat /\ DOMAIN s = 1 .. Len(s)
  BY SeqIsSeq DEF IsSeq
<1>2. f \in [1 .. Len(s) -> Range(f)] /\ DOMAIN f = DOMAIN s
  BY <1>1 DEF Range
<1> QED
  BY <1>1, <1>2, FunctionIsSeq

\* One more element.
LEMMA AppendIsSeq ==
  ASSUME NEW s, IsSeq(s), NEW x
  PROVE  IsSeq(Append(s, x))
<1>1. s \in Seq(Range(s) \cup {x})
  BY DEF IsSeq
<1>2. Append(s, x) \in Seq(Range(s) \cup {x})
  BY <1>1
<1> QED
  BY <1>2, SeqIsSeq

\* A list of sequences, whatever they contain.
LEMMA FlattenIsSeq ==
  ASSUME NEW n \in Nat, NEW f, f = [i \in 1 .. n |-> f[i]], \A i \in 1 .. n : IsSeq(f[i])
  PROVE  IsSeq(FlattenSeq(f))
<1> DEFINE S == UNION {Range(f[i]) : i \in 1 .. n}
<1>1. ASSUME NEW i \in 1 .. n PROVE f[i] \in Seq(S)
  <2>1. Range(f[i]) \subseteq S
    OBVIOUS
  <2>2. f[i] \in Seq(Range(f[i]))
    BY DEF IsSeq
  <2> HIDE DEF S
  <2> QED
    BY <2>1, <2>2
<1> HIDE DEF S
<1>2. f \in [1 .. n -> Seq(S)]
  BY <1>1
<1>3. FlattenSeq(f) \in Seq(S)
  BY <1>2, FlattenFunction
<1> QED
  BY <1>3, SeqIsSeq

\* The events of one code: full shards, and a remainder.
LEMMA ChunksOfType ==
  ASSUME NEW c \in Codes, NEW s \in Seq(Event)
  PROVE  IsSeq(ChunksOf(c, s).full) /\ ChunksOf(c, s).rest \in Seq(Event)
<1> DEFINE n == Threshold[c]
<1>1. n \in Nat \ {0} /\ Len(s) \in Nat
  BY SplitAssumption
<1>2. CASE c = KECCAK_SPONGE
  <2>1. KeccakChunks(s, n) \in KeccakShards
    BY KeccakType
  <2>2. ChunksOf(c, s) = KeccakChunks(s, n)
    BY <1>2 DEF ChunksOf
  <2>3. ChunksOf(c, s).full \in Seq(Seq(Event)) /\ ChunksOf(c, s).rest \in Seq(Event)
    BY <2>1, <2>2 DEF KeccakShards
  <2> QED
    BY <2>3, SeqIsSeq
<1>3. CASE c # KECCAK_SPONGE
  <2> DEFINE l == Len(s)
             q == l \div n
             full == [k \in 1 .. q |-> SubSeq(s, (k - 1) * n + 1, k * n)]
  <2>1. /\ ChunksOf(c, s).full = full
        /\ ChunksOf(c, s).rest = SubSeq(s, q * n + 1, Len(s))
    BY <1>3 DEF ChunksOf, ChunksExact
  <2> HIDE DEF n
  <2>2. q \in Nat /\ q * n \in Nat /\ q * n <= Len(s)
    <3>1. l \in Nat
      BY <1>1
    <3>2. Len(s) = l
      OBVIOUS
    <3> HIDE DEF l
    <3>3. l = n * (l \div n) + (l % n) /\ l \div n \in Nat /\ (l % n) \in 0 .. n - 1
      <4>1. l = n * (l \div n) + (l % n)
        BY <1>1, <3>1, DivMod
      <4>2. l \div n \in Nat /\ (l % n) \in 0 .. n - 1
        BY <1>1, <3>1
      <4> QED
        BY <4>1, <4>2
    <3>4. q * n = n * q
      BY <1>1, <3>3
    <3>6. q \in Nat
      BY <3>3
    <3> HIDE DEF q
    <3>5. n * q \in Nat
      BY <1>1, <3>6
    <3> QED
      BY <1>1, <3>1, <3>2, <3>3, <3>4, <3>5, <3>6 DEF q
  <2> HIDE DEF q, l
  <2>3. full \in [1 .. q -> Range(full)]
    BY DEF Range
  <2> HIDE DEF full
  <2>4. IsSeq(full)
    BY <2>2, <2>3, FunctionIsSeq
  <2>5. SubSeq(s, q * n + 1, Len(s)) \in Seq(Event)
    <3> DEFINE p == q * n
    <3>1. p \in Nat /\ p <= Len(s) /\ Len(s) \in Nat /\ Len(s) <= Len(s)
      BY <1>1, <2>2
    <3> HIDE DEF p
    <3>2. SubSeq(s, p + 1, Len(s)) \in Seq(Event)
      BY <3>1, Pieces
    <3> QED
      BY <3>2 DEF p
  <2> QED
    BY <2>1, <2>4, <2>5 DEF full
<1> QED
  BY <1>2, <1>3

\* The precompile shards are a sequence.
LEMMA PrecompileIsSeq ==
  ASSUME NEW d, \A c \in Codes : d.precompile[c] \in Seq(Event), NEW last,
         NEW order \in IterationOrders
  PROVE  IsSeq(PrecompileShards(d, last, order))
<1>1. ASSUME NEW c \in Codes PROVE IsSeq(CodeShards(d, c, last))
  <2> DEFINE ch == ChunksOf(c, d.precompile[c])
             full == [k \in DOMAIN ch.full |-> PrecompileShard(c, ch.full[k])]
  <2>1. IsSeq(ch.full)
    BY ChunksOfType
  <2>2. CodeShards(d, c, last) = IF last /\ ch.rest # <<>>
                                 THEN Append(full, PrecompileShard(c, ch.rest)) ELSE full
    BY DEF CodeShards
  <2> HIDE DEF ch
  <2>3. IsSeq(full)
    <3>1. full = [k \in DOMAIN ch.full |-> full[k]]
      OBVIOUS
    <3> HIDE DEF full
    <3> QED
      BY <2>1, <3>1, SameDomain
  <2> HIDE DEF full
  <2>4. IsSeq(Append(full, PrecompileShard(c, ch.rest)))
    BY <2>3, AppendIsSeq
  <2> QED
    BY <2>2, <2>3, <2>4
<1> DEFINE n == Cardinality(Codes)
           f == [i \in DOMAIN order |-> CodeShards(d, order[i], last)]
<1>2. n \in Nat
  BY SplitAssumption, FS_CardinalityType
<1>3. order \in [1 .. n -> Codes]
  BY DEF IterationOrders, SetToSeqs
<1> HIDE DEF n
<1>4. f = [i \in 1 .. n |-> f[i]] /\ \A i \in 1 .. n : IsSeq(f[i])
  BY <1>1, <1>3
<1> HIDE DEF f
<1>5. IsSeq(FlattenSeq(f))
  BY <1>2, <1>4, FlattenIsSeq
<1> QED
  BY <1>5 DEF f, PrecompileShards

\* The number of chunks.
LEMMA ChunksLen ==
  ASSUME NEW s, Len(s) \in Nat, NEW n \in Nat \ {0}
  PROVE  Len(Chunks(s, n)) \in Nat
<1> DEFINE m == (Len(s) + n - 1) \div n
           ch == Chunks(s, n)
<1>1. m \in Nat
  <2> DEFINE l == Len(s)
  <2>1. l \in Nat
    OBVIOUS
  <2> HIDE DEF l
  <2>2. (l + n - 1) \div n \in Nat
    BY <2>1, Division
  <2> QED
    BY <2>2 DEF l
<1>2. ch = [k \in 1 .. m |-> ch[k]]
  BY DEF Chunks
<1> HIDE DEF ch, m
<1>3. ch \in [1 .. m -> Range(ch)]
  BY <1>2 DEF Range
<1>4. Len(ch) = m
  BY <1>1, <1>3, FunctionIsSeq
<1> QED
  BY <1>1, <1>4 DEF ch

\* Sorting keeps the number of events.
LEMMA SortLen ==
  ASSUME NEW s, Len(s) \in Nat
  PROVE  Len(SortByAddr(s)) = Len(s)
<1> DEFINE t == SortByAddr(s)
<1>1. t = [i \in 1 .. Len(s) |-> t[i]]
  BY DEF SortByAddr
<1> HIDE DEF t
<1>2. t \in [1 .. Len(s) -> Range(t)]
  BY <1>1 DEF Range
<1>3. Len(t) = Len(s)
  BY <1>2, FunctionIsSeq
<1> QED
  BY <1>3 DEF t

\* What split returns: sequences of shards, and the deferred record for the next batch.
LEMMA SplitType ==
  ASSUME NEW d \in DeferredRecord, NEW last \in BOOLEAN, NEW lastRecord,
         lastRecord = <<>> \/ lastRecord = <<lastRecord[1]>>,
         NEW order \in IterationOrders
  PROVE  LET sp == Split(d, last, lastRecord, order)
         IN  /\ IsSeq(sp.shards) /\ IsSeq(sp.lastRecord)
             /\ lastRecord = <<>> => sp.lastRecord = <<>>
             /\ ~last => sp.deferred \in DeferredRecord
<1> DEFINE pre == PrecompileShards(d, last, order)
           sorted == [d EXCEPT !.precompile = Remainders(d, last),
                               !.init = IF last THEN SortByAddr(@) ELSE @,
                               !.finalize = IF last THEN SortByAddr(@) ELSE @]
           inits == Chunks(sorted.init, MemoryChunk)
           finalizes == Chunks(sorted.finalize, MemoryChunk)
           n == IF last THEN NumMemoryChunks(inits, finalizes) ELSE 0
           mem == [k \in 1 .. n |-> WithMemory(NewRecord, inits, finalizes, k)]
           sp == Split(d, last, lastRecord, order)
<1>1. \/ /\ lastRecord # <<>>
         /\ sp = [shards |-> <<>>, deferred |-> sorted,
                  lastRecord |-> <<PackMemory(lastRecord[1], inits, finalizes, n)>>]
      \/ sp = [shards |-> pre \o mem, deferred |-> sorted, lastRecord |-> lastRecord]
  BY Zenon DEF Split
<1>2. /\ d.precompile \in [Codes -> Seq(Event)] /\ d.init \in Seq(Nat)
      /\ d.finalize \in Seq(Nat)
  BY DEF DeferredRecord
<1>3. n \in Nat
  <2>1. Len(d.init) \in Nat /\ Len(d.finalize) \in Nat
    BY <1>2
  <2>2. /\ sorted.init = IF last THEN SortByAddr(d.init) ELSE d.init
        /\ sorted.finalize = IF last THEN SortByAddr(d.finalize) ELSE d.finalize
    BY DEF DeferredRecord
  <2> HIDE DEF sorted
  <2>3. Len(sorted.init) \in Nat /\ Len(sorted.finalize) \in Nat
    BY <2>1, <2>2, SortLen
  <2>4. Len(inits) \in Nat /\ Len(finalizes) \in Nat
    BY <2>3, ChunksLen, SplitAssumption
  <2> HIDE DEF inits, finalizes
  <2> QED
    BY <2>4 DEF NumMemoryChunks
<1>4. IsSeq(pre)
  <2>1. \A c \in Codes : d.precompile[c] \in Seq(Event)
    BY <1>2
  <2> QED
    BY <2>1, PrecompileIsSeq
<1> HIDE DEF n, pre, sp
<1>5. IsSeq(mem)
  <2>1. mem \in [1 .. n -> Range(mem)]
    BY DEF Range
  <2> HIDE DEF mem
  <2> QED
    BY <1>3, <2>1, FunctionIsSeq
<1> HIDE DEF mem
<1>6. IsSeq(pre \o mem)
  BY <1>4, <1>5, ConcatIsSeq
<1>7. IsSeq(<<>>) /\ \A x : IsSeq(<<x>>)
  <2>1. <<>> \in Seq({})
    OBVIOUS
  <2>2. \A x : <<x>> \in Seq({x})
    OBVIOUS
  <2>3. IsSeq(<<>>)
    BY <2>1, SeqIsSeq
  <2>4. ASSUME NEW x PROVE IsSeq(<<x>>)
    BY <2>2, SeqIsSeq
  <2> QED
    BY <2>3, <2>4
<1>8. ~last => sorted \in DeferredRecord
  <2>1. SUFFICES ASSUME ~last PROVE sorted \in DeferredRecord
    OBVIOUS
  <2>2. sorted = [d EXCEPT !.precompile = Remainders(d, last)]
    BY <2>1 DEF DeferredRecord
  <2>3. Remainders(d, last) \in [Codes -> Seq(Event)]
    <3>1. \A c \in Codes : ChunksOf(c, d.precompile[c]).rest \in Seq(Event)
      BY <1>2, ChunksOfType
    <3> QED
      BY <2>1, <3>1 DEF Remainders
  <2> QED
    BY <2>2, <2>3 DEF DeferredRecord
<1> HIDE DEF sorted, inits, finalizes
<1>9. sp.deferred = sorted
  BY <1>1
<1>10. IsSeq(sp.shards)
  <2>1. sp.shards = <<>> \/ sp.shards = pre \o mem
    BY <1>1
  <2> QED
    BY <1>6, <1>7, <2>1
<1>11. IsSeq(lastRecord)
  BY <1>7
<1>12. IsSeq(sp.lastRecord) /\ (lastRecord = <<>> => sp.lastRecord = <<>>)
  <2>1. CASE sp = [shards |-> pre \o mem, deferred |-> sorted, lastRecord |-> lastRecord]
    BY <1>11, <2>1
  <2>2. CASE /\ lastRecord # <<>>
             /\ sp = [shards |-> <<>>, deferred |-> sorted,
                      lastRecord |-> <<PackMemory(lastRecord[1], inits, finalizes, n)>>]
    <3>1. sp.lastRecord = <<PackMemory(lastRecord[1], inits, finalizes, n)>>
      BY <2>2
    <3> QED
      BY <1>7, <2>2, <3>1
  <2> QED
    BY <1>1, <2>1, <2>2
<1> QED
  BY <1>8, <1>9, <1>10, <1>12 DEF sp

-----------------------------------------------------------------------------
(* What one loop over the batches makes of them. *)

\* Everything but the last record.
LEMMA FrontIsSeq ==
  ASSUME NEW s, IsSeq(s)
  PROVE  IsSeq(Front(s))
<1>1. Len(s) \in Nat /\ DOMAIN s = 1 .. Len(s) /\ s \in Seq(Range(s))
  BY SeqIsSeq DEF IsSeq
<1>2. CASE Len(s) = 0
  <2>1. s = <<>> /\ Len(s) - 1 = -1
    BY <1>1, <1>2
  <2>2. Front(s) = <<>>
    BY <2>1 DEF Front
  <2>3. <<>> \in Seq({})
    OBVIOUS
  <2> QED
    BY <2>2, <2>3, SeqIsSeq
<1>3. CASE Len(s) # 0
  <2>1. Len(s) - 1 \in Nat /\ Len(s) - 1 <= Len(s)
    BY <1>1, <1>3
  <2>2. SubSeq(s, 1, Len(s) - 1) \in Seq(Range(s))
    BY <1>1, <2>1
  <2> QED
    BY <2>2, SeqIsSeq DEF Front
<1> QED
  BY <1>2, <1>3

\* The records with CPU events of a batch, and the events that are deferred after it.
LEMMA CpuType ==
  ASSUME NEW o, o.deferred \in DeferredRecord, NEW n \in 0 .. NumBatches - 1
  PROVE  IsSeq(CpuShards(o, n)) /\ AllDeferred(o, n) \in DeferredRecord
<1> DEFINE b == Batches[n + 1]
           recs == NumberCpuRecords(o.state, b).records
           cpu == CpuShards(o, n)
<1>1. b \in Seq(Record)
  <2>1. n + 1 \in 1 .. Len(Batches)
    BY PipelineAssumption DEF NumBatches
  <2> QED
    BY <2>1, PipelineAssumption
<1>2. IsSeq(recs)
  BY <1>1, NumberCpuType
<1>3. recs = Numbered(o, n).records
  BY DEF Numbered
<1>4. cpu = [i \in DOMAIN recs |-> AfterDefer(recs[i])]
  BY <1>3 DEF CpuShards
<1>5. AllDeferred(o, n) \in DeferredRecord
  <2>1. AllDeferred(o, n) = DeferAll(o.deferred, recs)
    BY <1>3 DEF AllDeferred
  <2> QED
    BY <1>1, <2>1, DeferType
<1> HIDE DEF recs, cpu
<1>6. cpu = [i \in DOMAIN recs |-> cpu[i]]
  BY <1>4
<1>7. IsSeq(cpu)
  BY <1>2, <1>6, SameDomain
<1> QED
  BY <1>5, <1>7 DEF cpu

\* Numbering the shards that split made.
LEMMA NumberDeferredIsSeq ==
  ASSUME NEW s, NEW done, NEW shards, IsSeq(shards)
  PROVE  IsSeq(NumberDeferredRecords(s, done, shards).records)
<1> DEFINE first == IF done THEN s ELSE [s EXCEPT !.execution_shard = @ + 1]
           after == CHOOSE g : g = [i \in 0 .. Len(shards) |->
                        IF i = 0 THEN first ELSE NumberDeferredRecord(g[i - 1], shards[i])]
           r == NumberDeferredRecords(s, done, shards).records
<1>1. r = [i \in DOMAIN shards |-> [shards[i] EXCEPT !.pv = after[i]]]
  BY DEF NumberDeferredRecords
<1> HIDE DEF r, after
<1>2. r = [i \in DOMAIN shards |-> r[i]]
  BY <1>1
<1>3. IsSeq(r)
  BY <1>2, SameDomain
<1> QED
  BY <1>3 DEF r

\* What a loop iteration starts from.
Sound(o) == IsSeq(o.shards) /\ o.deferred \in DeferredRecord

\* The shards batch n adds to those before it.
Added(o, n, cpu, lastRecord, order) ==
    LET sp == Split(AllDeferred(o, n), Done(n), lastRecord, order)
    IN cpu \o sp.lastRecord
           \o NumberDeferredRecords(Numbered(o, n).state, Done(n), sp.shards).records

\* One way through an iteration.
LEMMA WithSplitType ==
  ASSUME NEW o, Sound(o), NEW n \in 0 .. NumBatches - 1, NEW cpu, IsSeq(cpu),
         NEW lastRecord, lastRecord = <<>> \/ lastRecord = <<lastRecord[1]>>,
         NEW order \in IterationOrders
  PROVE  LET o2 == WithSplit(o, n, cpu, lastRecord, order)
             added == Added(o, n, cpu, lastRecord, order)
         IN  /\ IsSeq(added) /\ o2.shards = o.shards \o added
             /\ ~Done(n) => o2.deferred \in DeferredRecord
             /\ lastRecord = <<>> =>
                   added = cpu \o NumberDeferredRecords(Numbered(o, n).state, Done(n),
                                     Split(AllDeferred(o, n), Done(n), <<>>, order).shards).records
<1> DEFINE sp == Split(AllDeferred(o, n), Done(n), lastRecord, order)
           rs == NumberDeferredRecords(Numbered(o, n).state, Done(n), sp.shards).records
           added == Added(o, n, cpu, lastRecord, order)
<1>1. AllDeferred(o, n) \in DeferredRecord
  BY CpuType DEF Sound
<1>2. Done(n) \in BOOLEAN
  BY DEF Done
<1>3. /\ IsSeq(sp.shards) /\ IsSeq(sp.lastRecord)
      /\ lastRecord = <<>> => sp.lastRecord = <<>>
      /\ ~Done(n) => sp.deferred \in DeferredRecord
  BY <1>1, <1>2, SplitType
<1>4. IsSeq(rs)
  BY <1>3, NumberDeferredIsSeq
<1>5. added = cpu \o sp.lastRecord \o rs
  BY DEF Added
<1>6. /\ WithSplit(o, n, cpu, lastRecord, order).shards = o.shards \o added
      /\ WithSplit(o, n, cpu, lastRecord, order).deferred = sp.deferred
  BY <1>5 DEF WithSplit
<1> HIDE DEF sp
<1>7. IsSeq(cpu \o sp.lastRecord)
  BY <1>3, ConcatIsSeq
<1> HIDE DEF rs, added
<1>8. IsSeq(added)
  BY <1>4, <1>5, <1>7, ConcatIsSeq
<1>9. ASSUME lastRecord = <<>> PROVE added = cpu \o rs
  <2>1. cpu \o sp.lastRecord = cpu
    <3>1. sp.lastRecord = <<>>
      BY <1>3, <1>9
    <3> QED
      BY <3>1, ConcatIsSeq
  <2> QED
    BY <1>5, <2>1
<1> QED
  BY <1>3, <1>6, <1>8, <1>9 DEF sp, rs, added

\* Every way through an iteration only adds shards, and leaves something to go on from.
LEMMA BatchType ==
  ASSUME NEW o, Sound(o), NEW n \in 0 .. NumBatches - 1, NEW o2 \in BatchOutcomes(o, n)
  PROVE  /\ IsSeq(o2.shards) /\ IsPrefix(o.shards, o2.shards)
         /\ n + 1 < NumBatches => Sound(o2)
<1> DEFINE cpu == CpuShards(o, n)
<1>1. IsSeq(cpu) /\ IsSeq(Front(cpu))
  BY CpuType, FrontIsSeq DEF Sound
<1>2. PICK c, l, order :
         /\ order \in IterationOrders /\ IsSeq(c) /\ (l = <<>> \/ l = <<l[1]>>)
         /\ o2 = WithSplit(o, n, c, l, order)
  <2>1. \/ \E order \in IterationOrders : o2 = WithSplit(o, n, cpu, <<>>, order)
        \/ \E order \in IterationOrders : o2 = WithSplit(o, n, Front(cpu), <<Last(cpu)>>, order)
    BY Zenon DEF BatchOutcomes, MayPack
  <2>2. \A x : <<x>> = <<(<<x>>)[1]>>
    OBVIOUS
  <2> HIDE DEF cpu
  <2>3. CASE \E order \in IterationOrders : o2 = WithSplit(o, n, cpu, <<>>, order)
    BY <1>1, <2>3, Zenon
  <2>4. CASE \E order \in IterationOrders :
                o2 = WithSplit(o, n, Front(cpu), <<Last(cpu)>>, order)
    <3>1. PICK l : l = <<Last(cpu)>> /\ l = <<l[1]>>
      BY <2>2
    <3> QED
      BY <1>1, <2>4, <3>1, Zenon
  <2> QED
    BY <2>1, <2>3, <2>4
<1>3. PICK added : /\ IsSeq(added) /\ o2.shards = o.shards \o added
                   /\ ~Done(n) => o2.deferred \in DeferredRecord
  <2> DEFINE added == Added(o, n, c, l, order)
  <2>1. /\ IsSeq(added) /\ o2.shards = o.shards \o added
        /\ ~Done(n) => o2.deferred \in DeferredRecord
    BY <1>2, WithSplitType, ZenonT(60)
  <2> HIDE DEF added
  <2> QED
    BY <2>1
<1>4. IsSeq(o2.shards) /\ IsPrefix(o.shards, o2.shards)
  BY <1>3, ConcatIsSeq DEF Sound
<1>5. n + 1 < NumBatches => ~Done(n)
  BY PipelineAssumption DEF Done, NumBatches
<1> QED
  BY <1>3, <1>4, <1>5 DEF Sound

\* What the loop starts with.
FirstOutcome == [state |-> PublicValuesDefault, deferred |-> NewRecord, shards |-> <<>>]

\* f[n] is what the loop can have made of n batches, for every n up to m.
Loop(f, m) ==
    /\ f[0] = {FirstOutcome}
    /\ \A n \in 1 .. m : f[n] = UNION {BatchOutcomes(o, n - 1) : o \in f[n - 1]}

\* The recursive definition of Outcomes has a solution.
LEMMA OutcomesLoop == Loop(Outcomes, NumBatches)
<1> DEFINE N == NumBatches
           Step(T, n) == UNION {BatchOutcomes(o, n - 1) : o \in T}
           G == {m \in Nat : \E f : f = [n \in 0 .. m |-> f[n]] /\ Loop(f, m)}
<1>1. N \in Nat
  BY PipelineAssumption DEF NumBatches
<1>2. 0 \in G
  <2> DEFINE f == [n \in 0 .. 0 |-> {FirstOutcome}]
  <2>1. f = [n \in 0 .. 0 |-> f[n]] /\ f[0] = {FirstOutcome} /\ \A n \in 1 .. 0 : FALSE
    OBVIOUS
  <2> HIDE DEF f
  <2> QED
    BY <2>1 DEF Loop
<1>3. ASSUME NEW m \in Nat, m \in G PROVE m + 1 \in G
  <2>1. PICK f : f = [n \in 0 .. m |-> f[n]] /\ Loop(f, m)
    BY <1>3
  <2> DEFINE x == Step(f[m], m + 1)
             g == [n \in 0 .. m + 1 |-> IF n <= m THEN f[n] ELSE x]
  <2>2. g = [n \in 0 .. m + 1 |-> g[n]]
    OBVIOUS
  <2>3. g[0] = f[0]
    OBVIOUS
  <2>4. ASSUME NEW n \in 1 .. m + 1 PROVE g[n] = Step(g[n - 1], n)
    <3>1. CASE n <= m
      <4>1. n \in 1 .. m /\ g[n] = f[n] /\ g[n - 1] = f[n - 1]
        BY <3>1
      <4>2. f[n] = Step(f[n - 1], n)
        BY <2>1, <4>1 DEF Loop
      <4> HIDE DEF g, Step
      <4> QED
        BY <4>1, <4>2
    <3>2. CASE ~ (n <= m)
      <4>1. n = m + 1 /\ n - 1 = m /\ m + 1 \in 0 .. m + 1 /\ m \in 0 .. m + 1
            /\ ~ (m + 1 <= m) /\ m <= m
        BY <3>2
      <4>2. g[m + 1] = x /\ g[m] = f[m]
        BY <4>1
      <4> HIDE DEF g, Step
      <4> QED
        BY <4>1, <4>2
    <3> QED
      BY <3>1, <3>2
  <2> HIDE DEF g
  <2>5. Loop(g, m + 1)
    BY <2>1, <2>3, <2>4 DEF Loop
  <2> QED
    BY <2>2, <2>5
<1> HIDE DEF G
<1>4. N \in G
  BY <1>1, <1>2, <1>3, Induction
<1>5. PICK f : f = [n \in 0 .. N |-> f[n]] /\ Loop(f, N)
  BY <1>4 DEF G
<1> DEFINE Eq(g) == g = [n \in 0 .. N |->
               IF n = 0
               THEN {[state |-> PublicValuesDefault, deferred |-> NewRecord, shards |-> <<>>]}
               ELSE Step(g[n - 1], n)]
<1>6. Eq(f)
  <2>1. ASSUME NEW n \in 0 .. N
        PROVE  f[n] = IF n = 0 THEN {FirstOutcome} ELSE Step(f[n - 1], n)
    <3>1. n # 0 => n \in 1 .. N
      BY <1>1
    <3> QED
      BY <1>5, <3>1 DEF Loop
  <2> HIDE DEF Step
  <2> QED
    BY <1>5, <2>1 DEF FirstOutcome
<1>7. Outcomes = CHOOSE g : Eq(g)
  BY DEF Outcomes
<1>8. Eq(Outcomes)
  <2> HIDE DEF Eq
  <2> QED
    BY <1>6, <1>7
<1> DEFINE h == Outcomes
<1>9. Eq(h)
  BY <1>8
<1> HIDE DEF h, N
<1>10. \A n \in 0 .. N : h[n] = IF n = 0 THEN {FirstOutcome} ELSE Step(h[n - 1], n)
  <2> HIDE DEF Step
  <2> QED
    BY <1>9 DEF FirstOutcome
<1>11. h[0] = {FirstOutcome}
  <2>1. 0 \in 0 .. N
    BY <1>1
  <2> HIDE DEF Step
  <2> QED
    BY <1>10, <2>1
<1>12. ASSUME NEW n \in 1 .. N PROVE h[n] = Step(h[n - 1], n)
  <2>1. n \in 0 .. N /\ n # 0
    BY <1>1
  <2> HIDE DEF Step
  <2> QED
    BY <1>10, <2>1
<1>13. Loop(h, N)
  BY <1>11, <1>12 DEF Loop
<1> QED
  BY <1>13 DEF h, N

\* The loop goes from what it made of n batches to what it makes of n + 1, and
\* always has something to go on from.
LEMMA OutcomesSound ==
  /\ Outcomes[0] = {FirstOutcome}
  /\ \A n \in 0 .. NumBatches - 1 :
        /\ \A o \in Outcomes[n] : Sound(o)
        /\ \A o \in Outcomes[n] : \A o2 \in BatchOutcomes(o, n) : o2 \in Outcomes[n + 1]
<1> DEFINE N == NumBatches
           G == {n \in Nat : n < N => \A o \in Outcomes[n] : Sound(o)}
<1>1. N \in Nat
  BY PipelineAssumption DEF NumBatches
<1>2. Outcomes[0] = {FirstOutcome}
  BY OutcomesLoop DEF Loop
<1>3. ASSUME NEW n \in 0 .. N - 1
      PROVE  Outcomes[n + 1] = UNION {BatchOutcomes(o, n) : o \in Outcomes[n]}
  <2>1. n + 1 \in 1 .. N /\ (n + 1) - 1 = n
    BY <1>1
  <2>2. \A k \in 1 .. N : Outcomes[k] = UNION {BatchOutcomes(o, k - 1) : o \in Outcomes[k - 1]}
    BY OutcomesLoop DEF Loop
  <2>3. Outcomes[n + 1] = UNION {BatchOutcomes(o, (n + 1) - 1) : o \in Outcomes[(n + 1) - 1]}
    BY <2>1, <2>2
  <2> QED
    BY <2>1, <2>3
<1> HIDE DEF N
<1>4. 0 \in G
  <2>1. <<>> \in Seq({})
    OBVIOUS
  <2>2. IsSeq(<<>>)
    BY <2>1, SeqIsSeq
  <2>3. Sound(FirstOutcome)
    BY <2>2, NewIsDeferred DEF Sound, FirstOutcome
  <2> QED
    BY <1>2, <2>3
<1>5. ASSUME NEW n \in Nat, n \in G PROVE n + 1 \in G
  <2>1. SUFFICES ASSUME n + 1 < N, NEW o2 \in Outcomes[n + 1] PROVE Sound(o2)
    OBVIOUS
  <2>2. n \in 0 .. N - 1 /\ n < N
    BY <1>1, <2>1
  <2>3. PICK o \in Outcomes[n] : o2 \in BatchOutcomes(o, n)
    BY <1>3, <2>1, <2>2
  <2>4. Sound(o)
    BY <1>5, <2>2
  <2> QED
    BY <2>1, <2>2, <2>3, <2>4, BatchType DEF N
<1> HIDE DEF G
<1>6. \A n \in Nat : n \in G
  BY <1>4, <1>5, Induction
<1>7. ASSUME NEW n \in 0 .. N - 1 PROVE \A o \in Outcomes[n] : Sound(o)
  BY <1>1, <1>6 DEF G
<1>8. ASSUME NEW n \in 0 .. N - 1, NEW o \in Outcomes[n], NEW o2 \in BatchOutcomes(o, n)
      PROVE  o2 \in Outcomes[n + 1]
  BY <1>3
<1> QED
  BY <1>2, <1>7, <1>8 DEF N

-----------------------------------------------------------------------------
(* The inductive invariant of the refinement. *)

\* The fallback from a combined attempt splits again what is already split (see the run of
\* CoreProofUnfitPrecompile): the refinement is for runs that do not take it.
NeverFallsBack == \A w \in Workers : pc[w] = "shape1" => ShapesFit(clone[w])

\* After a failure no worker is left that could take the trace turn.
Blocked ==
    Failed => /\ traceTurn < Received
              /\ \A w \in Workers : Holding(w) => index[w] # traceTurn

\* Why a thread has ended, and that no batch is skipped before a failure.
Endings ==
    /\ poisoned => Failed
    /\ genPc = "ok" => genIndex = NumBatches
    /\ result # "running" => \A w \in Workers : pc[w] \in Ended
    /\ \A w \in Workers : /\ pc[w] = "ok" => checkpoints = <<>> /\ genPc # "run"
                          /\ pc[w] = "dropGuards" => index[w] < traceTurn

Taken ==
    ~Failed => \A n \in 0 .. Received - 1 :
                  n < traceTurn \/ \E w \in Workers : Holding(w) /\ index[w] = n

\* Only one worker at a time has chunks to send.
OneSender ==
    /\ \A w \in Workers : chunks[w] # <<>> => Sending(w)
    /\ \A v, w \in Workers : Sending(v) /\ Sending(w) => v = w

\* What is sent are lists of records.
Sent(S) == [batch : Nat, records : Seq(S)]
SentLists ==
    \E S : /\ output \in Seq(Sent(S)) /\ proved \in Seq(Sent(S))
           /\ chunks \in [Workers -> Seq(Seq(S))]

\* A worker keeps the records of its batch until it numbers them.
Fresh ==
    /\ DOMAIN records = Workers /\ DOMAIN clone = Workers
    /\ \A w \in Workers :
          pc[w] \in {"waitRecord", "number"} => records[w] = Batches[index[w] + 1]

\* The shared values and the shards that are out are what the loop made of the batches
\* before the trace turn ...
Between == \E o \in Outcomes[traceTurn] :
               state = o.state /\ deferred = o.deferred /\ Shards = o.shards

\* ... a worker has numbered the records of the next batch ...
AfterNumbering(w) ==
    \E o \in Outcomes[traceTurn] :
        /\ Shards = o.shards /\ deferred = o.deferred
        /\ state = Numbered(o, traceTurn).state
        /\ records[w] = Numbered(o, traceTurn).records

\* ... has deferred their events ...
AfterDeferring(w) ==
    \E o \in Outcomes[traceTurn] :
        /\ Shards = o.shards /\ deferred = AllDeferred(o, traceTurn)
        /\ state = Numbered(o, traceTurn).state
        /\ records[w] = CpuShards(o, traceTurn)

\* ... has recs, which end an iteration of the loop ...
Complete(recs) ==
    /\ IsSeq(recs)
    /\ \E o \in Outcomes[traceTurn] : \E o2 \in BatchOutcomes(o, traceTurn) :
        /\ Shards = o.shards /\ o2.shards = o.shards \o recs
        /\ state = o2.state /\ deferred = o2.deferred

\* ... and is sending them.
WhileSending == \E o2 \in Outcomes[traceTurn + 1] :
                    state = o2.state /\ deferred = o2.deferred /\ Shards = o2.shards

AsLoop ==
    ~Failed =>
        /\ (\A w \in Workers : pc[w] \notin Working) => Between
        /\ \A w \in Workers :
              /\ pc[w] = "defer" => AfterNumbering(w)
              /\ pc[w] \in {"split", "splitPlain"} => AfterDeferring(w)
              /\ pc[w] \in {"dependencies1", "shape1"} => Complete(clone[w])
              /\ pc[w] \in {"dependencies2", "shape2", "traces", "waitTrace"} =>
                     Complete(records[w])
              /\ pc[w] = "send" => WhileSending

\* Who may go on, apart from the data.
Control == Blocked /\ Endings /\ Taken /\ OneSender

LInv == Control /\ SentLists /\ Fresh /\ AsLoop

-----------------------------------------------------------------------------
(* Control is inductive. *)

\* Where a worker has a batch and no other thread waits for its next step.
Middle == PCs \ ({"recv", "send", "dropGuards"} \cup Ended)

\* What Control depends on besides pc.
idle == <<genPc, genIndex, checkpoints, index, chunks, traceTurn, result>>

\* A step from one middle state to another preserves it.
LEMMA QuietControl ==
  ASSUME TypeOK, Control, NEW w \in Workers, pc[w] \in Middle, NEW x \in Middle,
         pc' = [pc EXCEPT ![w] = x], UNCHANGED idle, poisoned' = poisoned
  PROVE  Control'
<1>1. \A v \in Workers : /\ pc'[v] = IF v = w THEN x ELSE pc[v]
                         /\ pc[v] \in PCs
  BY DEF TypeOK
<1>2. \A v \in Workers : /\ Holding(v)' <=> Holding(v)
                         /\ Sending(v)' <=> Sending(v)
                         /\ pc'[v] \in Ended <=> pc[v] \in Ended
                         /\ pc'[v] = "ok" <=> pc[v] = "ok"
                         /\ pc'[v] = "dropGuards" <=> pc[v] = "dropGuards"
                         /\ pc'[v] \in {"err", "panic"} <=> pc[v] \in {"err", "panic"}
  BY <1>1 DEF Holding, Sending, Middle, Ended, PCs, idle
<1>3. Failed' <=> Failed
  BY <1>2 DEF Failed
<1>4. Received' = Received
  BY DEF Received, idle
<1>5. Blocked'
  BY <1>2, <1>3, <1>4 DEF Control, Blocked, idle
<1>6. Endings'
  BY <1>2, <1>3 DEF Control, Endings, idle
<1>7. Taken'
  BY <1>2, <1>3, <1>4 DEF Control, Taken, idle
<1>8. OneSender'
  BY <1>2 DEF Control, OneSender, idle
<1> QED
  BY <1>5, <1>6, <1>7, <1>8 DEF Control

\* A worker that fails in its turn, or after another one, preserves it.
LEMMA FailingControl ==
  ASSUME TypeOK, Tickets, Control, NEW w \in Workers, Holding(w), ~Failed => index[w] = traceTurn,
         NEW x \in {"err", "panic"}, pc[w] = "send" => x = "panic",
         pc' = [pc EXCEPT ![w] = x], UNCHANGED idle
  PROVE  Control'
<1>1. \A v \in Workers : pc'[v] = IF v = w THEN x ELSE pc[v]
  BY DEF TypeOK
<1>2. Failed'
  BY <1>1 DEF Failed
<1>3. Received' = Received
  BY DEF Received, idle
<1>4. \A v \in Workers : Holding(v)' => Holding(v) /\ v # w
  BY <1>1 DEF Holding, Ended
<1>5. Blocked'
  <2>1. index[w] < Received
    BY DEF Tickets
  <2>2. \A v \in Workers : Holding(v) /\ v # w => index[v] # index[w]
    BY DEF Tickets
  <2>3. CASE Failed
    BY <1>3, <1>4, <2>3 DEF Control, Blocked, idle
  <2>4. CASE ~Failed
    BY <1>3, <1>4, <2>1, <2>2, <2>4 DEF Blocked, idle
  <2> QED
    BY <2>3, <2>4
<1>6. Endings'
  <2>1. pc[w] \notin Ended
    BY DEF Holding
  <2>2. result' = "running"
    BY <2>1 DEF Control, Endings, idle
  <2>3. \A v \in Workers : /\ pc'[v] = "ok" => pc[v] = "ok"
                           /\ pc'[v] = "dropGuards" => pc[v] = "dropGuards"
    BY <1>1
  <2> QED
    BY <1>2, <2>2, <2>3 DEF Control, Endings, idle
<1>7. Taken'
  BY <1>2 DEF Taken
<1>8. OneSender'
  <2>1. \A v \in Workers : v # w => (Sending(v)' <=> Sending(v))
    BY <1>1 DEF Sending, idle
  <2>2. chunks[w] # <<>> => pc[w] = "send"
    BY DEF Control, OneSender, Sending, Holding, Ended
  <2>3. Sending(w)' <=> chunks[w] # <<>>
    BY <1>1, <2>2 DEF Sending, idle
  <2>4. Sending(w)' => Sending(w)
    BY <2>2, <2>3 DEF Sending
  <2> QED
    BY <2>1, <2>3, <2>4 DEF Control, OneSender, idle
<1> QED
  BY <1>5, <1>6, <1>7, <1>8 DEF Control

\* Every step of a worker preserves it.
LEMMA WorkerControl ==
  ASSUME IInv, Control, NEW w \in Workers, WorkerStep(w) \/ WorkerFails(w)
  PROVE  Control'
<1>1. TypeOK /\ Tickets /\ RecordTurns /\ Lockstep
  BY DEF IInv
<1>2. /\ traceTurn \in Nat /\ genIndex \in Nat /\ checkpoints \in Seq(Nat)
      /\ Len(checkpoints) \in Nat /\ Received \in Nat
      /\ \A v \in Workers : index[v] \in Nat
  BY <1>1, ControlAssumption DEF TypeOK, Received, Tickets, NumBatches
<1>3. CASE \/ WaitForRecordTurn(w) \/ NumberRecords(w) \/ DeferEvents(w) \/ SplitCombined(w)
           \/ SkipCombined(w) \/ SplitPlain(w) \/ GenerateDependencies(w)
           \/ FixShapesCombined(w) \/ FixShapesPlain(w) \/ GenerateTraces(w)
  <2>1. /\ pc[w] \in Middle /\ UNCHANGED idle /\ poisoned' = poisoned
        /\ \E x \in Middle : pc' = [pc EXCEPT ![w] = x]
    <3> USE DEF Middle, PCs, Critical, Ended, Goto, idle, generator, locals, turns, locks,
                shared, proving
    <3>1. CASE WaitForRecordTurn(w)
      BY <3>1 DEF WaitForRecordTurn
    <3>2. CASE NumberRecords(w)
      BY <3>2 DEF NumberRecords
    <3>3. CASE DeferEvents(w)
      BY <3>3 DEF DeferEvents
    <3>4. CASE SplitCombined(w)
      BY <3>4 DEF SplitCombined
    <3>5. CASE SkipCombined(w)
      BY <3>5 DEF SkipCombined
    <3>6. CASE SplitPlain(w)
      BY <3>6 DEF SplitPlain
    <3>7. CASE GenerateDependencies(w)
      BY <3>7 DEF GenerateDependencies
    <3>8. CASE FixShapesCombined(w)
      BY <3>8 DEF FixShapesCombined
    <3>9. CASE FixShapesPlain(w)
      BY <3>9 DEF FixShapesPlain
    <3>10. CASE GenerateTraces(w)
      BY <3>10 DEF GenerateTraces
    <3> QED
      BY <1>3, <3>1, <3>2, <3>3, <3>4, <3>5, <3>6, <3>7, <3>8, <3>9, <3>10
  <2> QED
    BY <1>1, <2>1, QuietControl
<1>4. CASE NumberPanics(w) \/ FixShapesPanics(w) \/ SendPanics(w) \/ WorkerFails(w)
  <2>1. /\ Holding(w) /\ UNCHANGED idle
        /\ \E x \in {"err", "panic"} : /\ pc[w] = "send" => x = "panic"
                                       /\ pc' = [pc EXCEPT ![w] = x]
    <3> USE DEF Holding, Ended, Goto, idle, generator, locals, turns, locks, shared, proving
    <3>1. CASE NumberPanics(w)
      BY <3>1 DEF NumberPanics
    <3>2. CASE FixShapesPanics(w)
      BY <3>2 DEF FixShapesPanics
    <3>3. CASE SendPanics(w)
      BY <3>3 DEF SendPanics
    <3>4. CASE WorkerFails(w)
      BY <3>4 DEF WorkerFails
    <3> QED
      BY <1>4, <3>1, <3>2, <3>3, <3>4
  <2>2. ~Failed => index[w] = traceTurn
    <3>1. CASE NumberPanics(w)
      BY <3>1 DEF NumberPanics, Control, Endings
    <3>2. CASE FixShapesPanics(w) \/ SendPanics(w) \/ WorkerFails(w)
      <4>1. pc[w] \in Working
        BY <3>2 DEF FixShapesPanics, SendPanics, WorkerFails, Working, Critical
      <4> QED
        BY <1>1, <4>1 DEF Lockstep
    <3> QED
      BY <1>4, <3>1, <3>2
  <2> QED
    BY <1>1, <2>1, <2>2, FailingControl
<1>5. CASE Receive(w)
  <2>1. /\ pc[w] = "recv" /\ pc' = [pc EXCEPT ![w] = "waitRecord"] /\ checkpoints # <<>>
        /\ index' = [index EXCEPT ![w] = Head(checkpoints)]
        /\ checkpoints' = Tail(checkpoints) /\ UNCHANGED <<genPc, genIndex, chunks, traceTurn, poisoned, result>>
    BY <1>5 DEF Receive, Goto, generator, turns, locks
  <2>2. /\ Len(checkpoints') = Len(checkpoints) - 1 /\ Len(checkpoints) >= 1
        /\ Head(checkpoints) = checkpoints[1]
    BY <1>2, <2>1
  <2>3. Received' = Received + 1 /\ Head(checkpoints) = Received
    <3>1. 1 \in 1 .. Len(checkpoints)
      BY <1>2, <2>2
    <3>2. checkpoints[1] = Received + 1 - 1
      BY <1>1, <3>1 DEF Tickets
    <3>3. genIndex' = genIndex
      BY <2>1
    <3>4. Received' = genIndex - (Len(checkpoints) - 1)
      BY <2>2, <3>3 DEF Received
    <3> QED
      BY <1>2, <2>2, <3>2, <3>4 DEF Received
  <2>4. \A v \in Workers : /\ pc'[v] = IF v = w THEN "waitRecord" ELSE pc[v]
                           /\ index'[v] = IF v = w THEN Received ELSE index[v]
    BY <1>1, <2>1, <2>3 DEF TypeOK
  <2>5. Failed' <=> Failed
    BY <2>1, <2>4 DEF Failed
  <2>6. Blocked'
    <3>1. SUFFICES ASSUME Failed, NEW v \in Workers, Holding(v)'
                   PROVE  traceTurn' < Received' /\ index'[v] # traceTurn'
      <4>1. Failed => traceTurn < Received
        BY DEF Control, Blocked
      <4>2. Failed => traceTurn' < Received'
        BY <1>2, <2>1, <2>3, <4>1
      <4> QED
        BY <2>5, <4>2 DEF Blocked
    <3>2. traceTurn < Received
      BY <3>1 DEF Control, Blocked
    <3>3. v # w => Holding(v)
      BY <2>4, <3>1 DEF Holding
    <3>4. v # w => index[v] # traceTurn
      BY <3>1, <3>3 DEF Control, Blocked
    <3> QED
      BY <1>2, <2>1, <2>3, <2>4, <3>2, <3>4
  <2>7. Endings'
    <3>1. \A v \in Workers : pc[v] # "ok"
      BY <2>1 DEF Control, Endings
    <3>2. result = "running"
      BY <2>1 DEF Control, Endings, Ended
    <3>3. \A v \in Workers : pc'[v] # "ok" /\ (pc'[v] = "dropGuards" => pc[v] = "dropGuards" /\ v # w)
      BY <2>4, <3>1
    <3>4. \A v \in Workers : pc'[v] = "dropGuards" => index'[v] < traceTurn'
      BY <2>1, <2>4, <3>3 DEF Control, Endings
    <3> QED
      BY <2>1, <2>5, <3>2, <3>3, <3>4 DEF Control, Endings
  <2>8. Taken'
    <3>1. SUFFICES ASSUME ~Failed, NEW n \in 0 .. Received, ~(n < traceTurn)
                   PROVE  \E v \in Workers : Holding(v)' /\ index'[v] = n
      <4>1. Received' - 1 = Received
        BY <1>2, <2>3
      <4> QED
        BY <2>1, <2>5, <4>1 DEF Taken
    <3>2. CASE n = Received
      BY <2>4, <3>2 DEF Holding, Ended
    <3>3. CASE n # Received
      <4>1. n \in 0 .. Received - 1
        BY <1>2, <3>3
      <4>2. PICK v \in Workers : Holding(v) /\ index[v] = n
        BY <3>1, <4>1 DEF Control, Taken
      <4>3. v # w
        BY <2>1, <4>2 DEF Holding
      <4> QED
        BY <2>4, <4>2, <4>3 DEF Holding
    <3> QED
      BY <3>2, <3>3
  <2>9. OneSender'
    <3>1. \A v \in Workers : Sending(v)' <=> Sending(v)
      BY <2>1, <2>4 DEF Sending
    <3> QED
      BY <2>1, <3>1 DEF Control, OneSender
  <2> QED
    BY <2>6, <2>7, <2>8, <2>9 DEF Control
<1>6. CASE ReceiveDisconnected(w)
  <2>1. /\ pc[w] = "recv" /\ pc' = [pc EXCEPT ![w] = "ok"] /\ checkpoints = <<>>
        /\ genPc # "run" /\ UNCHANGED idle /\ poisoned' = poisoned
    BY <1>6 DEF ReceiveDisconnected, Goto, generator, turns, locks, idle
  <2>2. \A v \in Workers : pc'[v] = IF v = w THEN "ok" ELSE pc[v]
    BY <1>1, <2>1 DEF TypeOK
  <2>3. \A v \in Workers : /\ Holding(v)' <=> Holding(v)
                           /\ Sending(v)' <=> Sending(v)
                           /\ pc'[v] = "dropGuards" <=> pc[v] = "dropGuards"
                           /\ pc[v] \in Ended => pc'[v] \in Ended
                           /\ pc'[v] \in {"err", "panic"} <=> pc[v] \in {"err", "panic"}
    BY <2>1, <2>2 DEF Holding, Sending, Ended, idle
  <2>4. (Failed' <=> Failed) /\ Received' = Received
    BY <2>1, <2>3 DEF Failed, Received, idle
  <2>5. Blocked'
    BY <2>1, <2>3, <2>4 DEF Control, Blocked, idle
  <2>6. Endings'
    BY <2>1, <2>3, <2>4 DEF Control, Endings, idle
  <2>7. Taken'
    BY <2>1, <2>3, <2>4 DEF Control, Taken, idle
  <2>8. OneSender'
    BY <2>1, <2>3 DEF Control, OneSender, idle
  <2> QED
    BY <2>5, <2>6, <2>7, <2>8 DEF Control
<1>7. CASE WaitForTraceTurn(w) \/ SendChunk(w)
  <2>1. /\ Holding(w) /\ pc[w] # "dropGuards" /\ pc' = [pc EXCEPT ![w] = "send"]
        /\ index[w] = traceTurn
        /\ \A v \in Workers : v # w => chunks'[v] = chunks[v]
        /\ UNCHANGED <<genPc, genIndex, checkpoints, index, traceTurn, poisoned, result>>
    <3>1. CASE WaitForTraceTurn(w)
      <4>1. chunks' = [chunks EXCEPT ![w] = Chunks(records[w], ShardBatchSize)]
        BY <3>1 DEF WaitForTraceTurn
      <4>2. \A v \in Workers : v # w => chunks'[v] = chunks[v]
        BY <4>1
      <4> QED
        BY <3>1, <4>2 DEF WaitForTraceTurn, Goto, generator, turns, locks, Holding, Ended
    <3>2. CASE SendChunk(w)
      <4>1. pc[w] = "send" /\ pc' = pc /\ pc = [pc EXCEPT ![w] = "send"]
        BY <1>1, <3>2 DEF SendChunk, TypeOK
      <4>2. index[w] = traceTurn
        BY <1>1, <4>1 DEF RecordTurns
      <4>3. \A v \in Workers : v # w => chunks'[v] = chunks[v]
        BY <3>2 DEF SendChunk
      <4> QED
        BY <3>2, <4>1, <4>2, <4>3 DEF SendChunk, generator, turns, locks, Holding, Ended
    <3> QED
      BY <1>7, <3>1, <3>2
  <2>2. \A v \in Workers : pc'[v] = IF v = w THEN "send" ELSE pc[v]
    BY <1>1, <2>1 DEF TypeOK
  <2>3. \A v \in Workers : /\ Holding(v)' <=> Holding(v)
                           /\ pc'[v] = "dropGuards" <=> pc[v] = "dropGuards"
                           /\ pc'[v] = "ok" <=> pc[v] = "ok"
                           /\ pc[v] \in Ended <=> pc'[v] \in Ended
                           /\ pc'[v] \in {"err", "panic"} <=> pc[v] \in {"err", "panic"}
    BY <2>1, <2>2 DEF Holding, Ended
  <2>4. (Failed' <=> Failed) /\ Received' = Received
    BY <2>1, <2>3 DEF Failed, Received
  <2>5. ~Failed
    BY <2>1 DEF Control, Blocked
  <2>6. Blocked'
    BY <2>4, <2>5 DEF Blocked
  <2>7. Endings'
    BY <2>1, <2>3, <2>4 DEF Control, Endings
  <2>8. Taken'
    BY <2>1, <2>3, <2>4 DEF Control, Taken
  <2>9. OneSender'
    <3>1. ASSUME NEW v \in Workers, v # w PROVE ~Sending(v)
      <4>1. pc[v] # "panic"
        BY <2>5 DEF Failed
      <4>2. SUFFICES ASSUME pc[v] = "send" PROVE FALSE
        BY <4>1 DEF Sending
      <4>3. Holding(v) /\ index[v] = traceTurn
        BY <1>1, <4>2 DEF Holding, Ended, RecordTurns
      <4> QED
        BY <1>1, <2>1, <3>1, <4>3 DEF Tickets
    <3>2. ASSUME NEW v \in Workers, v # w PROVE ~Sending(v)' /\ chunks'[v] = <<>>
      <4>1. chunks'[v] = <<>>
        BY <2>1, <3>1, <3>2 DEF Control, OneSender
      <4>2. pc'[v] = pc[v] /\ pc[v] # "send"
        BY <2>2, <3>1, <3>2 DEF Sending
      <4> QED
        BY <4>1, <4>2 DEF Sending
    <3>3. Sending(w)'
      BY <2>2 DEF Sending
    <3> QED
      BY <3>2, <3>3 DEF OneSender
  <2> QED
    BY <2>6, <2>7, <2>8, <2>9 DEF Control
<1>8. CASE AdvanceTraceTurn(w)
  <2>1. /\ pc[w] = "send" /\ pc' = [pc EXCEPT ![w] = "dropGuards"] /\ chunks[w] = <<>>
        /\ traceTurn' = traceTurn + 1
        /\ UNCHANGED <<genPc, genIndex, checkpoints, index, chunks, poisoned, result>>
    BY <1>8 DEF AdvanceTraceTurn, Goto, generator, locks
  <2>2. \A v \in Workers : pc'[v] = IF v = w THEN "dropGuards" ELSE pc[v]
    BY <1>1, <2>1 DEF TypeOK
  <2>3. \A v \in Workers : /\ Holding(v)' <=> Holding(v)
                           /\ Sending(v)' => Sending(v)
                           /\ v # w => (Sending(v)' <=> Sending(v))
                           /\ pc'[v] = "dropGuards" => pc[v] = "dropGuards" \/ v = w
                           /\ pc'[v] = "ok" <=> pc[v] = "ok"
                           /\ pc[v] \in Ended => pc'[v] \in Ended
                           /\ pc'[v] \in {"err", "panic"} <=> pc[v] \in {"err", "panic"}
    BY <2>1, <2>2 DEF Holding, Sending, Ended
  <2>4. (Failed' <=> Failed) /\ Received' = Received
    BY <2>1, <2>3 DEF Failed, Received
  <2>5. index[w] = traceTurn /\ Holding(w)
    BY <1>1, <2>1 DEF RecordTurns, Holding, Ended
  <2>6. ~Failed
    BY <2>5 DEF Control, Blocked
  <2>7. Blocked'
    BY <2>4, <2>6 DEF Blocked
  <2>8. Endings'
    <3>1. ASSUME NEW v \in Workers, pc'[v] = "dropGuards" PROVE index[v] < traceTurn + 1
      <4>1. v = w \/ index[v] < traceTurn
        BY <2>3, <3>1 DEF Control, Endings
      <4> QED
        BY <1>2, <2>5, <4>1
    <3> QED
      BY <2>1, <2>3, <2>4, <3>1 DEF Control, Endings
  <2>9. Taken'
    <3>1. ASSUME NEW n \in 0 .. Received - 1, ~(n < traceTurn + 1)
          PROVE  \E v \in Workers : Holding(v) /\ index[v] = n
      <4>1. ~(n < traceTurn)
        BY <1>2, <3>1
      <4> QED
        BY <2>6, <4>1 DEF Control, Taken
    <3> QED
      BY <2>1, <2>3, <2>4, <3>1 DEF Taken
  <2>10. OneSender'
    BY <2>1, <2>3 DEF Control, OneSender
  <2> QED
    BY <2>7, <2>8, <2>9, <2>10 DEF Control
<1>9. CASE DropGuards(w)
  <2>1. /\ pc[w] = "dropGuards" /\ pc' = [pc EXCEPT ![w] = "recv"]
        /\ UNCHANGED idle /\ poisoned' = poisoned
    BY <1>9 DEF DropGuards, Goto, generator, turns, idle
  <2>2. \A v \in Workers : pc'[v] = IF v = w THEN "recv" ELSE pc[v]
    BY <1>1, <2>1 DEF TypeOK
  <2>3. \A v \in Workers : /\ Holding(v)' => Holding(v)
                           /\ v # w => (Holding(v)' <=> Holding(v))
                           /\ Sending(v)' <=> Sending(v)
                           /\ pc'[v] = "dropGuards" => pc[v] = "dropGuards"
                           /\ pc'[v] = "ok" <=> pc[v] = "ok"
                           /\ pc'[v] \in {"err", "panic"} <=> pc[v] \in {"err", "panic"}
    BY <2>1, <2>2 DEF Holding, Sending, Ended, idle
  <2>4. (Failed' <=> Failed) /\ Received' = Received
    BY <2>1, <2>3 DEF Failed, Received, idle
  <2>5. index[w] < traceTurn /\ result = "running"
    BY <2>1 DEF Control, Endings, Ended
  <2>6. Blocked'
    BY <2>1, <2>3, <2>4 DEF Control, Blocked, idle
  <2>7. Endings'
    BY <2>1, <2>3, <2>4, <2>5 DEF Control, Endings, idle
  <2>8. Taken'
    <3>1. ASSUME ~Failed, NEW n \in 0 .. Received - 1, ~(n < traceTurn)
          PROVE  \E v \in Workers : Holding(v)' /\ index[v] = n
      <4>1. PICK v \in Workers : Holding(v) /\ index[v] = n
        BY <3>1 DEF Control, Taken
      <4>2. v # w
        BY <2>5, <3>1, <4>1
      <4> QED
        BY <2>3, <4>1, <4>2
    <3> QED
      BY <2>1, <2>4, <3>1 DEF Taken, idle
  <2>9. OneSender'
    BY <2>1, <2>3 DEF Control, OneSender, idle
  <2> QED
    BY <2>6, <2>7, <2>8, <2>9 DEF Control
<1> QED
  BY <1>3, <1>4, <1>5, <1>6, <1>7, <1>8, <1>9 DEF WorkerStep

\* Every step of the generator, the prover and the caller preserves it.
LEMMA OthersControl ==
  ASSUME IInv, Control,
         \/ GenerateCheckpoint \/ GeneratorFails \/ ProverStep \/ ProverPanics
         \/ Return \/ Returned \/ UNCHANGED vars
  PROVE  Control'
<1>1. TypeOK /\ Tickets
  BY DEF IInv
<1>2. CASE GenerateCheckpoint
  <2>1. /\ genPc = "run" /\ checkpoints' = Append(checkpoints, genIndex)
        /\ genIndex' = genIndex + 1 /\ genPc' = IF Done(genIndex) THEN "ok" ELSE "run"
        /\ UNCHANGED <<pc, index, chunks, traceTurn, poisoned, result>>
    BY <1>2 DEF GenerateCheckpoint, locals, turns, locks
  <2>2. /\ genIndex \in Nat /\ checkpoints \in Seq(Nat) /\ Len(checkpoints) \in Nat
        /\ NumBatches \in Nat
    BY <1>1, PipelineAssumption DEF TypeOK, NumBatches
  <2>3. Len(checkpoints') = Len(checkpoints) + 1
    BY <2>1, <2>2
  <2>4. Received' = Received
    BY <2>1, <2>2, <2>3 DEF Received
  <2>5. genPc' = "ok" => genIndex' = NumBatches
    BY <2>1, <2>2 DEF Done
  <2>6. Blocked' /\ Taken' /\ OneSender'
    BY <2>1, <2>4 DEF Control, Blocked, Taken, OneSender, Failed, Holding, Sending
  <2>7. \A w \in Workers : pc'[w] # "ok"
    BY <2>1 DEF Control, Endings
  <2>8. Endings'
    BY <2>1, <2>5, <2>7 DEF Control, Endings, Failed
  <2> QED
    BY <2>6, <2>8 DEF Control
<1>3. CASE \/ GeneratorFails \/ ProverStep \/ ProverPanics \/ Returned \/ UNCHANGED vars
  <2>1. /\ UNCHANGED <<pc, genIndex, checkpoints, index, chunks, traceTurn, poisoned, result>>
        /\ genPc' = genPc \/ genPc' = "err"
    BY <1>3 DEF GeneratorFails, ProverStep, ProveChunk, ProverEnds, ProverPanics, Returned,
                vars, locals, turns, locks, generator
  <2>2. (Failed' <=> Failed) /\ Received' = Received
    BY <2>1 DEF Failed, Received
  <2>3. Blocked' /\ Taken' /\ OneSender'
    BY <2>1, <2>2 DEF Control, Blocked, Taken, OneSender, Holding, Sending
  <2>4. Endings'
    BY <2>1, <2>2 DEF Control, Endings
  <2> QED
    BY <2>3, <2>4 DEF Control
<1>4. CASE Return
  <2>1. /\ UNCHANGED <<pc, genPc, genIndex, checkpoints, index, chunks, traceTurn, poisoned>>
        /\ \A w \in Workers : pc[w] \in Ended
    BY <1>4 DEF Return, locals, turns, locks, generator
  <2>2. (Failed' <=> Failed) /\ Received' = Received
    BY <2>1 DEF Failed, Received
  <2>3. Blocked' /\ Taken' /\ OneSender'
    BY <2>1, <2>2 DEF Control, Blocked, Taken, OneSender, Holding, Sending
  <2>4. Endings'
    BY <2>1, <2>2 DEF Control, Endings
  <2> QED
    BY <2>3, <2>4 DEF Control
<1> QED
  BY <1>2, <1>3, <1>4

-----------------------------------------------------------------------------
(* What has been proved or sent, and what is left to send. *)

\* Shards, as a function of the variables it depends on.
Emitted(p, out, ch) ==
    LET unsent == {w \in Workers : ch[w] # <<>>}
    IN RecordsOf(p \o out)
       \o (IF unsent = {} THEN <<>> ELSE FlattenSeq(ch[CHOOSE w \in unsent : TRUE]))

\* One more chunk.
LEMMA RecordsOfAppend ==
  ASSUME NEW S, NEW sent \in Seq(Sent(S)), NEW x \in Sent(S)
  PROVE  /\ RecordsOf(sent) \in Seq(S)
         /\ RecordsOf(Append(sent, x)) = RecordsOf(sent) \o x.records
<1> DEFINE f == [i \in DOMAIN sent |-> sent[i].records]
           t == Append(sent, x)
           g == [i \in DOMAIN t |-> t[i].records]
<1>1. Len(sent) \in Nat /\ DOMAIN sent = 1 .. Len(sent) /\ \A i \in 1 .. Len(sent) : sent[i] \in Sent(S)
  OBVIOUS
<1>2. \A i \in 1 .. Len(sent) : sent[i].records \in Seq(S)
  BY <1>1 DEF Sent
<1>3. f \in [1 .. Len(sent) -> Seq(S)]
  BY <1>1, <1>2
<1> HIDE DEF f
<1>4. f \in Seq(Seq(S)) /\ Len(f) = Len(sent)
  BY <1>1, <1>3, FunctionIsSeq
<1>5. RecordsOf(sent) = FlattenSeq(f)
  BY DEF RecordsOf, f
<1>6. x.records \in Seq(S)
  BY DEF Sent
<1>7. g = Append(f, x.records)
  <2>1. /\ DOMAIN t = 1 .. Len(sent) + 1 /\ t[Len(sent) + 1] = x
        /\ \A i \in 1 .. Len(sent) : t[i] = sent[i]
    BY <1>1
  <2> DEFINE h == Append(f, x.records)
  <2>2. /\ h \in Seq(Seq(S)) /\ Len(h) = Len(sent) + 1 /\ h[Len(sent) + 1] = x.records
        /\ \A i \in 1 .. Len(sent) : h[i] = f[i]
    BY <1>1, <1>4, <1>6
  <2> HIDE DEF t, h
  <2>3. \A i \in 1 .. Len(sent) : f[i] = sent[i].records
    BY <1>1 DEF f
  <2>4. \A i \in 1 .. Len(sent) + 1 : g[i] = h[i]
    <3> TAKE i \in 1 .. Len(sent) + 1
    <3>1. i \in 1 .. Len(sent) \/ i = Len(sent) + 1
      BY <1>1
    <3> QED
      BY <2>1, <2>2, <2>3, <3>1
  <2>5. DOMAIN g = 1 .. Len(sent) + 1 /\ DOMAIN h = 1 .. Len(sent) + 1
    BY <2>1, <2>2
  <2>6. h = [i \in 1 .. Len(sent) + 1 |-> h[i]]
    BY <2>2
  <2>7. g = [i \in 1 .. Len(sent) + 1 |-> g[i]]
    BY <2>1
  <2> QED
    BY <2>4, <2>6, <2>7 DEF h
<1>8. RecordsOf(t) = FlattenSeq(g)
  BY DEF RecordsOf
<1> HIDE DEF g, t
<1>9. RecordsOf(t) = FlattenSeq(f) \o x.records
  BY <1>4, <1>6, <1>7, <1>8, FlattenAppend
<1> QED
  BY <1>4, <1>5, <1>9, FlattenType DEF t

\* Only w can have chunks to send ...
OnlyFrom(S, p, out, ch, w) ==
    /\ p \in Seq(Sent(S)) /\ out \in Seq(Sent(S)) /\ ch \in [Workers -> Seq(Seq(S))]
    /\ w \in Workers /\ \A v \in Workers : v # w => ch[v] = <<>>

\* ... and they come last.
LEMMA EmittedOne ==
  ASSUME NEW S, NEW p, NEW out, NEW ch, NEW w, OnlyFrom(S, p, out, ch, w)
  PROVE  /\ Emitted(p, out, ch) = RecordsOf(p \o out) \o FlattenSeq(ch[w])
         /\ RecordsOf(p \o out) \in Seq(S) /\ FlattenSeq(ch[w]) \in Seq(S)
<1> DEFINE unsent == {v \in Workers : ch[v] # <<>>}
<1>1. /\ p \in Seq(Sent(S)) /\ out \in Seq(Sent(S)) /\ ch \in [Workers -> Seq(Seq(S))]
      /\ w \in Workers /\ \A v \in Workers : v # w => ch[v] = <<>>
  BY DEF OnlyFrom
<1>2. p \o out \in Seq(Sent(S))
  BY <1>1
<1>3. RecordsOf(p \o out) \in Seq(S)
  <2>1. PICK x : x = [batch |-> 0, records |-> <<>>]
    OBVIOUS
  <2>2. x \in Sent(S)
    BY <2>1 DEF Sent
  <2> QED
    BY <1>2, <2>2, RecordsOfAppend
<1>4. FlattenSeq(ch[w]) \in Seq(S) /\ (ch[w] = <<>> => FlattenSeq(ch[w]) = <<>>)
  BY <1>1, FlattenType
<1>5. Emitted(p, out, ch) = RecordsOf(p \o out)
          \o (IF unsent = {} THEN <<>> ELSE FlattenSeq(ch[CHOOSE v \in unsent : TRUE]))
  BY DEF Emitted
<1>6. CASE ch[w] = <<>>
  <2>1. unsent = {}
    BY <1>1, <1>6
  <2> QED
    BY <1>3, <1>4, <1>5, <1>6, <2>1
<1>7. CASE ch[w] # <<>>
  <2>1. unsent = {w}
    BY <1>1, <1>7
  <2> HIDE DEF unsent
  <2>2. unsent # {} /\ (CHOOSE v \in unsent : TRUE) = w
    BY <2>1
  <2> QED
    BY <1>3, <1>4, <1>5, <2>2
<1> QED
  BY <1>6, <1>7

\* The variables after a chunk is sent, and after records are cut into chunks.
OutputSent(out, ch, w, b) == Append(out, [batch |-> b, records |-> Head(ch[w])])
ChunksSent(ch, w) == [ch EXCEPT ![w] = Tail(@)]
ChunksCut(ch, w, recs, n) == [ch EXCEPT ![w] = Chunks(recs, n)]

\* Sending a chunk moves it from the end of what is left to the end of what is sent.
LEMMA EmittedSend ==
  ASSUME NEW S, NEW p, NEW out, NEW ch, NEW w, OnlyFrom(S, p, out, ch, w), ch[w] # <<>>,
         NEW b \in Nat
  PROVE  /\ OnlyFrom(S, p, OutputSent(out, ch, w, b), ChunksSent(ch, w), w)
         /\ Emitted(p, OutputSent(out, ch, w, b), ChunksSent(ch, w)) = Emitted(p, out, ch)
<1> DEFINE x == [batch |-> b, records |-> Head(ch[w])]
           out2 == Append(out, x)
           ch2 == [ch EXCEPT ![w] = Tail(@)]
           a == RecordsOf(p \o out)
           h == Head(ch[w])
           c == FlattenSeq(Tail(ch[w]))
<1>1. /\ ch[w] \in Seq(Seq(S)) /\ h \in Seq(S) /\ Tail(ch[w]) \in Seq(Seq(S))
      /\ p \in Seq(Sent(S)) /\ out \in Seq(Sent(S))
  BY DEF OnlyFrom
<1>2. x \in Sent(S) /\ x.records = h
  BY <1>1 DEF Sent
<1> HIDE DEF x
<1>3. out2 \in Seq(Sent(S)) /\ p \o out \in Seq(Sent(S)) /\ p \o out2 = Append(p \o out, x)
  BY <1>1, <1>2
<1>4. /\ ch2 \in [Workers -> Seq(Seq(S))] /\ ch2[w] = Tail(ch[w])
      /\ \A v \in Workers : v # w => ch2[v] = <<>>
  BY <1>1 DEF OnlyFrom
<1> HIDE DEF out2, ch2
<1>5. OnlyFrom(S, p, out2, ch2, w)
  BY <1>3, <1>4 DEF OnlyFrom
<1>6. Emitted(p, out, ch) = a \o FlattenSeq(ch[w]) /\ a \in Seq(S)
  BY EmittedOne
<1>7. Emitted(p, out2, ch2) = RecordsOf(p \o out2) \o FlattenSeq(ch2[w])
  BY <1>5, EmittedOne
<1> HIDE DEF h
<1>8. RecordsOf(p \o out2) = a \o h
  BY <1>2, <1>3, RecordsOfAppend
<1>9. FlattenSeq(ch[w]) = h \o c /\ c \in Seq(S)
  BY <1>1, FlattenTail, FlattenType DEF h
<1> HIDE DEF a, c
<1>10. (a \o h) \o c = a \o (h \o c)
  <2>1. a \in Seq(S) /\ h \in Seq(S) /\ c \in Seq(S)
    BY <1>1, <1>6, <1>9
  <2>2. Associative(S)
    BY ConcatAssoc
  <2> QED
    BY <2>1, <2>2, Zenon DEF Associative
<1>11. FlattenSeq(ch2[w]) = c
  BY <1>4 DEF c
<1>12. Emitted(p, out2, ch2) = Emitted(p, out, ch)
  BY <1>6, <1>7, <1>8, <1>9, <1>10, <1>11
<1> QED
  BY <1>5, <1>12 DEF out2, ch2, x, OutputSent, ChunksSent

\* Proving a chunk changes nothing.
LEMMA EmittedProve ==
  ASSUME NEW S, NEW p \in Seq(Sent(S)), NEW out \in Seq(Sent(S)), NEW ch, out # <<>>
  PROVE  /\ Emitted(Append(p, Head(out)), Tail(out), ch) = Emitted(p, out, ch)
         /\ Append(p, Head(out)) \in Seq(Sent(S)) /\ Tail(out) \in Seq(Sent(S))
<1> DEFINE T == Sent(S)
           p2 == Append(p, Head(out))
           out2 == Tail(out)
<1>1. p \in Seq(T) /\ out \in Seq(T)
  OBVIOUS
<1> HIDE DEF T
<1>2. Head(out) \in T /\ Tail(out) \in Seq(T)
  BY <1>1
<1>3. p2 \in Seq(T) /\ out2 \in Seq(T)
  BY <1>1, <1>2
<1>4. p2 \o out2 = p \o out
  BY <1>1, <1>2
<1> HIDE DEF p2, out2
<1>5. Emitted(p2, out2, ch) = Emitted(p, out, ch)
  BY <1>4 DEF Emitted
<1> QED
  BY <1>3, <1>5 DEF p2, out2, T

\* Worker w, the only one that may send, has nothing to send and may cut recs.
MayCut(S, p, out, ch, w, recs, n) ==
    /\ OnlyFrom(S, p, out, ch, w) /\ ch[w] = <<>>
    /\ recs \in Seq(S) /\ n \in Nat \ {0}

\* Cutting the records of the trace turn into chunks puts them at the end.
LEMMA EmittedCut ==
  ASSUME NEW S, NEW p, NEW out, NEW ch, NEW w, NEW recs, NEW n,
         MayCut(S, p, out, ch, w, recs, n)
  PROVE  /\ OnlyFrom(S, p, out, ChunksCut(ch, w, recs, n), w)
         /\ Emitted(p, out, ChunksCut(ch, w, recs, n)) = Emitted(p, out, ch) \o recs
<1> DEFINE ch2 == [ch EXCEPT ![w] = Chunks(recs, n)]
<1>1. /\ OnlyFrom(S, p, out, ch, w) /\ ch[w] = <<>>
      /\ recs \in Seq(S) /\ n \in Nat \ {0}
  BY DEF MayCut
<1>2. Chunks(recs, n) \in Seq(Seq(S)) /\ FlattenSeq(Chunks(recs, n)) = recs
  BY <1>1, ChunksFlatten
<1>3. /\ ch2 \in [Workers -> Seq(Seq(S))] /\ ch2[w] = Chunks(recs, n)
      /\ \A v \in Workers : v # w => ch2[v] = <<>>
  BY <1>1, <1>2 DEF OnlyFrom
<1> HIDE DEF ch2
<1>4. OnlyFrom(S, p, out, ch2, w)
  BY <1>1, <1>3 DEF OnlyFrom
<1>5. Emitted(p, out, ch) = RecordsOf(p \o out) \o FlattenSeq(ch[w]) /\ RecordsOf(p \o out) \in Seq(S)
  <2>1. OnlyFrom(S, p, out, ch, w)
    BY <1>1
  <2> QED
    BY <2>1, EmittedOne
<1>6. Emitted(p, out, ch2) = RecordsOf(p \o out) \o FlattenSeq(ch2[w])
  BY <1>4, EmittedOne
<1>7. FlattenSeq(ch[w]) = <<>>
  <2>1. ch[w] \in Seq(Seq(S)) /\ ch[w] = <<>>
    BY <1>1 DEF OnlyFrom
  <2> QED
    BY <2>1, FlattenType
<1>8. Emitted(p, out, ch) = RecordsOf(p \o out)
  BY <1>5, <1>7
<1> QED
  BY <1>2, <1>3, <1>4, <1>6, <1>8 DEF ch2, ChunksCut

\* Shards is Emitted of the variables.
LEMMA ShardsEmitted ==
  /\ Shards = Emitted(proved, output, chunks)
  /\ Shards' = Emitted(proved', output', chunks')
BY DEF Shards, Emitted

\* More records may be sent.
LEMMA OnlyFromMore ==
  ASSUME NEW S, NEW T, S \subseteq T, NEW p, NEW out, NEW ch, NEW w, OnlyFrom(S, p, out, ch, w)
  PROVE  OnlyFrom(T, p, out, ch, w)
<1>1. Seq(S) \subseteq Seq(T)
  OBVIOUS
<1>2. Sent(S) \subseteq Sent(T)
  BY <1>1 DEF Sent
<1>3. \A s \in Seq(Sent(S)) : s \in Seq(Sent(T))
  <2> DEFINE A == Sent(S)
             B == Sent(T)
  <2>1. A \subseteq B
    BY <1>2
  <2> HIDE DEF A, B
  <2>2. \A s \in Seq(A) : s \in Seq(B)
    BY <2>1
  <2> QED
    BY <2>2 DEF A, B
<1>4. \A s \in Seq(Seq(S)) : s \in Seq(Seq(T))
  <2> DEFINE A == Seq(S)
             B == Seq(T)
  <2>1. A \subseteq B
    BY <1>1
  <2> HIDE DEF A, B
  <2>2. \A s \in Seq(A) : s \in Seq(B)
    BY <2>1
  <2> QED
    BY <2>2 DEF A, B
<1>5. /\ p \in Seq(Sent(S)) /\ out \in Seq(Sent(S)) /\ w \in Workers
      /\ \A v \in Workers : v # w => ch[v] = <<>>
  BY DEF OnlyFrom
<1>6. ch \in [Workers -> Seq(Seq(T))]
  <2>1. ch \in [Workers -> Seq(Seq(S))]
    BY DEF OnlyFrom
  <2> DEFINE A == Seq(Seq(S))
             B == Seq(Seq(T))
  <2>2. ch \in [Workers -> A] /\ \A s \in A : s \in B
    BY <1>4, <2>1
  <2> HIDE DEF A, B
  <2>3. ch \in [Workers -> B]
    BY <2>2
  <2> QED
    BY <2>3 DEF B
<1>7. p \in Seq(Sent(T)) /\ out \in Seq(Sent(T))
  BY <1>3, <1>5
<1> QED
  BY <1>5, <1>6, <1>7 DEF OnlyFrom

\* In its trace turn a worker finds no other one sending.
LEMMA NoSender ==
  ASSUME IInv, Control, NEW w \in Workers, Holding(w), index[w] = traceTurn
  PROVE  ~Failed /\ \A v \in Workers : v # w => ~Sending(v) /\ chunks[v] = <<>>
<1>1. ~Failed
  BY DEF Control, Blocked
<1>2. ASSUME NEW v \in Workers, v # w PROVE ~Sending(v)
  <2>1. pc[v] # "panic"
    BY <1>1 DEF Failed
  <2>2. SUFFICES ASSUME pc[v] = "send" PROVE FALSE
    BY <2>1 DEF Sending
  <2>3. Holding(v) /\ index[v] = traceTurn
    BY <2>2 DEF Holding, Ended, IInv, RecordTurns
  <2> QED
    BY <1>2, <2>3 DEF IInv, Tickets
<1> QED
  BY <1>1, <1>2 DEF Control, OneSender

\* A step that sends nothing.
LEMMA SentSame ==
  ASSUME SentLists, UNCHANGED <<output, proved, chunks>>
  PROVE  SentLists' /\ Shards' = Shards
BY ShardsEmitted DEF SentLists

\* The prover takes a chunk.
LEMMA SentProve ==
  ASSUME SentLists, ProveChunk
  PROVE  SentLists' /\ Shards' = Shards
<1>1. PICK S : /\ output \in Seq(Sent(S)) /\ proved \in Seq(Sent(S))
               /\ chunks \in [Workers -> Seq(Seq(S))]
  BY DEF SentLists
<1>2. output # <<>> /\ proved' = Append(proved, Head(output)) /\ output' = Tail(output)
      /\ chunks' = chunks
  BY DEF ProveChunk, locals
<1>3. /\ Emitted(proved', output', chunks) = Emitted(proved, output, chunks)
      /\ proved' \in Seq(Sent(S)) /\ output' \in Seq(Sent(S))
  <2>1. /\ Emitted(Append(proved, Head(output)), Tail(output), chunks)
                = Emitted(proved, output, chunks)
        /\ Append(proved, Head(output)) \in Seq(Sent(S)) /\ Tail(output) \in Seq(Sent(S))
    <3>1. output # <<>>
      BY <1>2
    <3> QED
      BY <1>1, <3>1, EmittedProve
  <2> QED
    BY <1>2, <2>1
<1>4. SentLists'
  BY <1>1, <1>2, <1>3 DEF SentLists
<1> QED
  BY <1>2, <1>3, <1>4, ShardsEmitted

\* A worker sends a chunk.
LEMMA SentSend ==
  ASSUME IInv, Control, SentLists, NEW w \in Workers, SendChunk(w)
  PROVE  SentLists' /\ Shards' = Shards
<1>1. PICK S : /\ output \in Seq(Sent(S)) /\ proved \in Seq(Sent(S))
               /\ chunks \in [Workers -> Seq(Seq(S))]
  BY DEF SentLists
<1>2. /\ pc[w] = "send" /\ chunks[w] # <<>> /\ proved' = proved
      /\ output' = Append(output, [batch |-> index[w], records |-> Head(chunks[w])])
      /\ chunks' = [chunks EXCEPT ![w] = Tail(@)]
  BY DEF SendChunk
<1>3. \A v \in Workers : v # w => chunks[v] = <<>>
  BY <1>2 DEF Control, OneSender, Sending
<1>4. OnlyFrom(S, proved, output, chunks, w)
  BY <1>1, <1>3 DEF OnlyFrom
<1>5. index[w] \in Nat
  BY PipelineAssumption DEF IInv, TypeOK, NumBatches
<1>6. OnlyFrom(S, proved, output', chunks', w)
      /\ Emitted(proved, output', chunks') = Emitted(proved, output, chunks)
  <2> DEFINE out2 == OutputSent(output, chunks, w, index[w])
             ch2 == ChunksSent(chunks, w)
  <2>1. OnlyFrom(S, proved, out2, ch2, w)
        /\ Emitted(proved, out2, ch2) = Emitted(proved, output, chunks)
    <3>1. chunks[w] # <<>>
      BY <1>2
    <3> QED
      BY <1>4, <1>5, <3>1, EmittedSend
  <2>2. output' = out2 /\ chunks' = ch2
    BY <1>2 DEF OutputSent, ChunksSent
  <2> HIDE DEF out2, ch2
  <2> QED
    BY <2>1, <2>2
<1>7. SentLists'
  BY <1>2, <1>6 DEF OnlyFrom, SentLists
<1> QED
  BY <1>2, <1>6, <1>7, ShardsEmitted

\* A worker cuts its records into chunks.
LEMMA SentCut ==
  ASSUME IInv, Control, SentLists, NEW w \in Workers, WaitForTraceTurn(w), IsSeq(records[w])
  PROVE  SentLists' /\ Shards' = Shards \o records[w]
<1>1. PICK S : /\ output \in Seq(Sent(S)) /\ proved \in Seq(Sent(S))
               /\ chunks \in [Workers -> Seq(Seq(S))]
  BY DEF SentLists
<1>2. /\ pc[w] = "waitTrace" /\ index[w] = traceTurn /\ proved' = proved /\ output' = output
      /\ chunks' = [chunks EXCEPT ![w] = Chunks(records[w], ShardBatchSize)]
  BY DEF WaitForTraceTurn, proving
<1>3. Holding(w)
  BY <1>2 DEF Holding, Ended
<1>4. \A v \in Workers : v # w => chunks[v] = <<>>
  BY <1>2, <1>3, NoSender
<1>5. chunks[w] = <<>>
  BY <1>2 DEF Control, OneSender, Sending
<1>6. OnlyFrom(S, proved, output, chunks, w)
  BY <1>1, <1>4 DEF OnlyFrom
<1>7. PICK T : T = S \cup Range(records[w])
  OBVIOUS
<1>8. OnlyFrom(T, proved, output, chunks, w)
  BY <1>7, <1>6, OnlyFromMore
<1>9. records[w] \in Seq(T)
  BY <1>7 DEF IsSeq
<1>10. ShardBatchSize \in Nat \ {0}
  BY PipelineAssumption
<1>11. /\ OnlyFrom(T, proved, output, chunks', w)
       /\ Emitted(proved, output, chunks') = Emitted(proved, output, chunks) \o records[w]
  <2> DEFINE ch2 == ChunksCut(chunks, w, records[w], ShardBatchSize)
  <2>1. /\ OnlyFrom(T, proved, output, ch2, w)
        /\ Emitted(proved, output, ch2) = Emitted(proved, output, chunks) \o records[w]
    <3>1. MayCut(T, proved, output, chunks, w, records[w], ShardBatchSize)
      BY <1>5, <1>8, <1>9, <1>10 DEF MayCut
    <3> QED
      BY <3>1, EmittedCut, SMTT(60)
  <2>2. chunks' = ch2
    BY <1>2 DEF ChunksCut
  <2> HIDE DEF ch2
  <2> QED
    BY <2>1, <2>2
<1>12. SentLists'
  BY <1>2, <1>11 DEF OnlyFrom, SentLists
<1> QED
  BY <1>2, <1>11, <1>12, ShardsEmitted

-----------------------------------------------------------------------------
(* The data follows the loop. *)

\* Fresh is inductive.
LEMMA FreshNext ==
  ASSUME IInv, Fresh, [Next]_vars
  PROVE  Fresh'
<1>1. pc \in [Workers -> PCs] /\ index \in [Workers -> 0 .. NumBatches - 1]
  BY DEF IInv, TypeOK
<1>2. CASE UNCHANGED <<pc, index, records, clone>>
  BY <1>2 DEF Fresh
<1>3. ASSUME NEW w \in Workers, WorkerStep(w) \/ WorkerFails(w)
      PROVE  Fresh'
  <2>1. CASE Receive(w)
    <3>1. /\ index' = [index EXCEPT ![w] = Head(checkpoints)]
          /\ records' = [records EXCEPT ![w] = Batches[Head(checkpoints) + 1]]
          /\ pc' = [pc EXCEPT ![w] = "waitRecord"] /\ clone' = clone
      BY <2>1 DEF Receive, Goto
    <3>2. DOMAIN records' = Workers /\ DOMAIN clone' = Workers
      BY <3>1 DEF Fresh
    <3>3. ASSUME NEW v \in Workers, pc'[v] \in {"waitRecord", "number"}
          PROVE  records'[v] = Batches[index'[v] + 1]
      <4>1. CASE v = w
        BY <1>1, <3>1, <4>1 DEF Fresh
      <4>2. CASE v # w
        <5>1. pc'[v] = pc[v] /\ index'[v] = index[v] /\ records'[v] = records[v]
          BY <1>1, <3>1, <4>2 DEF Fresh
        <5> QED
          BY <3>3, <5>1 DEF Fresh
      <4> QED
        BY <4>1, <4>2
    <3> QED
      BY <3>2, <3>3 DEF Fresh
  <2>2. CASE WaitForRecordTurn(w)
    <3>1. /\ pc[w] = "waitRecord" /\ pc' = [pc EXCEPT ![w] = "number"]
          /\ index' = index /\ records' = records /\ clone' = clone
      BY <2>2 DEF WaitForRecordTurn, Goto
    <3>2. \A v \in Workers : pc'[v] \in {"waitRecord", "number"} => pc[v] \in {"waitRecord", "number"}
      BY <1>1, <3>1
    <3> QED
      BY <3>1, <3>2 DEF Fresh
  <2>3. ASSUME ~Receive(w), ~WaitForRecordTurn(w)
        PROVE  /\ index' = index
               /\ \E x : pc' = [pc EXCEPT ![w] = x] /\ x \notin {"waitRecord", "number"}
               /\ \/ records' = records
                  \/ \E r : records' = [records EXCEPT ![w] = r]
               /\ \/ clone' = clone
                  \/ \E r : clone' = [clone EXCEPT ![w] = r]
    <3> USE DEF Goto, locals
    <3>1. CASE ReceiveDisconnected(w) \/ NumberPanics(w) \/ SkipCombined(w)
               \/ GenerateDependencies(w) \/ FixShapesPlain(w) \/ FixShapesPanics(w)
               \/ GenerateTraces(w) \/ SendPanics(w) \/ AdvanceTraceTurn(w) \/ DropGuards(w)
               \/ WorkerFails(w)
      BY <3>1 DEF ReceiveDisconnected, NumberPanics, SkipCombined, GenerateDependencies,
                  FixShapesPlain, FixShapesPanics, GenerateTraces, SendPanics,
                  AdvanceTraceTurn, DropGuards, WorkerFails
    <3>2. CASE NumberRecords(w)
      <4>1. pc' = [pc EXCEPT ![w] = "defer"] /\ index' = index /\ clone' = clone
        BY <3>2 DEF NumberRecords
      <4>2. \E r : records' = [records EXCEPT ![w] = r]
        BY <3>2, Zenon DEF NumberRecords
      <4>3. "defer" \notin {"waitRecord", "number"}
        OBVIOUS
      <4> HIDE DEF Goto
      <4> QED
        BY <4>1, <4>2, <4>3
    <3>3. CASE DeferEvents(w)
      <4>1. pc' = [pc EXCEPT ![w] = "split"] /\ index' = index /\ clone' = clone
        BY <3>3 DEF DeferEvents
      <4>2. \E r : records' = [records EXCEPT ![w] = r]
        BY <3>3, Zenon DEF DeferEvents
      <4>3. "split" \notin {"waitRecord", "number"}
        OBVIOUS
      <4> HIDE DEF Goto
      <4> QED
        BY <4>1, <4>2, <4>3
    <3>4. CASE SplitCombined(w)
      <4>1. pc' = [pc EXCEPT ![w] = "dependencies1"] /\ index' = index /\ records' = records
        BY <3>4 DEF SplitCombined
      <4>2. \E r : clone' = [clone EXCEPT ![w] = r]
        BY <3>4, Zenon DEF SplitCombined
      <4>3. "dependencies1" \notin {"waitRecord", "number"}
        OBVIOUS
      <4> HIDE DEF Goto
      <4> QED
        BY <4>1, <4>2, <4>3
    <3>5. CASE SplitPlain(w)
      <4>1. pc' = [pc EXCEPT ![w] = "dependencies2"] /\ index' = index /\ clone' = clone
        BY <3>5 DEF SplitPlain
      <4>2. \E r : records' = [records EXCEPT ![w] = r]
        BY <3>5, Zenon DEF SplitPlain
      <4>3. "dependencies2" \notin {"waitRecord", "number"}
        OBVIOUS
      <4> HIDE DEF Goto
      <4> QED
        BY <4>1, <4>2, <4>3
    <3>6. CASE FixShapesCombined(w)
      BY <3>6 DEF FixShapesCombined
    <3>7. CASE WaitForTraceTurn(w)
      <4>1. pc' = [pc EXCEPT ![w] = "send"] /\ index' = index /\ clone' = clone
        BY <3>7 DEF WaitForTraceTurn
      <4>2. \E r : records' = [records EXCEPT ![w] = r]
        BY <3>7, Zenon DEF WaitForTraceTurn
      <4>3. "send" \notin {"waitRecord", "number"}
        OBVIOUS
      <4> HIDE DEF Goto
      <4> QED
        BY <4>1, <4>2, <4>3
    <3>8. CASE SendChunk(w)
      <4>1. pc[w] = "send" /\ pc' = [pc EXCEPT ![w] = "send"]
        BY <1>1, <3>8 DEF SendChunk
      <4> QED
        BY <3>8, <4>1 DEF SendChunk
    <3> QED
      BY <1>3, <2>3, <3>1, <3>2, <3>3, <3>4, <3>5, <3>6, <3>7, <3>8 DEF WorkerStep
  <2>4. CASE ~Receive(w) /\ ~WaitForRecordTurn(w)
    <3>1. PICK x : pc' = [pc EXCEPT ![w] = x] /\ x \notin {"waitRecord", "number"}
      BY <2>3, <2>4
    <3>2. \A v \in Workers : /\ pc'[v] \in {"waitRecord", "number"} => v # w /\ pc'[v] = pc[v]
                             /\ v # w => records'[v] = records[v]
      BY <1>1, <2>3, <2>4, <3>1 DEF Fresh
    <3>3. DOMAIN records' = Workers /\ DOMAIN clone' = Workers
      BY <2>3, <2>4 DEF Fresh
    <3> QED
      BY <2>3, <2>4, <3>2, <3>3 DEF Fresh
  <2> QED
    BY <2>1, <2>2, <2>4
<1>4. CASE \/ GenerateCheckpoint \/ GeneratorFails \/ ProverStep \/ ProverPanics
           \/ Return \/ Returned \/ UNCHANGED vars
  <2>1. UNCHANGED <<pc, index, records, clone>>
    BY <1>4 DEF GenerateCheckpoint, GeneratorFails, ProverStep, ProveChunk, ProverEnds,
                ProverPanics, Return, Returned, vars, locals
  <2> QED
    BY <1>2, <2>1
<1> QED
  BY <1>3, <1>4 DEF Next

\* A step that touches no worker with the guards and none of what they protect.
LEMMA AsLoopSame ==
  ASSUME AsLoop, Shards' = Shards, UNCHANGED <<state, deferred, traceTurn>>, Failed => Failed',
         \A v \in Workers : pc[v] \in Working \/ pc'[v] \in Working =>
             pc'[v] = pc[v] /\ records'[v] = records[v] /\ clone'[v] = clone[v]
  PROVE  AsLoop'
<1>1. SUFFICES ASSUME ~Failed'
               PROVE  /\ (\A w \in Workers : pc'[w] \notin Working) => Between'
                      /\ \A w \in Workers :
                            /\ pc'[w] = "defer" => AfterNumbering(w)'
                            /\ pc'[w] \in {"split", "splitPlain"} => AfterDeferring(w)'
                            /\ pc'[w] \in {"dependencies1", "shape1"} => Complete(clone[w])'
                            /\ pc'[w] \in {"dependencies2", "shape2", "traces", "waitTrace"} =>
                                   Complete(records[w])'
                            /\ pc'[w] = "send" => WhileSending'
  BY DEF AsLoop
<1>2. ~Failed
  BY <1>1
<1>3. (\A w \in Workers : pc'[w] \notin Working) => Between'
  BY <1>2 DEF AsLoop, Between
<1>4. ASSUME NEW w \in Workers, pc'[w] \in Working
      PROVE  /\ pc'[w] = pc[w] /\ (AfterNumbering(w) => AfterNumbering(w)')
             /\ AfterDeferring(w) => AfterDeferring(w)'
             /\ Complete(clone[w]) => Complete(clone[w])'
             /\ Complete(records[w]) => Complete(records[w])'
             /\ WhileSending => WhileSending'
  <2>1. pc'[w] = pc[w] /\ records'[w] = records[w] /\ clone'[w] = clone[w]
    BY <1>4
  <2>2. AfterNumbering(w) => AfterNumbering(w)'
    BY <2>1 DEF AfterNumbering
  <2>3. AfterDeferring(w) => AfterDeferring(w)'
    BY <2>1 DEF AfterDeferring
  <2>4. Complete(clone[w]) => Complete(clone[w])'
    BY <2>1 DEF Complete
  <2>5. Complete(records[w]) => Complete(records[w])'
    BY <2>1 DEF Complete
  <2>6. WhileSending => WhileSending'
    BY <2>1 DEF WhileSending
  <2> QED
    BY <2>1, <2>2, <2>3, <2>4, <2>5, <2>6
<1> QED
  BY <1>2, <1>3, <1>4 DEF AsLoop, Working, Critical

\* The worker with the guards takes a step.
LEMMA AsLoopStage ==
  ASSUME pc \in [Workers -> PCs], NEW w \in Workers,
         \A v \in Workers : v # w => pc[v] \notin Critical,
         NEW x \in Working, pc' = [pc EXCEPT ![w] = x],
         x = "defer" => AfterNumbering(w)',
         x \in {"split", "splitPlain"} => AfterDeferring(w)',
         x \in {"dependencies1", "shape1"} => Complete(clone[w])',
         x \in {"dependencies2", "shape2", "traces", "waitTrace"} => Complete(records[w])',
         x = "send" => WhileSending'
  PROVE  AsLoop'
<1>1. pc'[w] = x /\ \A v \in Workers : v # w => pc'[v] \notin Critical
  OBVIOUS
<1>2. \A v \in Workers : v # w => pc'[v] \notin
         {"defer", "split", "splitPlain", "dependencies1", "shape1", "dependencies2", "shape2",
          "traces", "waitTrace", "send"}
  BY <1>1 DEF Critical
<1>3. ~(\A v \in Workers : pc'[v] \notin Working)
  BY <1>1
<1>4. \A v \in Workers :
         /\ pc'[v] = "defer" => AfterNumbering(v)'
         /\ pc'[v] \in {"split", "splitPlain"} => AfterDeferring(v)'
         /\ pc'[v] \in {"dependencies1", "shape1"} => Complete(clone[v])'
         /\ pc'[v] \in {"dependencies2", "shape2", "traces", "waitTrace"} => Complete(records[v])'
         /\ pc'[v] = "send" => WhileSending'
  <2> TAKE v \in Workers
  <2>1. CASE v = w
    BY <1>1, <2>1
  <2>2. CASE v # w
    BY <1>2, <2>2
  <2> QED
    BY <2>1, <2>2
<1> QED
  BY <1>3, <1>4 DEF AsLoop

\* The two ways to split the deferred events of batch n ...
SplitArguments(o, n, cpu, l) ==
    \/ cpu = CpuShards(o, n) /\ l = <<>>
    \/ MayPack(o, n) /\ cpu = Front(CpuShards(o, n)) /\ l = <<Last(CpuShards(o, n))>>

\* ... and what an iteration of the loop then ends with.
SplitEnds(o, n, cpu, l, order) ==
    LET sp == Split(AllDeferred(o, n), Done(n), l, order)
        numbered == NumberDeferredRecords(Numbered(o, n).state, Done(n), sp.shards)
        o2 == WithSplit(o, n, cpu, l, order)
        added == Added(o, n, cpu, l, order)
    IN /\ o2 \in BatchOutcomes(o, n) /\ o2.shards = o.shards \o added /\ IsSeq(added)
       /\ o2.state = numbered.state /\ o2.deferred = sp.deferred
       /\ added = cpu \o sp.lastRecord \o numbered.records
       /\ l = <<>> => added = cpu \o numbered.records

\* Both are outcomes of the batch.
LEMMA SplitOutcome ==
  ASSUME NEW n \in 0 .. NumBatches - 1, NEW o \in Outcomes[n], NEW order \in IterationOrders,
         NEW cpu, NEW l, SplitArguments(o, n, cpu, l)
  PROVE  SplitEnds(o, n, cpu, l, order)
<1> DEFINE sp == Split(AllDeferred(o, n), Done(n), l, order)
           numbered == NumberDeferredRecords(Numbered(o, n).state, Done(n), sp.shards)
           o2 == WithSplit(o, n, cpu, l, order)
           added == Added(o, n, cpu, l, order)
<1>1. Sound(o)
  BY OutcomesSound
<1>2. IsSeq(CpuShards(o, n)) /\ IsSeq(Front(CpuShards(o, n)))
  BY <1>1, CpuType, FrontIsSeq DEF Sound
<1>3. IsSeq(cpu) /\ (l = <<>> \/ l = <<l[1]>>)
  <2>1. \A x : <<x>> = <<(<<x>>)[1]>>
    OBVIOUS
  <2> QED
    BY <1>2, <2>1 DEF SplitArguments
<1>4. o2 \in BatchOutcomes(o, n)
  BY Zenon DEF BatchOutcomes, SplitArguments
<1>5. /\ IsSeq(added) /\ o2.shards = o.shards \o added
      /\ l = <<>> => added = cpu \o NumberDeferredRecords(Numbered(o, n).state, Done(n),
                                     Split(AllDeferred(o, n), Done(n), <<>>, order).shards).records
  BY <1>1, <1>3, WithSplitType, ZenonT(60)
<1>6. l = <<>> => added = cpu \o numbered.records
  BY <1>5, Zenon
<1>7. o2.state = numbered.state /\ o2.deferred = sp.deferred
  BY DEF WithSplit
<1>8. added = cpu \o sp.lastRecord \o numbered.records
  BY Zenon DEF Added
<1> QED
  BY <1>4, <1>5, <1>6, <1>7, <1>8, ZenonT(60) DEF SplitEnds

\* Only one worker has the guards.
LEMMA Alone ==
  ASSUME IInv, NEW w \in Workers, pc[w] \in Critical \/ stateLock = NoWorker
  PROVE  \A v \in Workers : v # w => pc[v] \notin Critical
BY PipelineAssumption DEF IInv, Guards

\* Every step of a worker keeps the data as in the loop, unless it falls back.
LEMMA WorkerData ==
  ASSUME IInv, LInv, NeverFallsBack, NEW w \in Workers, WorkerStep(w) \/ WorkerFails(w)
  PROVE  SentLists' /\ AsLoop'
<1>1. /\ pc \in [Workers -> PCs] /\ SentLists /\ AsLoop /\ Fresh /\ Control
      /\ traceTurn \in 0 .. NumBatches /\ NumBatches \in Nat
      /\ \A v \in Workers : index[v] \in 0 .. NumBatches - 1
  BY PipelineAssumption DEF IInv, TypeOK, LInv, NumBatches
<1>2. DOMAIN records = Workers /\ DOMAIN clone = Workers
  BY <1>1 DEF Fresh
<1> DEFINE n == traceTurn
<1>3. CASE Receive(w) \/ ReceiveDisconnected(w) \/ WaitForRecordTurn(w) \/ DropGuards(w)
  <2>1. /\ UNCHANGED <<output, proved, chunks, state, deferred, traceTurn, clone>>
        /\ pc[w] \notin Working
        /\ \E x : pc' = [pc EXCEPT ![w] = x] /\ x \notin Working /\ x \notin {"err", "panic"}
        /\ records' = records \/ records' = [records EXCEPT ![w] = Batches[Head(checkpoints) + 1]]
    BY <1>3 DEF Receive, ReceiveDisconnected, WaitForRecordTurn, DropGuards, Goto, Working,
                Critical, turns, shared, proving
  <2>2. SentLists' /\ Shards' = Shards
    BY <1>1, <2>1, SentSame
  <2>3. PICK x : pc' = [pc EXCEPT ![w] = x] /\ x \notin Working
    BY <2>1
  <2>4. \A v \in Workers : pc[v] \in Working \/ pc'[v] \in Working => v # w
    BY <1>1, <2>1, <2>3
  <2>5. \A v \in Workers : v # w => pc'[v] = pc[v] /\ records'[v] = records[v]
    BY <1>1, <1>2, <2>1, <2>3
  <2>6. Failed => Failed'
    <3>1. pc[w] \notin {"err", "panic"}
      BY <1>3 DEF Receive, ReceiveDisconnected, WaitForRecordTurn, DropGuards
    <3> QED
      BY <2>5, <3>1 DEF Failed
  <2>7. AsLoop'
    BY <1>1, <2>1, <2>2, <2>4, <2>5, <2>6, AsLoopSame
  <2> QED
    BY <2>2, <2>7
<1>4. CASE NumberPanics(w) \/ FixShapesPanics(w) \/ SendPanics(w) \/ WorkerFails(w)
  <2>1. /\ UNCHANGED <<output, proved, chunks>>
        /\ pc' = [pc EXCEPT ![w] = "err"] \/ pc' = [pc EXCEPT ![w] = "panic"]
    BY <1>4 DEF NumberPanics, FixShapesPanics, SendPanics, WorkerFails, Goto, proving
  <2>2. SentLists'
    BY <1>1, <2>1, SentSame
  <2>3. Failed'
    BY <1>1, <2>1 DEF Failed
  <2> QED
    BY <2>2, <2>3 DEF AsLoop
<1>5. ASSUME pc[w] \in Working PROVE Failed \/ index[w] = n
  BY <1>5 DEF IInv, Lockstep
<1>6. CASE NumberRecords(w)
  <2>1. /\ pc[w] = "number" /\ stateLock = NoWorker
        /\ state' = NumberCpuRecords(state, records[w]).state
        /\ records' = [records EXCEPT ![w] = NumberCpuRecords(state, records[w]).records]
        /\ pc' = [pc EXCEPT ![w] = "defer"]
        /\ UNCHANGED <<deferred, traceTurn, output, proved, chunks>>
    BY <1>6 DEF NumberRecords, Goto, turns, proving
  <2>2. SentLists' /\ Shards' = Shards
    BY <1>1, <2>1, SentSame
  <2>3. SUFFICES ASSUME ~Failed' PROVE AsLoop'
    BY <2>2 DEF AsLoop
  <2>4. ~Failed
    <3>1. \A v \in Workers : pc'[v] = IF v = w THEN "defer" ELSE pc[v]
      BY <1>1, <2>1
    <3> QED
      BY <2>1, <2>3, <3>1 DEF Failed
  <2>5. \A v \in Workers : v # w => pc[v] \notin Critical
    BY <2>1, Alone
  <2>6. \A v \in Workers : pc[v] \notin Working
    BY <2>1, <2>5 DEF Working, Critical
  <2>7. Between
    BY <1>1, <2>4, <2>6 DEF AsLoop
  <2>8. index[w] = n /\ records[w] = Batches[n + 1]
    <3>1. recordTurn = index[w] /\ records[w] = Batches[index[w] + 1]
      BY <1>1, <2>1 DEF IInv, RecordTurns, BeforePass, Fresh
    <3>2. \/ recordTurn = traceTurn
          \/ traceTurn = NumBatches /\ recordTurn >= NumBatches
      BY <2>4, <2>6 DEF IInv, Lockstep
    <3>3. index[w] = n
      BY <1>1, <3>1, <3>2
    <3> QED
      BY <3>1, <3>3
  <2>9. PICK o \in Outcomes[n] : state = o.state /\ deferred = o.deferred /\ Shards = o.shards
    BY <2>7 DEF Between
  <2>10. NumberCpuRecords(state, records[w]) = Numbered(o, n)
    BY <2>8, <2>9 DEF Numbered
  <2>11. records'[w] = Numbered(o, n).records /\ state' = Numbered(o, n).state
    BY <1>2, <2>1, <2>10
  <2>12. AfterNumbering(w)'
    BY <2>1, <2>2, <2>9, <2>11 DEF AfterNumbering
  <2>13. "defer" \in Working
    BY DEF Working, Critical
  <2> QED
    BY <1>1, <2>1, <2>5, <2>12, <2>13, AsLoopStage
<1>7. CASE DeferEvents(w)
  <2>1. /\ pc[w] = "defer" /\ deferred' = DeferAll(deferred, records[w])
        /\ records' = [records EXCEPT ![w] = [i \in DOMAIN @ |-> AfterDefer(@[i])]]
        /\ pc' = [pc EXCEPT ![w] = "split"]
        /\ UNCHANGED <<state, traceTurn, output, proved, chunks>>
    BY <1>7 DEF DeferEvents, Goto, turns, proving
  <2>2. SentLists' /\ Shards' = Shards
    BY <1>1, <2>1, SentSame
  <2>3. SUFFICES ASSUME ~Failed' PROVE AsLoop'
    BY <2>2 DEF AsLoop
  <2>4. ~Failed
    <3>1. \A v \in Workers : pc'[v] = IF v = w THEN "split" ELSE pc[v]
      BY <1>1, <2>1
    <3> QED
      BY <2>1, <2>3, <3>1 DEF Failed
  <2>5. \A v \in Workers : v # w => pc[v] \notin Critical
    BY <2>1, Alone DEF Critical
  <2>6. PICK o \in Outcomes[n] : /\ Shards = o.shards /\ deferred = o.deferred
                                 /\ state = Numbered(o, n).state
                                 /\ records[w] = Numbered(o, n).records
    BY <1>1, <2>1, <2>4 DEF AsLoop, AfterNumbering
  <2>7. records'[w] = [i \in DOMAIN records[w] |-> AfterDefer(records[w][i])]
    BY <1>2, <2>1
  <2>8. records'[w] = CpuShards(o, n)
    BY <2>6, <2>7 DEF CpuShards
  <2>9. deferred' = AllDeferred(o, n)
    BY <2>1, <2>6 DEF AllDeferred
  <2>10. AfterDeferring(w)'
    BY <2>1, <2>2, <2>6, <2>8, <2>9 DEF AfterDeferring
  <2>11. "split" \in Working
    BY DEF Working, Critical
  <2> QED
    BY <1>1, <2>1, <2>5, <2>10, <2>11, AsLoopStage
<1>8. CASE SkipCombined(w)
  <2>1. /\ pc[w] = "split" /\ pc' = [pc EXCEPT ![w] = "splitPlain"]
        /\ UNCHANGED <<state, deferred, records, traceTurn, output, proved, chunks>>
    BY <1>8 DEF SkipCombined, Goto, turns, proving, shared
  <2>2. SentLists' /\ Shards' = Shards
    BY <1>1, <2>1, SentSame
  <2>3. SUFFICES ASSUME ~Failed' PROVE AsLoop'
    BY <2>2 DEF AsLoop
  <2>4. ~Failed
    <3>1. \A v \in Workers : pc'[v] = IF v = w THEN "splitPlain" ELSE pc[v]
      BY <1>1, <2>1
    <3> QED
      BY <2>1, <2>3, <3>1 DEF Failed
  <2>5. \A v \in Workers : v # w => pc[v] \notin Critical
    BY <2>1, Alone DEF Critical
  <2>6. AfterDeferring(w)
    BY <1>1, <2>1, <2>4 DEF AsLoop
  <2>7. AfterDeferring(w)'
    BY <2>1, <2>2, <2>6 DEF AfterDeferring
  <2>8. "splitPlain" \in Working
    BY DEF Working, Critical
  <2> QED
    BY <1>1, <2>1, <2>5, <2>7, <2>8, AsLoopStage
<1>9. CASE SplitCombined(w) \/ SplitPlain(w)
  <2>1. /\ pc[w] \in {"split", "splitPlain"}
        /\ UNCHANGED <<traceTurn, output, proved, chunks>>
        /\ \/ SplitCombined(w) /\ pc' = [pc EXCEPT ![w] = "dependencies1"]
           \/ SplitPlain(w) /\ pc' = [pc EXCEPT ![w] = "dependencies2"]
    <3>1. CASE SplitCombined(w)
      BY <3>1 DEF SplitCombined, Goto, turns, proving
    <3>2. CASE SplitPlain(w)
      BY <3>2 DEF SplitPlain, Goto, turns, proving
    <3> QED
      BY <1>9, <3>1, <3>2
  <2>2. SentLists' /\ Shards' = Shards
    BY <1>1, <2>1, SentSame
  <2>3. SUFFICES ASSUME ~Failed' PROVE AsLoop'
    BY <2>2 DEF AsLoop
  <2>4. ~Failed
    <3>1. \A v \in Workers : v # w => pc'[v] = pc[v]
      BY <1>1, <2>1
    <3> QED
      BY <2>1, <2>3, <3>1 DEF Failed
  <2>5. \A v \in Workers : v # w => pc[v] \notin Critical
    BY <2>1, Alone DEF Critical
  <2>6. index[w] = n /\ n \in 0 .. NumBatches - 1
    <3>1. pc[w] \in Working
      BY <2>1 DEF Working, Critical
    <3> QED
      BY <1>1, <1>5, <2>4, <3>1
  <2>7. PICK o \in Outcomes[n] : /\ Shards = o.shards /\ deferred = AllDeferred(o, n)
                                 /\ state = Numbered(o, n).state
                                 /\ records[w] = CpuShards(o, n)
    BY <1>1, <2>1, <2>4 DEF AsLoop, AfterDeferring
  <2>8. CASE SplitCombined(w) /\ pc' = [pc EXCEPT ![w] = "dependencies1"]
    <3>1. Done(n) /\ MayPack(o, n)
      BY <2>6, <2>7, <2>8 DEF SplitCombined, Combine, MayPack
    <3> DEFINE cpu == Front(CpuShards(o, n))
               l == <<Last(CpuShards(o, n))>>
               Sp(order) == Split(AllDeferred(o, n), Done(n), l, order)
               Num(order) == NumberDeferredRecords(Numbered(o, n).state, Done(n), Sp(order).shards)
    <3>2. PICK order \in IterationOrders :
             /\ deferred' = Sp(order).deferred /\ state' = Num(order).state
             /\ clone' = [clone EXCEPT ![w] = cpu \o Sp(order).lastRecord \o Num(order).records]
      <4>1. PICK order \in IterationOrders :
               LET sp == Split(deferred, TRUE, <<Last(records[w])>>, order)
                   numbered == NumberDeferredRecords(state, Done(index[w]), sp.shards)
               IN /\ deferred' = sp.deferred
                  /\ state' = numbered.state
                  /\ clone' = [clone EXCEPT ![w] =
                                  Front(records[w]) \o sp.lastRecord \o numbered.records]
        BY <2>8, Zenon DEF SplitCombined
      <4>2. Split(deferred, TRUE, <<Last(records[w])>>, order) = Sp(order)
        <5>1. Done(n) = TRUE
          BY <3>1 DEF Done
        <5> QED
          BY <2>7, <5>1
      <4>3. NumberDeferredRecords(state, Done(index[w]), Sp(order).shards) = Num(order)
        BY <2>6, <2>7
      <4>4. Front(records[w]) = cpu
        BY <2>7
      <4> HIDE DEF Sp, Num, cpu
      <4> QED
        BY <4>1, <4>2, <4>3, <4>4
    <3>3. clone'[w] = cpu \o Sp(order).lastRecord \o Num(order).records
      BY <1>2, <3>2
    <3> DEFINE o2 == WithSplit(o, n, cpu, l, order)
               added == Added(o, n, cpu, l, order)
    <3>4. /\ o2 \in BatchOutcomes(o, n) /\ o2.shards = o.shards \o added /\ IsSeq(added)
          /\ o2.state = Num(order).state /\ o2.deferred = Sp(order).deferred
          /\ added = cpu \o Sp(order).lastRecord \o Num(order).records
      <4>1. SplitArguments(o, n, cpu, l)
        BY <3>1 DEF SplitArguments
      <4>2. n \in 0 .. NumBatches - 1 /\ o \in Outcomes[n] /\ order \in IterationOrders
        BY <2>6
      <4> HIDE DEF n
      <4> HIDE DEF cpu, l
      <4>3. SplitEnds(o, n, cpu, l, order)
        BY <4>1, <4>2, SplitOutcome, ZenonT(30)
      <4> QED
        BY <4>3, ZenonT(30) DEF SplitEnds
    <3> HIDE DEF o2, added, Sp, Num, cpu
    <3>5. Complete(clone[w])'
      BY <2>1, <2>2, <2>7, <3>2, <3>3, <3>4 DEF Complete
    <3>6. "dependencies1" \in Working
      BY DEF Working, Critical
    <3> QED
      BY <1>1, <2>5, <2>8, <3>5, <3>6, AsLoopStage
  <2>9. CASE SplitPlain(w) /\ pc' = [pc EXCEPT ![w] = "dependencies2"]
    <3> DEFINE cpu == CpuShards(o, n)
               Sp(order) == Split(AllDeferred(o, n), Done(n), <<>>, order)
               Num(order) == NumberDeferredRecords(Numbered(o, n).state, Done(n), Sp(order).shards)
    <3>2. PICK order \in IterationOrders :
             /\ deferred' = Sp(order).deferred /\ state' = Num(order).state
             /\ records' = [records EXCEPT ![w] = cpu \o Num(order).records]
      <4>1. PICK order \in IterationOrders :
               LET sp == Split(deferred, Done(index[w]), <<>>, order)
                   numbered == NumberDeferredRecords(state, Done(index[w]), sp.shards)
               IN /\ deferred' = sp.deferred
                  /\ state' = numbered.state
                  /\ records' = [records EXCEPT ![w] = records[w] \o numbered.records]
        BY <2>9, Zenon DEF SplitPlain
      <4>2. Split(deferred, Done(index[w]), <<>>, order) = Sp(order)
        BY <2>6, <2>7
      <4>3. NumberDeferredRecords(state, Done(index[w]), Sp(order).shards) = Num(order)
        BY <2>6, <2>7
      <4>4. records[w] = cpu
        BY <2>7
      <4> HIDE DEF Sp, Num, cpu
      <4> QED
        BY <4>1, <4>2, <4>3, <4>4
    <3>3. records'[w] = cpu \o Num(order).records
      BY <1>2, <3>2
    <3> DEFINE o2 == WithSplit(o, n, cpu, <<>>, order)
               added == Added(o, n, cpu, <<>>, order)
    <3>4. /\ o2 \in BatchOutcomes(o, n) /\ o2.shards = o.shards \o added /\ IsSeq(added)
          /\ o2.state = Num(order).state /\ o2.deferred = Sp(order).deferred
          /\ added = cpu \o Num(order).records
      <4>1. SplitArguments(o, n, cpu, <<>>)
        BY DEF SplitArguments
      <4>2. n \in 0 .. NumBatches - 1 /\ o \in Outcomes[n] /\ order \in IterationOrders
        BY <2>6
      <4> HIDE DEF n
      <4> HIDE DEF cpu
      <4>3. SplitEnds(o, n, cpu, <<>>, order)
        BY <4>1, <4>2, SplitOutcome, ZenonT(30)
      <4> QED
        BY <4>3, ZenonT(30) DEF SplitEnds
    <3> HIDE DEF o2, added, Sp, Num, cpu
    <3>5. Complete(records[w])'
      BY <2>1, <2>2, <2>7, <3>2, <3>3, <3>4 DEF Complete
    <3>6. "dependencies2" \in Working
      BY DEF Working, Critical
    <3> QED
      BY <1>1, <2>5, <2>9, <3>5, <3>6, AsLoopStage
  <2> QED
    BY <2>1, <2>8, <2>9
<1>10. CASE GenerateDependencies(w) \/ FixShapesPlain(w) \/ GenerateTraces(w)
           \/ FixShapesCombined(w)
  <2>1. /\ UNCHANGED <<state, deferred, traceTurn, output, proved, chunks>>
        /\ pc[w] \in {"dependencies1", "dependencies2", "shape1", "shape2", "traces"}
        /\ \/ /\ pc[w] = "dependencies1" /\ pc' = [pc EXCEPT ![w] = "shape1"] /\ clone' = clone
           \/ /\ pc[w] \in {"dependencies2", "shape2", "traces"} /\ records' = records
              /\ \E x \in {"shape2", "traces", "waitTrace"} : pc' = [pc EXCEPT ![w] = x]
           \/ /\ pc[w] = "shape1" /\ pc' = [pc EXCEPT ![w] = "traces"]
              /\ records' = [records EXCEPT ![w] = clone[w]]
    <3>1. CASE GenerateDependencies(w)
      BY <3>1 DEF GenerateDependencies, Goto, shared, proving
    <3>2. CASE FixShapesPlain(w)
      BY <3>2 DEF FixShapesPlain, Goto, turns, shared, proving
    <3>3. CASE GenerateTraces(w)
      BY <3>3 DEF GenerateTraces, Goto, turns, shared, proving
    <3>4. CASE FixShapesCombined(w)
      BY <3>4 DEF FixShapesCombined, NeverFallsBack, Goto, turns, shared, proving
    <3> QED
      BY <1>10, <3>1, <3>2, <3>3, <3>4
  <2>2. SentLists' /\ Shards' = Shards
    BY <1>1, <2>1, SentSame
  <2>3. SUFFICES ASSUME ~Failed' PROVE AsLoop'
    BY <2>2 DEF AsLoop
  <2>4. ~Failed
    <3>1. \A v \in Workers : v # w => pc'[v] = pc[v]
      BY <1>1, <2>1
    <3> QED
      BY <2>1, <2>3, <3>1 DEF Failed
  <2>5. \A v \in Workers : v # w => pc[v] \notin Critical
    BY <2>1, Alone DEF Critical
  <2>6. {"shape1", "shape2", "traces", "waitTrace"} \subseteq Working
    BY DEF Working, Critical
  <2>7. CASE pc[w] = "dependencies1" /\ pc' = [pc EXCEPT ![w] = "shape1"] /\ clone' = clone
    <3>1. Complete(clone[w])
      BY <1>1, <2>4, <2>7 DEF AsLoop
    <3>2. Complete(clone[w])'
      BY <2>1, <2>2, <2>7, <3>1 DEF Complete
    <3> QED
      BY <1>1, <2>5, <2>6, <2>7, <3>2, AsLoopStage
  <2>8. CASE /\ pc[w] \in {"dependencies2", "shape2", "traces"} /\ records' = records
             /\ \E x \in {"shape2", "traces", "waitTrace"} : pc' = [pc EXCEPT ![w] = x]
    <3>1. Complete(records[w])
      BY <1>1, <2>4, <2>8 DEF AsLoop
    <3>2. Complete(records[w])'
      BY <2>1, <2>2, <2>8, <3>1 DEF Complete
    <3>3. PICK x \in {"shape2", "traces", "waitTrace"} : pc' = [pc EXCEPT ![w] = x]
      BY <2>8
    <3>4. x \in Working /\ x \notin {"defer", "split", "splitPlain", "dependencies1", "shape1", "send"}
      BY <2>6, <3>3
    <3> QED
      BY <1>1, <2>5, <3>2, <3>3, <3>4, AsLoopStage
  <2>9. CASE /\ pc[w] = "shape1" /\ pc' = [pc EXCEPT ![w] = "traces"]
             /\ records' = [records EXCEPT ![w] = clone[w]]
    <3>1. Complete(clone[w])
      BY <1>1, <2>4, <2>9 DEF AsLoop
    <3>2. records'[w] = clone[w]
      BY <1>2, <2>9
    <3>3. Complete(records[w])'
      BY <2>1, <2>2, <3>1, <3>2 DEF Complete
    <3> QED
      BY <1>1, <2>5, <2>6, <2>9, <3>3, AsLoopStage
  <2> QED
    BY <2>1, <2>7, <2>8, <2>9
<1>11. CASE WaitForTraceTurn(w)
  <2>1. /\ pc[w] = "waitTrace" /\ index[w] = n /\ pc' = [pc EXCEPT ![w] = "send"]
        /\ UNCHANGED <<state, deferred, traceTurn>>
    BY <1>11 DEF WaitForTraceTurn, Goto, turns, shared
  <2>2. Holding(w)
    BY <2>1 DEF Holding, Ended
  <2>3. ~Failed
    BY <1>1, <2>1, <2>2, NoSender
  <2>4. Complete(records[w])
    BY <1>1, <2>1, <2>3 DEF AsLoop
  <2>5. SentLists' /\ Shards' = Shards \o records[w]
    BY <1>1, <1>11, <2>4, SentCut DEF Complete
  <2>12. PICK o \in Outcomes[n] : \E o2 \in BatchOutcomes(o, n) :
           /\ Shards = o.shards /\ o2.shards = o.shards \o records[w]
           /\ state = o2.state /\ deferred = o2.deferred
    BY <2>4 DEF Complete
  <2>6. PICK o2 \in BatchOutcomes(o, n) :
           /\ Shards = o.shards /\ o2.shards = o.shards \o records[w]
           /\ state = o2.state /\ deferred = o2.deferred
    BY <2>12
  <2>7. o2 \in Outcomes[n + 1]
    <3>1. n \in 0 .. NumBatches - 1
      BY <1>1, <2>1
    <3> QED
      BY <2>6, <3>1, OutcomesSound
  <2>8. WhileSending'
    BY <2>1, <2>5, <2>6, <2>7 DEF WhileSending
  <2>9. \A v \in Workers : v # w => pc[v] \notin Critical
    BY <2>1, Alone DEF Critical
  <2>10. "send" \in Working
    BY DEF Working, Critical
  <2>11. AsLoop'
    BY <1>1, <2>1, <2>8, <2>9, <2>10, AsLoopStage
  <2> QED
    BY <2>5, <2>11
<1>12. CASE SendChunk(w)
  <2>1. /\ UNCHANGED <<pc, records, clone, state, deferred, traceTurn>>
    BY <1>12 DEF SendChunk, turns, shared
  <2>2. SentLists' /\ Shards' = Shards
    BY <1>1, <1>12, SentSend
  <2>3. Failed => Failed'
    BY <2>1 DEF Failed
  <2>4. AsLoop'
    BY <1>1, <2>1, <2>2, <2>3, AsLoopSame
  <2> QED
    BY <2>2, <2>4
<1>13. CASE AdvanceTraceTurn(w)
  <2>1. /\ pc[w] = "send" /\ traceTurn' = traceTurn + 1 /\ pc' = [pc EXCEPT ![w] = "dropGuards"]
        /\ UNCHANGED <<state, deferred, output, proved, chunks>>
    BY <1>13 DEF AdvanceTraceTurn, Goto, shared, proving
  <2>2. SentLists' /\ Shards' = Shards
    BY <1>1, <2>1, SentSame
  <2>3. index[w] = n /\ Holding(w)
    BY <2>1 DEF IInv, RecordTurns, Holding, Ended
  <2>4. ~Failed
    BY <1>1, <2>3, NoSender
  <2>5. WhileSending
    BY <1>1, <2>1, <2>4 DEF AsLoop
  <2>6. Between'
    BY <2>1, <2>2, <2>5 DEF WhileSending, Between
  <2>7. \A v \in Workers : v # w => pc[v] \notin Critical
    BY <2>1, Alone DEF Critical
  <2>8. \A v \in Workers : pc'[v] \notin Working
    BY <1>1, <2>1, <2>7 DEF Working
  <2>9. AsLoop'
    BY <2>6, <2>8 DEF AsLoop, Working, Critical
  <2> QED
    BY <2>2, <2>9
<1> QED
  BY <1>3, <1>4, <1>6, <1>7, <1>8, <1>9, <1>10, <1>11, <1>12, <1>13 DEF WorkerStep

\* The pipeline starts where the loop does.
LEMMA InitLInv == Init => LInv
<1> SUFFICES ASSUME Init PROVE LInv
  OBVIOUS
<1>1. /\ \A w \in Workers : pc[w] = "recv" /\ chunks[w] = <<>>
      /\ genPc = "run" /\ genIndex = 0 /\ checkpoints = <<>> /\ traceTurn = 0
      /\ output = <<>> /\ proved = <<>> /\ poisoned = FALSE /\ result = "running"
      /\ state = PublicValuesDefault /\ deferred = NewRecord
  BY DEF Init
<1>2. ~Failed
  BY <1>1 DEF Failed
<1>3. Control
  <2>0. Len(checkpoints) = 0
    BY <1>1, EmptySeq
  <2>1. Received = 0
    <3>1. genIndex = 0
      BY <1>1
    <3> QED
      BY <2>0, <3>1 DEF Received
  <2>2. ~poisoned
    BY <1>1
  <2>3. Blocked /\ Taken
    BY <1>2, <2>1 DEF Blocked, Taken
  <2>4. Endings
    BY <1>1, <2>2 DEF Endings
  <2>5. OneSender
    BY <1>1 DEF OneSender, Sending
  <2> QED
    BY <2>3, <2>4, <2>5 DEF Control
<1>4. SentLists
  <2>1. chunks \in [Workers -> Seq(Seq({}))]
    BY DEF Init
  <2>2. output \in Seq(Sent({})) /\ proved \in Seq(Sent({}))
    BY <1>1
  <2> QED
    BY <2>1, <2>2 DEF SentLists
<1>5. Fresh
  BY <1>1 DEF Fresh, Init
<1>6. Shards = <<>>
  <2>1. proved \o output = <<>>
    BY <1>1
  <2>2. RecordsOf(proved \o output) = <<>>
    <3>1. [i \in DOMAIN (proved \o output) |-> (proved \o output)[i].records] = <<>>
      BY <2>1
    <3>2. <<>> \in Seq(Seq({}))
      OBVIOUS
    <3>3. FlattenSeq(<<>>) = <<>>
      BY <3>2, FlattenType
    <3> QED
      BY <3>1, <3>3 DEF RecordsOf
  <2>3. {w \in Workers : chunks[w] # <<>>} = {}
    BY <1>1
  <2> QED
    BY <2>2, <2>3 DEF Shards
<1>7. Between
  BY <1>1, <1>6, OutcomesSound DEF Between, FirstOutcome
<1>8. AsLoop
  BY <1>1, <1>7 DEF AsLoop
<1> QED
  BY <1>3, <1>4, <1>5, <1>8 DEF LInv

\* The other threads leave the data alone; the prover only moves chunks.
LEMMA OthersData ==
  ASSUME LInv,
         \/ GenerateCheckpoint \/ GeneratorFails \/ ProverStep \/ ProverPanics
         \/ Return \/ Returned \/ UNCHANGED vars
  PROVE  SentLists' /\ AsLoop' /\ Shards' = Shards
<1>1. SentLists /\ AsLoop
  BY DEF LInv
<1>2. UNCHANGED <<pc, index, records, clone, chunks, state, deferred, traceTurn>>
  BY DEF GenerateCheckpoint, GeneratorFails, ProverStep, ProveChunk, ProverEnds, ProverPanics,
         Return, Returned, vars, locals, turns, shared
<1>3. SentLists' /\ Shards' = Shards
  <2>1. CASE ProveChunk
    BY <1>1, <2>1, SentProve
  <2>2. CASE ~ProveChunk
    <3>1. UNCHANGED <<output, proved>>
      BY <2>2 DEF GenerateCheckpoint, GeneratorFails, ProverStep, ProverEnds, ProverPanics,
             Return, Returned, vars, proving
    <3> QED
      BY <1>1, <1>2, <3>1, SentSame
  <2> QED
    BY <2>1, <2>2
<1>4. Failed => Failed'
  BY <1>2 DEF Failed
<1>5. AsLoop'
  BY <1>1, <1>2, <1>3, <1>4, AsLoopSame
<1> QED
  BY <1>3, <1>5

\* Every step preserves the invariant of the refinement, unless a worker falls back.
LEMMA NextLInv ==
  ASSUME IInv, LInv, NeverFallsBack, [Next]_vars
  PROVE  LInv'
<1>1. Fresh'
  BY FreshNext DEF LInv
<1>2. Control
  BY DEF LInv
<1>3. CASE \E w \in Workers : WorkerStep(w) \/ WorkerFails(w)
  <2>1. PICK w \in Workers : WorkerStep(w) \/ WorkerFails(w)
    BY <1>3
  <2>2. Control'
    BY <1>2, <2>1, WorkerControl
  <2>3. SentLists' /\ AsLoop'
    BY <2>1, WorkerData
  <2> QED
    BY <1>1, <2>2, <2>3 DEF LInv
<1>4. CASE \/ GenerateCheckpoint \/ GeneratorFails \/ ProverStep \/ ProverPanics
           \/ Return \/ Returned \/ UNCHANGED vars
  <2>1. Control'
    BY <1>2, <1>4, OthersControl
  <2>2. SentLists' /\ AsLoop'
    BY <1>4, OthersData
  <2> QED
    BY <1>1, <2>1, <2>2 DEF LInv
<1> QED
  BY <1>3, <1>4 DEF Next

\* How many batches count as delivered.
Senders(sending, turn) ==
    /\ (\A w \in Workers : w \notin sending) => turn + Cardinality(sending) = turn
    /\ \A w \in Workers : w \in sending => turn + Cardinality(sending) = turn + 1

\* At most one worker is sending.
LEMMA OneIsSending ==
  ASSUME NEW sending \in SUBSET Workers, NEW turn \in Nat,
         \A v, w \in sending : v = w
  PROVE  Senders(sending, turn)
<1>1. CASE sending = {}
  <2>1. Cardinality(sending) = 0
    BY <1>1, FS_EmptySet
  <2> QED
    BY <1>1, <2>1 DEF Senders
<1>2. CASE sending # {}
  <2>1. PICK v \in sending : sending = {v}
    BY <1>2
  <2>2. Cardinality(sending) = 1
    BY <2>1, FS_Singleton
  <2> QED
    BY <2>1, <2>2 DEF Senders
<1> QED
  BY <1>1, <1>2

\* The batches before the trace turn are delivered, and the one that is being sent.
LEMMA DeliveredTurn ==
  ASSUME TypeOK, OneSender
  PROVE  /\ (\A w \in Workers : ~Sending(w)) => Delivered = traceTurn
         /\ \A w \in Workers : Sending(w) => Delivered = traceTurn + 1
<1> DEFINE sending == {w \in Workers : Sending(w)}
<1>1. sending \in SUBSET Workers /\ \A v, w \in sending : v = w
  BY DEF OneSender
<1>2. traceTurn \in Nat
  BY PipelineAssumption DEF TypeOK, NumBatches
<1>3. \A w \in Workers : Sending(w) <=> w \in sending
  OBVIOUS
<1>4. Delivered = traceTurn + Cardinality(sending)
  BY DEF Delivered
<1> HIDE DEF sending
<1>5. Senders(sending, traceTurn)
  BY <1>1, <1>2, OneIsSending
<1> QED
  BY <1>3, <1>4, <1>5 DEF Senders

\* The same after a step.
LEMMA DeliveredTurnNext ==
  ASSUME TypeOK', OneSender'
  PROVE  /\ (\A w \in Workers : ~Sending(w)') => Delivered' = traceTurn'
         /\ \A w \in Workers : Sending(w)' => Delivered' = traceTurn' + 1
<1> DEFINE sending == {w \in Workers : Sending(w)'}
<1>1. sending \in SUBSET Workers /\ \A v, w \in sending : v = w
  BY DEF OneSender
<1>2. traceTurn' \in Nat
  BY PipelineAssumption DEF TypeOK, NumBatches
<1>3. \A w \in Workers : Sending(w)' <=> w \in sending
  OBVIOUS
<1>4. Delivered' = traceTurn' + Cardinality(sending)
  BY DEF Delivered
<1> HIDE DEF sending
<1>5. Senders(sending, traceTurn')
  BY <1>1, <1>2, OneIsSending
<1> QED
  BY <1>3, <1>4, <1>5 DEF Senders

-----------------------------------------------------------------------------
(* Every step of the threads is a step of the loop or none. *)

\* A batch is delivered in its trace turn.
LEMMA DeliversBatch ==
  ASSUME IInv, LInv, IInv', LInv', NEW w \in Workers, WaitForTraceTurn(w)
  PROVE  Sequential!DeliverBatch
<1> DEFINE n == traceTurn
<1>1. TypeOK /\ TypeOK' /\ OneSender /\ OneSender' /\ Control /\ SentLists /\ AsLoop /\ Endings
  BY DEF IInv, LInv, Control
<1>2. /\ pc[w] = "waitTrace" /\ index[w] = n /\ pc' = [pc EXCEPT ![w] = "send"]
      /\ traceTurn' = n /\ result' = result
  BY DEF WaitForTraceTurn, Goto, turns
<1>3. pc \in [Workers -> PCs] /\ n \in Nat /\ n \in 0 .. NumBatches - 1 /\ NumBatches \in Nat
  <2>1. pc \in [Workers -> PCs] /\ n \in 0 .. NumBatches /\ index[w] \in 0 .. NumBatches - 1
    BY <1>1 DEF TypeOK
  <2>2. NumBatches \in Nat
    BY ControlAssumption DEF NumBatches
  <2> QED
    BY <1>2, <2>1, <2>2
<1>4. Holding(w)
  BY <1>2 DEF Holding, Ended
<1>5. ~Failed /\ \A v \in Workers : v # w => ~Sending(v)
  BY <1>1, <1>2, <1>4, NoSender
<1>6. ~Sending(w) /\ Sending(w)'
  BY <1>2, <1>3 DEF Sending
<1>7. Delivered = n
  BY <1>1, <1>5, <1>6, DeliveredTurn
<1>8. Delivered' = n + 1
  BY <1>1, <1>2, <1>6, DeliveredTurnNext
<1>9. result = "running"
  BY <1>1, <1>2 DEF Endings, Ended
<1>10. Complete(records[w])
  BY <1>1, <1>2, <1>5 DEF AsLoop
<1>11. PICK o \in Outcomes[n] : \E o2 \in BatchOutcomes(o, n) :
          Shards = o.shards /\ o2.shards = o.shards \o records[w]
  BY <1>10 DEF Complete
<1>12. PICK o2 \in BatchOutcomes(o, n) :
          Shards = o.shards /\ o2.shards = o.shards \o records[w]
  BY <1>11
<1>13. Shards' = o2.shards
  <2>1. IsSeq(records[w])
    BY <1>10 DEF Complete
  <2> QED
    BY <1>1, <1>12, <2>1, SentCut
<1>14. Sound(o) /\ o2 \in Outcomes[n + 1]
  BY <1>3, <1>11, <1>12, OutcomesSound
<1>15. IsPrefix(o.shards, o2.shards)
  BY <1>3, <1>12, <1>14, BatchType
<1>16. \E x \in Outcomes[n + 1] : IsPrefix(Shards, x.shards) /\ Shards' = x.shards
  BY <1>12, <1>13, <1>14, <1>15
<1>17. Delivered < NumBatches
  BY <1>3, <1>7
<1>18. Delivered' = Delivered + 1
  BY <1>7, <1>8
<1>19. \E x \in Outcomes[Delivered + 1] : IsPrefix(Shards, x.shards) /\ Shards' = x.shards
  BY <1>7, <1>16
<1> QED
  BY <1>2, <1>9, <1>17, <1>18, <1>19
     DEF Sequential!DeliverBatch, Sequential!IsPrefix, IsPrefix

\* Who sends, and what has been sent, stays the same.
LEMMA StuttersSame ==
  ASSUME UNCHANGED <<traceTurn, result>>, Shards' = Shards,
         \A v \in Workers : Sending(v)' <=> Sending(v)
  PROVE  UNCHANGED Sequential!svars
<1>1. {v \in Workers : Sending(v)'} = {v \in Workers : Sending(v)}
  OBVIOUS
<1>2. Delivered' = Delivered
  BY <1>1 DEF Delivered
<1> QED
  BY <1>2 DEF Sequential!svars

\* The worker that has sent everything passes the turn on.
LEMMA StuttersAdvance ==
  ASSUME IInv, LInv, IInv', LInv', NEW w \in Workers, AdvanceTraceTurn(w)
  PROVE  UNCHANGED Sequential!svars
<1>1. TypeOK /\ TypeOK' /\ OneSender /\ OneSender' /\ SentLists
  BY DEF IInv, LInv, Control
<1>2. /\ pc[w] = "send" /\ pc' = [pc EXCEPT ![w] = "dropGuards"] /\ traceTurn' = traceTurn + 1
      /\ UNCHANGED <<output, proved, chunks, result>>
  BY DEF AdvanceTraceTurn, Goto, proving
<1>3. pc \in [Workers -> PCs]
  BY <1>1 DEF TypeOK
<1>4. Sending(w) /\ ~Sending(w)'
  BY <1>2, <1>3 DEF Sending
<1>5. \A v \in Workers : v # w => ~Sending(v) /\ ~Sending(v)'
  <2>1. \A v \in Workers : v # w => ~Sending(v)
    BY <1>1, <1>4 DEF OneSender
  <2> QED
    BY <1>2, <1>3, <2>1 DEF Sending
<1>6. Delivered = traceTurn + 1
  BY <1>1, <1>4, DeliveredTurn
<1>7. Delivered' = traceTurn'
  BY <1>1, <1>4, <1>5, DeliveredTurnNext
<1>8. Shards' = Shards
  BY <1>1, <1>2, SentSame
<1> QED
  BY <1>2, <1>6, <1>7, <1>8 DEF Sequential!svars

\* The steps of a worker that neither send nor pass the trace turn on.
LEMMA OtherSteps ==
  ASSUME NEW w \in Workers, WorkerStep(w) \/ WorkerFails(w), ~WaitForTraceTurn(w),
         ~AdvanceTraceTurn(w), ~SendChunk(w), ~SendPanics(w)
  PROVE  /\ UNCHANGED <<traceTurn, result, output, proved, chunks>>
         /\ pc[w] \notin {"send", "panic"}
         /\ \E x : x # "send" /\ pc' = [pc EXCEPT ![w] = x]
<1> USE DEF Goto, turns, proving
<1>1. CASE Receive(w)
  BY <1>1 DEF Receive
<1>2. CASE ReceiveDisconnected(w)
  BY <1>2 DEF ReceiveDisconnected
<1>3. CASE WaitForRecordTurn(w)
  BY <1>3 DEF WaitForRecordTurn
<1>4. CASE NumberRecords(w)
  BY <1>4 DEF NumberRecords
<1>5. CASE NumberPanics(w)
  BY <1>5 DEF NumberPanics
<1>6. CASE DeferEvents(w)
  BY <1>6 DEF DeferEvents
<1>7. CASE SplitCombined(w)
  BY <1>7 DEF SplitCombined
<1>8. CASE SkipCombined(w)
  BY <1>8 DEF SkipCombined
<1>9. CASE SplitPlain(w)
  BY <1>9 DEF SplitPlain
<1>10. CASE GenerateDependencies(w)
  BY <1>10 DEF GenerateDependencies
<1>11. CASE FixShapesCombined(w)
  BY <1>11 DEF FixShapesCombined
<1>12. CASE FixShapesPlain(w)
  BY <1>12 DEF FixShapesPlain
<1>13. CASE FixShapesPanics(w)
  BY <1>13 DEF FixShapesPanics
<1>14. CASE GenerateTraces(w)
  BY <1>14 DEF GenerateTraces
<1>15. CASE DropGuards(w)
  BY <1>15 DEF DropGuards
<1>16. CASE WorkerFails(w)
  BY <1>16 DEF WorkerFails
<1> QED
  BY <1>1, <1>2, <1>3, <1>4, <1>5, <1>6, <1>7, <1>8, <1>9, <1>10, <1>11, <1>12, <1>13, <1>14, <1>15, <1>16 DEF WorkerStep

\* Every other step of a worker changes nothing the loop sees.
LEMMA StuttersWorker ==
  ASSUME IInv, LInv, NEW w \in Workers, WorkerStep(w) \/ WorkerFails(w),
         ~WaitForTraceTurn(w), ~AdvanceTraceTurn(w)
  PROVE  UNCHANGED Sequential!svars
<1>1. TypeOK /\ OneSender /\ SentLists /\ Control
  BY DEF IInv, LInv, Control
<1>2. pc \in [Workers -> PCs]
  BY <1>1 DEF TypeOK
<1>3. CASE SendChunk(w)
  <2>1. /\ UNCHANGED <<traceTurn, result, pc>> /\ pc[w] = "send"
        /\ chunks' = [chunks EXCEPT ![w] = Tail(@)]
    BY <1>3 DEF SendChunk, turns
  <2>2. Shards' = Shards
    BY <1>1, <1>3, SentSend
  <2>3. \A v \in Workers : v # w => chunks'[v] = chunks[v]
    BY <1>1, <2>1 DEF SentLists
  <2>4. \A v \in Workers : Sending(v)' <=> Sending(v)
    BY <2>1, <2>3 DEF Sending
  <2> QED
    BY <2>1, <2>2, <2>4, StuttersSame
<1>4. CASE SendPanics(w)
  <2>1. /\ UNCHANGED <<traceTurn, result, output, proved, chunks>>
        /\ pc[w] = "send" /\ chunks[w] # <<>> /\ pc' = [pc EXCEPT ![w] = "panic"]
    BY <1>4 DEF SendPanics, Goto, turns, proving
  <2>2. \A v \in Workers : Sending(v)' <=> Sending(v)
    BY <1>2, <2>1 DEF Sending
  <2>3. Shards' = Shards
    BY <1>1, <2>1, SentSame
  <2> QED
    BY <2>1, <2>2, <2>3, StuttersSame
<1>5. CASE ~SendChunk(w) /\ ~SendPanics(w)
  <2>1. /\ UNCHANGED <<traceTurn, result, output, proved, chunks>>
        /\ pc[w] \notin {"send", "panic"}
        /\ \E x : x # "send" /\ pc' = [pc EXCEPT ![w] = x]
    BY <1>5, OtherSteps
  <2>2. PICK x : x # "send" /\ pc' = [pc EXCEPT ![w] = x]
    BY <2>1
  <2>3. chunks[w] = <<>>
    BY <1>1, <2>1 DEF OneSender, Sending
  <2>4. \A v \in Workers : Sending(v)' <=> Sending(v)
    BY <1>2, <2>1, <2>2, <2>3 DEF Sending
  <2>5. Shards' = Shards
    BY <1>1, <2>1, SentSame
  <2> QED
    BY <2>1, <2>4, <2>5, StuttersSame
<1> QED
  BY <1>3, <1>4, <1>5

\* When every thread has ended and none has failed, every batch is delivered.
LEMMA AllDelivered ==
  ASSUME IInv, Control, \A w \in Workers : pc[w] \in Ended, ~Failed, genPc = "ok"
  PROVE  traceTurn = NumBatches /\ Delivered = NumBatches /\ \A w \in Workers : chunks[w] = <<>>
<1>1. /\ TypeOK /\ Endings /\ Taken /\ OneSender /\ Workers # {}
      /\ traceTurn \in 0 .. NumBatches /\ NumBatches \in Nat \ {0} /\ genIndex = NumBatches
  BY PipelineAssumption DEF IInv, TypeOK, Control, Endings, NumBatches
<1>2. \A w \in Workers : pc[w] = "ok" /\ ~Holding(w) /\ ~Sending(w)
  BY DEF Failed, Ended, Holding, Sending
<1>3. checkpoints = <<>>
  BY <1>1, <1>2 DEF Endings
<1>4. Len(checkpoints) = 0
  BY <1>3, EmptySeq
<1>5. Received = NumBatches
  BY <1>1, <1>4 DEF Received
<1>6. NumBatches - 1 \in 0 .. Received - 1
  BY <1>1, <1>5
<1>7. NumBatches - 1 < traceTurn
  BY <1>1, <1>2, <1>6 DEF Taken
<1>8. traceTurn = NumBatches
  BY <1>1, <1>7
<1> QED
  BY <1>1, <1>2, <1>8, DeliveredTurn DEF OneSender

\* The call returns once, with the outcome of the loop.
LEMMA ReturnsAsLoop ==
  ASSUME IInv, LInv, Return
  PROVE  Sequential!Succeed \/ Sequential!Fail
<1>1. TypeOK /\ Control /\ SentLists
  BY DEF IInv, LInv
<1>2. /\ result = "running" /\ genPc # "run" /\ \A w \in Workers : pc[w] \in Ended
      /\ result' = Outcome /\ UNCHANGED <<pc, chunks, traceTurn, output, proved>>
  BY DEF Return, locals, turns, proving
<1>3. Shards' = Shards
  BY <1>1, <1>2, SentSame
<1>4. {v \in Workers : Sending(v)'} = {v \in Workers : Sending(v)}
  BY <1>2 DEF Sending
<1>5. Delivered' = Delivered
  BY <1>2, <1>4 DEF Delivered
<1>6. CASE Outcome = "ok"
  <2>1. ~Failed /\ genPc # "err"
    BY <1>6 DEF Outcome, Failed
  <2>2. genPc = "ok"
    BY <1>1, <1>2, <2>1 DEF TypeOK
  <2>3. Delivered = NumBatches
    BY <1>1, <1>2, <2>1, <2>2, AllDelivered
  <2> QED
    BY <1>2, <1>3, <1>5, <1>6, <2>3 DEF Sequential!Succeed
<1>7. CASE Outcome # "ok"
  <2>1. Outcome \in {"err", "panic"}
    BY <1>7 DEF Outcome
  <2> QED
    BY <1>2, <1>3, <1>5, <2>1 DEF Sequential!Fail
<1> QED
  BY <1>6, <1>7

\* The other threads change nothing the loop sees.
LEMMA StuttersOthers ==
  ASSUME LInv, \/ GenerateCheckpoint \/ GeneratorFails \/ ProverStep \/ ProverPanics
               \/ Returned \/ UNCHANGED vars
  PROVE  UNCHANGED Sequential!svars
<1>1. UNCHANGED <<pc, chunks, traceTurn, result>>
  BY DEF GenerateCheckpoint, GeneratorFails, ProverStep, ProveChunk, ProverEnds, ProverPanics,
         Returned, vars, locals, turns
<1>2. Shards' = Shards
  BY OthersData
<1>3. \A v \in Workers : Sending(v)' <=> Sending(v)
  BY <1>1 DEF Sending
<1> QED
  BY <1>1, <1>2, <1>3, StuttersSame

\* A step of the threads is a step of the loop or leaves what it sees unchanged.
LEMMA StepSimulation ==
  ASSUME IInv, LInv, IInv', LInv', [Next]_vars
  PROVE  [Sequential!SNext]_(Sequential!svars)
<1>1. CASE \E w \in Workers : WorkerStep(w) \/ WorkerFails(w)
  <2>1. PICK w \in Workers : WorkerStep(w) \/ WorkerFails(w)
    BY <1>1
  <2>2. CASE WaitForTraceTurn(w)
    BY <2>2, DeliversBatch DEF Sequential!SNext
  <2>3. CASE AdvanceTraceTurn(w)
    BY <2>3, StuttersAdvance
  <2>4. CASE ~WaitForTraceTurn(w) /\ ~AdvanceTraceTurn(w)
    BY <2>1, <2>4, StuttersWorker
  <2> QED
    BY <2>2, <2>3, <2>4
<1>2. CASE Return
  BY <1>2, ReturnsAsLoop DEF Sequential!SNext
<1>3. CASE \/ GenerateCheckpoint \/ GeneratorFails \/ ProverStep \/ ProverPanics
           \/ Returned \/ UNCHANGED vars
  BY <1>3, StuttersOthers
<1> QED
  BY <1>1, <1>2, <1>3 DEF Next

\* Init of the threads is that of the loop.
LEMMA InitSimulation == Init => Sequential!SInit
<1> SUFFICES ASSUME Init PROVE Sequential!SInit
  OBVIOUS
<1>1. IInv /\ LInv
  BY InitIInv, InitLInv
<1>2. \A w \in Workers : pc[w] = "recv"
  BY DEF Init
<1>3. traceTurn = 0 /\ result = "running"
  BY DEF Init
<1>4. TypeOK /\ OneSender /\ AsLoop
  BY <1>1 DEF IInv, LInv, Control
<1>5. Delivered = 0
  <2>1. \A w \in Workers : ~Sending(w)
    BY <1>2 DEF Sending
  <2> QED
    BY <1>3, <1>4, <2>1, DeliveredTurn
<1>6. Shards = <<>>
  <2>1. ~Failed /\ \A w \in Workers : pc[w] \notin Working
    BY <1>2 DEF Failed, Working, Critical
  <2>2. Between
    BY <1>4, <2>1 DEF AsLoop
  <2> QED
    BY <1>3, <2>2, OutcomesSound DEF Between, FirstOutcome
<1> QED
  BY <1>3, <1>5, <1>6 DEF Sequential!SInit

-----------------------------------------------------------------------------
(* The results. *)

\* As long as no worker falls back, the invariants hold.
LEMMA RefinementInvariance == Spec /\ []NeverFallsBack => [](IInv /\ LInv)
<1>1. IInv /\ LInv /\ NeverFallsBack /\ [Next]_vars => IInv' /\ LInv'
  BY NextLInv, WorkerIInv, OthersIInv DEF Next
<1>2. QED
  BY InitIInv, InitLInv, <1>1, PTL DEF Spec

\* The threads of prove_with_context together do what one loop over the batches would do,
\* for any number of workers and batches, any channel capacities, any interleaving and any
\* failures: whole batches are delivered, in order, each with the shards the loop makes of
\* it, and a call that succeeds has delivered all of them.  The hypothesis excludes only
\* the fallback from a combined attempt, which splits what is already split.
THEOREM RefinesLoop == Spec /\ []NeverFallsBack => ImplementsSequential
<1>1. IInv /\ LInv /\ (IInv /\ LInv)' /\ [Next]_vars => [Sequential!SNext]_(Sequential!svars)
  BY StepSimulation
<1>2. QED
  BY InitSimulation, <1>1, RefinementInvariance, PTL DEF Spec, ImplementsSequential, Sequential!SSpec

\* A program of at least 2^21 cycles never takes the combined attempt, so it never falls
\* back from one.
LEMMA LargeNeverFallsBack ==
  ASSUME ~SmallProgram
  PROVE  Spec => []NeverFallsBack
<1> DEFINE NoAttempt == \A w \in Workers : pc[w] \notin {"dependencies1", "shape1"}
<1>1. Init => NoAttempt
  BY DEF Init
<1>2. IInv /\ NoAttempt /\ [Next]_vars => NoAttempt'
  <2> SUFFICES ASSUME IInv, NoAttempt, [Next]_vars PROVE NoAttempt'
    OBVIOUS
  <2>1. pc \in [Workers -> PCs]
    BY DEF IInv, TypeOK
  <2>2. CASE pc' = pc
    BY <2>2
  <2>3. ASSUME NEW w \in Workers, WorkerStep(w) \/ WorkerFails(w) PROVE NoAttempt'
    <3> USE DEF Goto
    <3>1. CASE SplitCombined(w)
      BY <3>1 DEF SplitCombined, Combine
    <3>2. CASE GenerateDependencies(w)
      <4>1. pc[w] = "dependencies2" /\ pc' = [pc EXCEPT ![w] = "shape2"]
        BY <3>2 DEF GenerateDependencies
      <4> QED
        BY <2>1, <4>1
    <3>3. CASE WaitForTraceTurn(w) \/ SendChunk(w) \/ SendPanics(w) \/ AdvanceTraceTurn(w)
      <4>1. pc' = pc \/ \E x \in {"send", "panic", "dropGuards"} : pc' = [pc EXCEPT ![w] = x]
        BY <3>3 DEF WaitForTraceTurn, SendChunk, SendPanics, AdvanceTraceTurn
      <4> QED
        BY <2>1, <4>1
    <3>4. CASE Receive(w) \/ ReceiveDisconnected(w) \/ WaitForRecordTurn(w) \/ NumberRecords(w)
               \/ NumberPanics(w) \/ DeferEvents(w)
      <4>1. \E x \in {"waitRecord", "ok", "number", "defer", "panic", "split"} :
               pc' = [pc EXCEPT ![w] = x]
        BY <3>4 DEF Receive, ReceiveDisconnected, WaitForRecordTurn, NumberRecords, NumberPanics,
                    DeferEvents
      <4> QED
        BY <2>1, <4>1
    <3>5. CASE SkipCombined(w) \/ SplitPlain(w) \/ FixShapesCombined(w) \/ FixShapesPlain(w)
               \/ FixShapesPanics(w) \/ GenerateTraces(w) \/ DropGuards(w) \/ WorkerFails(w)
      <4>1. \E x \in {"splitPlain", "dependencies2", "traces", "panic", "waitTrace", "recv",
                      "err"} : pc' = [pc EXCEPT ![w] = x]
        BY <3>5 DEF SkipCombined, SplitPlain, FixShapesCombined, FixShapesPlain, FixShapesPanics,
                    GenerateTraces, DropGuards, WorkerFails
      <4> QED
        BY <2>1, <4>1
    <3> QED
      BY <2>3, <3>1, <3>2, <3>3, <3>4, <3>5 DEF WorkerStep
  <2>4. CASE \/ GenerateCheckpoint \/ GeneratorFails \/ ProverStep \/ ProverPanics
             \/ Return \/ Returned \/ UNCHANGED vars
    BY <2>2, <2>4 DEF GenerateCheckpoint, GeneratorFails, ProverStep, ProveChunk, ProverEnds,
                      ProverPanics, Return, Returned, vars, locals
  <2> QED
    BY <2>3, <2>4 DEF Next
<1>3. NoAttempt => NeverFallsBack
  BY DEF NeverFallsBack
<1> HIDE DEF NoAttempt
<1> QED
  BY <1>1, <1>2, <1>3, Invariance, PTL DEF Spec

\* Nor does any program when fix_shape finds a shape for every record.
LEMMA FittingNeverFallsBack ==
  ASSUME UnfitChoices = {{}}
  PROVE  Spec => []NeverFallsBack
<1>1. IInv => NeverFallsBack
  BY DEF IInv, TypeOK, NeverFallsBack, ShapesFit
<1> QED
  BY <1>1, Invariance, PTL

\* For a program of at least 2^21 cycles, whatever its batches are and whatever fails,
\* prove_with_context does what the loop does.
THEOREM LargeProgramsRefine ==
  ASSUME ~SmallProgram
  PROVE  Spec => ImplementsSequential
BY LargeNeverFallsBack, RefinesLoop, PTL

\* When fix_shape finds a shape for every record, prove_with_context does what the loop does,
\* with or without combined attempts.
THEOREM FittingShapesRefine ==
  ASSUME UnfitChoices = {{}}
  PROVE  Spec => ImplementsSequential
BY FittingNeverFallsBack, RefinesLoop, PTL

\* The prover has read everything when it ends, and nothing happens after the threads are
\* joined.
Joined ==
    /\ proverPc = "ok" => output = <<>>
    /\ result # "running" =>
           /\ result = Outcome /\ genPc # "run" /\ proverPc # "run"
           /\ \A w \in Workers : pc[w] \in Ended

\* Every step preserves it.
LEMMA NextJoined ==
  ASSUME IInv, Joined, [Next]_vars
  PROVE  Joined'
<1>1. CASE \E w \in Workers : WorkerStep(w) \/ WorkerFails(w)
  <2>1. PICK w \in Workers : WorkerStep(w) \/ WorkerFails(w)
    BY <1>1, ZenonT(60)
  <2>2. /\ pc[w] \notin Ended /\ UNCHANGED <<proverPc, result>>
        /\ output' = output \/ proverPc = "run"
    BY <2>1 DEF WorkerStep, WorkerFails, Receive, ReceiveDisconnected, WaitForRecordTurn,
                NumberRecords, NumberPanics, DeferEvents, SplitCombined, SkipCombined,
                SplitPlain, GenerateDependencies, FixShapesCombined, FixShapesPlain,
                FixShapesPanics, GenerateTraces, WaitForTraceTurn, SendChunk, SendPanics,
                AdvanceTraceTurn, DropGuards, Ended, proving
  <2> QED
    BY <2>2 DEF Joined
<1>2. CASE GenerateCheckpoint \/ GeneratorFails
  BY <1>2 DEF Joined, GenerateCheckpoint, GeneratorFails, proving
<1>3. CASE ProverStep \/ ProverPanics
  BY <1>3 DEF Joined, ProverStep, ProveChunk, ProverEnds, ProverPanics
<1>4. CASE Return
  <2>1. /\ genPc # "run" /\ proverPc # "run" /\ \A w \in Workers : pc[w] \in Ended
        /\ result' = Outcome /\ UNCHANGED <<genPc, proverPc, pc, output>>
    BY <1>4 DEF Return, generator, locals, proving
  <2>2. Outcome' = Outcome
    BY <2>1 DEF Outcome
  <2> QED
    BY <2>1, <2>2 DEF Joined
<1>5. CASE Returned \/ UNCHANGED vars
  <2>1. UNCHANGED <<genPc, proverPc, pc, output, result>>
    BY <1>5 DEF Returned, vars, generator, locals, proving
  <2>2. Outcome' = Outcome
    BY <2>1 DEF Outcome
  <2> QED
    BY <2>1, <2>2 DEF Joined
<1> QED
  BY <1>1, <1>2, <1>3, <1>4, <1>5 DEF Next

\* The shards of a proof that is returned are those the loop makes of all batches.
ProvesLoop == result = "ok" => \E o \in Outcomes[NumBatches] : RecordsOf(proved) = o.shards

\* A call of prove_with_context that returns Ok has proved, in order, exactly the shards the
\* loop makes of all batches: nothing is left in a channel or with a worker.
THEOREM OkProvesLoop == Spec /\ []NeverFallsBack => []ProvesLoop
<1>1. Init => Joined
  BY DEF Init, Joined
<1>2. IInv /\ Joined /\ [Next]_vars => Joined'
  BY NextJoined
<1>3. Spec => []Joined
  BY <1>1, <1>2, Invariance, PTL DEF Spec
<1>4. IInv /\ LInv /\ Joined => ProvesLoop
  <2> SUFFICES ASSUME IInv, LInv, Joined, result = "ok"
               PROVE  \E o \in Outcomes[NumBatches] : RecordsOf(proved) = o.shards
    BY DEF ProvesLoop
  <2>0. TypeOK /\ Control /\ AsLoop /\ SentLists
    BY DEF IInv, LInv
  <2>1. /\ Outcome = "ok" /\ genPc # "run" /\ proverPc # "run"
        /\ \A w \in Workers : pc[w] \in Ended
    BY DEF Joined
  <2>2. ~Failed /\ genPc # "err" /\ proverPc # "panic"
    BY <2>1 DEF Outcome, Failed
  <2>3. genPc = "ok" /\ output = <<>>
    BY <2>0, <2>1, <2>2 DEF TypeOK, Joined
  <2>4. traceTurn = NumBatches /\ \A w \in Workers : chunks[w] = <<>>
    BY <2>0, <2>1, <2>2, <2>3, AllDelivered
  <2>5. Between
    BY <2>0, <2>1, <2>2 DEF AsLoop, Working, Critical, Ended
  <2>6. Shards = RecordsOf(proved)
    <3>1. PICK w \in Workers : TRUE
      BY PipelineAssumption
    <3>2. PICK S : /\ output \in Seq(Sent(S)) /\ proved \in Seq(Sent(S))
                   /\ chunks \in [Workers -> Seq(Seq(S))]
      BY <2>0 DEF SentLists
    <3>3. OnlyFrom(S, proved, output, chunks, w)
      BY <2>4, <3>2 DEF OnlyFrom
    <3>4. /\ Shards = RecordsOf(proved \o output) \o FlattenSeq(chunks[w])
          /\ RecordsOf(proved \o output) \in Seq(S)
      BY <3>3, EmittedOne, ShardsEmitted
    <3>5. FlattenSeq(chunks[w]) = <<>>
      <4>1. chunks[w] \in Seq(Seq(S)) /\ chunks[w] = <<>>
        BY <2>4, <3>2
      <4> QED
        BY <4>1, FlattenType
    <3>6. proved \o output = proved
      BY <2>3, <3>2
    <3> QED
      BY <3>4, <3>5, <3>6
  <2> QED
    BY <2>4, <2>5, <2>6 DEF Between
<1> QED
  BY <1>3, <1>4, RefinementInvariance, PTL
-----------------------------------------------------------------------------
(* The events of records.  A kind is <<"precompile", c>>, <<"init">> or      *)
(* <<"finalize">>.                                                           *)

EventKinds == {<<"precompile", c>> : c \in Codes} \cup {<<"init">>, <<"finalize">>}

Part(r, k) == IF k[1] = "init" THEN r.init
              ELSE IF k[1] = "finalize" THEN r.finalize ELSE r.precompile[k[2]]

Events(recs, k) == FlattenSeq([i \in DOMAIN recs |-> Part(recs[i], k)])

\* r has the fields of a record.
IsRecord(r) == r = [cpu |-> r.cpu, precompile |-> r.precompile, init |-> r.init,
                    finalize |-> r.finalize, pv |-> r.pv]

\* The events of each record of a list are a sequence over S.
Holds(r, k, S) == IsRecord(r) /\ Part(r, k) \in Seq(S)
Carries(recs, k, S) == IsSeq(recs) /\ \A i \in DOMAIN recs : Holds(recs[i], k, S)

\* These are the events NoEventIsLost speaks of.
LEMMA EventsOf ==
  ASSUME NEW recs
  PROVE  /\ \A c : PrecompileEvents(recs, c) = Events(recs, <<"precompile", c>>)
         /\ InitEvents(recs) = Events(recs, <<"init">>)
         /\ FinalizeEvents(recs) = Events(recs, <<"finalize">>)
<1>1. ASSUME NEW c PROVE PrecompileEvents(recs, c) = Events(recs, <<"precompile", c>>)
  <2>1. \A r : Part(r, <<"precompile", c>>) = r.precompile[c]
    BY DEF Part
  <2> QED
    BY <2>1 DEF PrecompileEvents, Events
<1>2. InitEvents(recs) = Events(recs, <<"init">>)
  <2>1. \A r : Part(r, <<"init">>) = r.init
    BY DEF Part
  <2> QED
    BY <2>1 DEF InitEvents, Events
<1>3. FinalizeEvents(recs) = Events(recs, <<"finalize">>)
  <2>1. \A r : Part(r, <<"finalize">>) = r.finalize
    BY DEF Part
  <2> QED
    BY <2>1 DEF FinalizeEvents, Events
<1> QED
  BY <1>1, <1>2, <1>3

\* They are a sequence.
LEMMA EventsType ==
  ASSUME NEW recs, NEW k, NEW S, Carries(recs, k, S)
  PROVE  /\ [i \in DOMAIN recs |-> Part(recs[i], k)] \in Seq(Seq(S))
         /\ Len([i \in DOMAIN recs |-> Part(recs[i], k)]) = Len(recs)
         /\ Events(recs, k) \in Seq(S)
<1> DEFINE f == [i \in DOMAIN recs |-> Part(recs[i], k)]
<1>1. Len(recs) \in Nat /\ DOMAIN recs = 1 .. Len(recs)
  BY SeqIsSeq DEF Carries, IsSeq
<1>2. f \in [1 .. Len(recs) -> Seq(S)]
  BY <1>1 DEF Carries, Holds
<1> HIDE DEF f
<1>3. f \in Seq(Seq(S)) /\ Len(f) = Len(recs)
  BY <1>1, <1>2, FunctionIsSeq
<1>4. FlattenSeq(f) \in Seq(S)
  BY <1>3, FlattenType
<1> QED
  BY <1>3, <1>4 DEF f, Events

\* The events of a and b add up to those of a \o b.
AddsUp(a, b, k, S) ==
    Carries(a \o b, k, S) /\ Events(a \o b, k) = Events(a, k) \o Events(b, k)

\* The events of two lists, one after the other.
LEMMA EventsConcat ==
  ASSUME NEW a, NEW b, NEW k, NEW S, Carries(a, k, S), Carries(b, k, S)
  PROVE  AddsUp(a, b, k, S)
<1> DEFINE ab == a \o b
           f == [i \in DOMAIN a |-> Part(a[i], k)]
           g == [i \in DOMAIN b |-> Part(b[i], k)]
           h == [i \in DOMAIN ab |-> Part(ab[i], k)]
<1>1. /\ IsSeq(a) /\ IsSeq(b) /\ Len(a) \in Nat /\ Len(b) \in Nat
      /\ DOMAIN a = 1 .. Len(a) /\ DOMAIN b = 1 .. Len(b)
  BY SeqIsSeq DEF Carries, IsSeq
<1>2. /\ IsSeq(ab) /\ Len(ab) = Len(a) + Len(b) /\ DOMAIN ab = 1 .. Len(a) + Len(b)
      /\ \A i \in 1 .. Len(a) : ab[i] = a[i]
      /\ \A i \in 1 .. Len(b) : ab[Len(a) + i] = b[i]
  <2> DEFINE T == Range(a) \cup Range(b)
  <2>1. a \in Seq(T) /\ b \in Seq(T)
    <3>1. a \in Seq(Range(a)) /\ b \in Seq(Range(b))
      BY <1>1 DEF IsSeq
    <3> QED
      BY <3>1
  <2> HIDE DEF T
  <2>2. IsSeq(ab) /\ Len(ab) = Len(a) + Len(b)
    BY <1>1, ConcatIsSeq
  <2>3. DOMAIN ab = 1 .. Len(a) + Len(b)
    BY <2>1
  <2>4. \A i \in 1 .. Len(a) : ab[i] = a[i]
    BY <2>1
  <2>5. \A i \in 1 .. Len(b) : ab[Len(a) + i] = b[i]
    BY <2>1
  <2> QED
    BY <2>2, <2>3, <2>4, <2>5
<1> HIDE DEF ab
<1>3. Carries(ab, k, S)
  <2>1. ASSUME NEW i \in 1 .. Len(a) + Len(b) PROVE Holds(ab[i], k, S)
    <3>1. CASE i <= Len(a)
      <4>1. i \in 1 .. Len(a)
        BY <1>1, <3>1
      <4> QED
        BY <1>1, <1>2, <4>1 DEF Carries
    <3>2. CASE ~(i <= Len(a))
      <4>1. i - Len(a) \in 1 .. Len(b) /\ Len(a) + (i - Len(a)) = i
        BY <1>1, <3>2
      <4>2. ab[i] = b[i - Len(a)]
        BY <1>2, <4>1
      <4> QED
        BY <1>1, <4>1, <4>2 DEF Carries
    <3> QED
      BY <3>1, <3>2
  <2> QED
    BY <1>2, <2>1 DEF Carries
<1>4. /\ f \in Seq(Seq(S)) /\ g \in Seq(Seq(S)) /\ h \in Seq(Seq(S))
      /\ Len(f) = Len(a) /\ Len(g) = Len(b) /\ Len(h) = Len(a) + Len(b)
  BY <1>2, <1>3, EventsType
<1>5. h = f \o g
  <2>1. \A i \in 1 .. Len(a) : h[i] = f[i]
    BY <1>1, <1>2
  <2>2. \A i \in 1 .. Len(b) : h[Len(a) + i] = g[i]
    BY <1>1, <1>2
  <2> HIDE DEF f, g, h
  <2> DEFINE T == Seq(S)
  <2>3. f \in Seq(T) /\ g \in Seq(T) /\ h \in Seq(T)
    BY <1>4
  <2> HIDE DEF T
  <2>4. f \o g \in Seq(T) /\ Len(f \o g) = Len(h)
    BY <1>4, <2>3
  <2>6. \A i \in 1 .. Len(g) : (f \o g)[Len(f) + i] = g[i]
    BY <2>3
  <2>5. ASSUME NEW i \in 1 .. Len(a) + Len(b) PROVE h[i] = (f \o g)[i]
    <3>1. CASE i <= Len(a)
      <4>1. i \in 1 .. Len(a)
        BY <1>1, <3>1
      <4>2. (f \o g)[i] = f[i]
        BY <1>4, <2>3, <4>1
      <4> QED
        BY <2>1, <4>1, <4>2
    <3>2. CASE ~(i <= Len(a))
      <4>1. i - Len(a) \in 1 .. Len(b) /\ Len(a) + (i - Len(a)) = i
        BY <1>1, <3>2
      <4>2. (f \o g)[Len(a) + (i - Len(a))] = g[i - Len(a)]
        BY <1>4, <2>6, <4>1
      <4> QED
        BY <2>2, <4>1, <4>2
    <3> QED
      BY <3>1, <3>2
  <2> QED
    BY <1>4, <2>3, <2>4, <2>5, SeqEqual
<1> HIDE DEF f, g, h
<1>6. FlattenSeq(h) = FlattenSeq(f) \o FlattenSeq(g)
  BY <1>4, <1>5, FlattenConcat
<1> QED
  BY <1>3, <1>6 DEF f, g, h, ab, Events, AddsUp

\* Records with the same events.
LEMMA EventsSame ==
  ASSUME NEW a, NEW b, NEW k, DOMAIN a = DOMAIN b,
         \A i \in DOMAIN a : Part(a[i], k) = Part(b[i], k)
  PROVE  Events(a, k) = Events(b, k)
<1>1. [i \in DOMAIN a |-> Part(a[i], k)] = [i \in DOMAIN b |-> Part(b[i], k)]
  OBVIOUS
<1> QED
  BY <1>1 DEF Events

\* Records without events of this kind.
Quiet(r, k) == IsRecord(r) /\ Part(r, k) = <<>>
Silent(recs, k) == IsSeq(recs) /\ \A i \in DOMAIN recs : Quiet(recs[i], k)

\* Nothing comes of them.
LEMMA EventsSilent ==
  ASSUME NEW recs, NEW k, Silent(recs, k)
  PROVE  Events(recs, k) = <<>> /\ \A S : Carries(recs, k, S)
<1>1. Len(recs) \in Nat /\ DOMAIN recs = 1 .. Len(recs)
  BY SeqIsSeq DEF Silent, IsSeq
<1>2. [i \in DOMAIN recs |-> Part(recs[i], k)] = [i \in 1 .. Len(recs) |-> <<>>]
  BY <1>1 DEF Silent, Quiet
<1>3. Events(recs, k) = <<>>
  BY <1>1, <1>2, FlattenSilent DEF Events
<1>4. ASSUME NEW S PROVE Carries(recs, k, S)
  <2>1. <<>> \in Seq(S)
    OBVIOUS
  <2> QED
    BY <2>1 DEF Silent, Quiet, Carries, Holds
<1> QED
  BY <1>3, <1>4

\* A list without events of this kind has only events of no kind.
LEMMA SilentCarries ==
  ASSUME NEW recs, NEW k
  PROVE  Silent(recs, k) <=> Carries(recs, k, {})
<1>1. \A s \in Seq({}) : s = <<>>
  OBVIOUS
<1>2. <<>> \in Seq({})
  OBVIOUS
<1> QED
  BY <1>1, <1>2 DEF Carries, Holds, Silent, Quiet

\* Two such lists.
LEMMA SilentConcat ==
  ASSUME NEW a, NEW b, NEW k, Silent(a, k), Silent(b, k)
  PROVE  Silent(a \o b, k)
<1>1. Carries(a, k, {}) /\ Carries(b, k, {})
  BY SilentCarries
<1>2. Carries(a \o b, k, {})
  BY <1>1, EventsConcat DEF AddsUp
<1> QED
  BY <1>2, SilentCarries

\* No record.
LEMMA EventsNone ==
  ASSUME NEW k
  PROVE  Silent(<<>>, k) /\ Events(<<>>, k) = <<>>
<1>1. <<>> \in Seq({})
  OBVIOUS
<1>2. IsSeq(<<>>)
  BY <1>1, SeqIsSeq
<1>3. Silent(<<>>, k)
  BY <1>2 DEF Silent
<1> QED
  BY <1>3, EventsSilent

\* The events of each list in a list of n.
EachEvents(ss, n, k) == [i \in 1 .. n |-> Events(ss[i], k)]

\* Together they are the events of all of them.
LEMMA EventsFlatten ==
  ASSUME NEW n \in Nat, NEW ss, ss = [i \in 1 .. n |-> ss[i]], NEW k, NEW S,
         \A i \in 1 .. n : Carries(ss[i], k, S)
  PROVE  LET e == EachEvents(ss, n, k)
         IN  /\ e \in Seq(Seq(S)) /\ Len(e) = n
             /\ Carries(FlattenSeq(ss), k, S) /\ Events(FlattenSeq(ss), k) = FlattenSeq(e)
<1> DEFINE e == [i \in 1 .. n |-> Events(ss[i], k)]
           R == UNION {Range(ss[i]) : i \in 1 .. n}
<1>1. e \in Seq(Seq(S)) /\ Len(e) = n
  <2>1. e \in [1 .. n -> Seq(S)]
    BY EventsType
  <2> HIDE DEF e
  <2> QED
    BY <2>1, FunctionIsSeq
<1>2. \A r \in R : Holds(r, k, S)
  <2> SUFFICES ASSUME NEW i \in 1 .. n, NEW r \in Range(ss[i]) PROVE Holds(r, k, S)
    OBVIOUS
  <2>1. PICK j \in DOMAIN ss[i] : r = ss[i][j]
    BY DEF Range
  <2> QED
    BY <2>1 DEF Carries
<1>3. ss \in Seq(Seq(R)) /\ Len(ss) = n
  <2>1. ASSUME NEW i \in 1 .. n PROVE ss[i] \in Seq(R)
    <3>1. Range(ss[i]) \subseteq R
      OBVIOUS
    <3>2. ss[i] \in Seq(Range(ss[i]))
      BY DEF Carries, IsSeq
    <3> HIDE DEF R
    <3> QED
      BY <3>1, <3>2
  <2> HIDE DEF R
  <2>2. ss \in [1 .. n -> Seq(R)]
    BY <2>1
  <2> QED
    BY <2>2, FunctionIsSeq
<1> HIDE DEF R
<1>4. ASSUME NEW s \in Seq(R) PROVE Carries(s, k, S)
  <2>1. IsSeq(s) /\ DOMAIN s = 1 .. Len(s) /\ Len(s) \in Nat
    BY SeqIsSeq
  <2>2. \A i \in 1 .. Len(s) : s[i] \in R
    OBVIOUS
  <2> QED
    BY <1>2, <2>1, <2>2 DEF Carries
<1>5. FlattenSeq(ss) \in Seq(R)
  BY <1>3, FlattenType
<1>6. CASE n = 0
  <2>1. ss = <<>> /\ e = <<>>
    BY <1>1, <1>3, <1>6, EmptySeq
  <2> HIDE DEF e
  <2>2. FlattenSeq(ss) = <<>> /\ FlattenSeq(e) = <<>>
    BY <2>1, FlattenNothing
  <2>3. Events(<<>>, k) = <<>>
    BY EventsNone
  <2>4. Events(FlattenSeq(ss), k) = FlattenSeq(e)
    BY <2>2, <2>3
  <2> QED
    BY <1>1, <1>4, <1>5, <2>4 DEF e, EachEvents
<1>7. CASE n # 0
  <2>0. ss # <<>> /\ e # <<>> /\ n \in 1 .. n /\ 1 \in 1 .. n
    BY <1>1, <1>3, <1>7
  <2>1. PICK f \in [1 .. n -> Seq(R)] : Flattens(f, ss, n)
    BY <1>3, <2>0, FlattensExists
  <2>2. FlattenSeq(ss) = f[n]
    BY <1>3, <2>0, <2>1, FlattensUnique
  <2> DEFINE h == [i \in 1 .. n |-> Events(f[i], k)]
  <2>3. h[1] = e[1]
    BY <2>0, <2>1 DEF Flattens
  <2>4. ASSUME NEW i \in 2 .. n PROVE h[i] = h[i - 1] \o e[i]
    <3>1. i \in 1 .. n /\ i - 1 \in 1 .. n
      OBVIOUS
    <3>2. f[i] = f[i - 1] \o ss[i]
      BY <2>1 DEF Flattens
    <3>3. Carries(f[i - 1], k, S) /\ Carries(ss[i], k, S)
      BY <1>4, <3>1
    <3>4. Events(f[i - 1] \o ss[i], k) = Events(f[i - 1], k) \o Events(ss[i], k)
      <4>1. AddsUp(f[i - 1], ss[i], k, S)
        BY <3>3, EventsConcat
      <4> QED
        BY <4>1 DEF AddsUp
    <3>5. h[i] = Events(f[i], k) /\ h[i - 1] = Events(f[i - 1], k) /\ e[i] = Events(ss[i], k)
      BY <3>1
    <3> HIDE DEF h, e
    <3> QED
      BY <3>2, <3>4, <3>5
  <2>5. h[n] = Events(f[n], k)
    BY <2>0
  <2> HIDE DEF h, e
  <2>6. Flattens(h, e, n)
    BY <2>3, <2>4 DEF Flattens
  <2>7. FlattenSeq(e) = h[n]
    BY <1>1, <2>0, <2>6, FlattensUnique
  <2> QED
    BY <1>1, <1>4, <1>5, <2>2, <2>5, <2>7 DEF e, EachEvents
<1> QED
  BY <1>6, <1>7

\* One record.
LEMMA EventsOne ==
  ASSUME NEW r, NEW k, NEW S, Holds(r, k, S)
  PROVE  Carries(<<r>>, k, S) /\ Events(<<r>>, k) = Part(r, k)
<1> DEFINE t == <<r>>
           f == [i \in DOMAIN t |-> Part(t[i], k)]
<1>1. t \in Seq({r}) /\ DOMAIN t = 1 .. 1 /\ t[1] = r /\ \A i \in DOMAIN t : t[i] = r
  OBVIOUS
<1> HIDE DEF t
<1>2. IsSeq(t)
  BY <1>1, SeqIsSeq
<1>3. Carries(t, k, S)
  BY <1>1, <1>2 DEF Carries
<1>4. f \in Seq(Seq(S)) /\ Len(f) = 1 /\ f[1] = Part(r, k)
  <2>1. f \in [1 .. 1 -> Seq(S)] /\ f[1] = Part(r, k)
    BY <1>1 DEF Holds
  <2> HIDE DEF f
  <2> QED
    BY <2>1, FunctionIsSeq
<1> HIDE DEF f
<1>5. 1 \in 1 .. Len(f) /\ \A i \in 1 .. Len(f) : i # 1 => f[i] = <<>>
  BY <1>4
<1>6. FlattenSeq(f) = Part(r, k)
  BY <1>4, <1>5, FlattenOnly
<1> QED
  BY <1>3, <1>6 DEF f, t, Events

\* The exact chunks and the remainder are the whole sequence.
LEMMA ExactFlatten ==
  ASSUME NEW S, NEW s \in Seq(S), NEW n \in Nat \ {0}
  PROVE  LET ch == ChunksExact(s, n)
         IN  /\ ch.full \in Seq(Seq(S)) /\ ch.rest \in Seq(S)
             /\ FlattenSeq(ch.full) \o ch.rest = s
<1> DEFINE l == Len(s)
           m == l \div n
           full == ChunksExact(s, n).full
           rest == ChunksExact(s, n).rest
<1>1. l \in Nat /\ m \in Nat /\ m * n \in Nat /\ m * n <= l
  <2>1. l \in Nat
    OBVIOUS
  <2> HIDE DEF l
  <2>2. l = n * (l \div n) + (l % n)
    BY <2>1, DivMod
  <2>3. l % n \in Nat /\ m \in Nat
    BY <2>1
  <2> HIDE DEF m
  <2>4. n * m = m * n /\ m * n \in Nat
    BY <2>3
  <2> QED
    BY <2>1, <2>2, <2>3, <2>4 DEF m
<1>2. full = [k \in 1 .. m |-> SubSeq(s, (k - 1) * n + 1, k * n)] /\ rest = SubSeq(s, m * n + 1, l)
  BY DEF ChunksExact
<1>3. l = Len(s)
  OBVIOUS
<1> HIDE DEF l, m, full, rest
<1>4. ASSUME NEW k \in 1 .. m
      PROVE  k * n \in Nat /\ (k - 1) * n \in Nat /\ (k - 1) * n <= k * n /\ k * n <= l
  <2>1. k * n \in Nat /\ (k - 1) * n \in Nat /\ (k - 1) * n + n = k * n
    BY <1>1, ChunkBounds
  <2>2. k < m => k * n + n <= m * n
    BY <1>1, ChunkBounds
  <2> DEFINE x == k * n
             y == (k - 1) * n
             z == m * n
  <2>3. /\ x \in Nat /\ y \in Nat /\ z \in Nat /\ y + n = x /\ (k < m => x + n <= z)
        /\ (k = m => x = z) /\ z <= l /\ l \in Nat /\ (k < m \/ k = m)
    BY <1>1, <2>1, <2>2
  <2> HIDE DEF x, y, z
  <2>4. y <= x /\ x <= l
    BY <2>3
  <2> QED
    BY <2>1, <2>4 DEF x, y
<1>5. \A k \in 1 .. m : SubSeq(s, (k - 1) * n + 1, k * n) \in Seq(S)
  <2> TAKE k \in 1 .. m
  <2> DEFINE p == (k - 1) * n
             q == k * n
  <2>1. p \in Nat /\ q \in Nat /\ p <= q /\ q <= Len(s)
    BY <1>3, <1>4
  <2> HIDE DEF p, q
  <2>2. SubSeq(s, p + 1, q) \in Seq(S)
    BY <2>1, Pieces
  <2> QED
    BY <2>2 DEF p, q
<1>6. full \in Seq(Seq(S)) /\ Len(full) = m
  <2>1. full \in [1 .. m -> Seq(S)]
    BY <1>2, <1>5
  <2> QED
    BY <1>1, <2>1, FunctionIsSeq
<1>7. SubSeq(s, 1, m * n) \o rest = s /\ rest \in Seq(S)
  <2> DEFINE p == m * n
  <2>1. p \in Nat /\ p <= l /\ l \in Nat
    BY <1>1
  <2>2. rest = SubSeq(s, p + 1, l)
    BY <1>2
  <2> HIDE DEF p
  <2> DEFINE q == Len(s)
  <2>a. q \in Nat /\ p <= q /\ q <= Len(s)
    BY <1>3, <2>1
  <2> HIDE DEF q
  <2>b. /\ SubSeq(s, 1, p) \o SubSeq(s, p + 1, q) = SubSeq(s, 1, q)
        /\ SubSeq(s, p + 1, q) \in Seq(S) /\ SubSeq(s, 1, Len(s)) = s
    BY <2>1, <2>a, Pieces
  <2>3. /\ SubSeq(s, 1, p) \o SubSeq(s, p + 1, l) = SubSeq(s, 1, l)
        /\ SubSeq(s, p + 1, l) \in Seq(S) /\ SubSeq(s, 1, Len(s)) = s
    BY <1>3, <2>b DEF q
  <2>4. SubSeq(s, 1, p) \o rest = s /\ rest \in Seq(S)
    BY <1>3, <2>2, <2>3
  <2> QED
    BY <2>4 DEF p
<1>8. FlattenSeq(full) = SubSeq(s, 1, m * n)
  <2>1. CASE m = 0
    <3>1. full = <<>> /\ m * n = 0
      BY <1>6, <2>1, EmptySeq
    <3>2. SubSeq(s, 1, 0) = <<>>
      OBVIOUS
    <3>3. FlattenSeq(full) = <<>>
      BY <3>1, FlattenNothing
    <3> QED
      BY <3>1, <3>2, <3>3
  <2>2. CASE m # 0
    <3> DEFINE f == [k \in 1 .. m |-> SubSeq(s, 1, k * n)]
    <3>0. full # <<>> /\ 1 \in 1 .. m /\ m \in 1 .. m
      BY <1>1, <1>6, <2>2
    <3>1. f[1] = full[1]
      <4>1. (1 - 1) * n + 1 = 1
        OBVIOUS
      <4> QED
        BY <1>2, <3>0, <4>1
    <3>2. ASSUME NEW k \in 2 .. m PROVE f[k] = f[k - 1] \o full[k]
      <4>1. k \in 1 .. m /\ k - 1 \in 1 .. m
        BY <1>1
      <4> DEFINE p == (k - 1) * n
                 q == k * n
      <4>2. p \in Nat /\ q \in Nat /\ p <= q /\ q <= Len(s)
        BY <1>3, <1>4, <4>1
      <4>3. f[k] = SubSeq(s, 1, q) /\ f[k - 1] = SubSeq(s, 1, p) /\ full[k] = SubSeq(s, p + 1, q)
        BY <1>2, <4>1
      <4> HIDE DEF p, q, f
      <4>4. SubSeq(s, 1, p) \o SubSeq(s, p + 1, q) = SubSeq(s, 1, q)
        BY <4>2, Pieces
      <4> QED
        BY <4>3, <4>4
    <3>3. f[m] = SubSeq(s, 1, m * n)
      BY <3>0
    <3> HIDE DEF f
    <3>4. Flattens(f, full, Len(full))
      BY <1>6, <3>1, <3>2 DEF Flattens
    <3>5. FlattenSeq(full) = f[m]
      BY <1>6, <3>0, <3>4, FlattensUnique
    <3> QED
      BY <3>3, <3>5
  <2> QED
    BY <2>1, <2>2
<1> QED
  BY <1>6, <1>7, <1>8 DEF full, rest

-----------------------------------------------------------------------------
(* split keeps every precompile event. *)

\* The full shards and the remainder of a code are its events, in order.
LEMMA ChunksOfEvents ==
  ASSUME NEW c \in Codes, NEW s \in Seq(Event)
  PROVE  LET ch == ChunksOf(c, s)
         IN  /\ ch.full \in Seq(Seq(Event)) /\ ch.rest \in Seq(Event)
             /\ FlattenSeq(ch.full) \o ch.rest = s
<1> DEFINE n == Threshold[c]
<1>1. n \in Nat \ {0}
  BY SplitAssumption
<1>2. CASE c = KECCAK_SPONGE
  <2>1. KeccakChunks(s, n) \in KeccakShards /\ KeccakEvents(KeccakChunks(s, n)) = s
    BY KeccakType
  <2>2. ChunksOf(c, s) = KeccakChunks(s, n)
    BY <1>2 DEF ChunksOf
  <2> QED
    BY <2>1, <2>2 DEF KeccakShards, KeccakEvents
<1>3. CASE c # KECCAK_SPONGE
  <2>1. ChunksOf(c, s) = ChunksExact(s, n)
    BY <1>3 DEF ChunksOf
  <2> HIDE DEF n
  <2>2. /\ ChunksExact(s, n).full \in Seq(Seq(Event)) /\ ChunksExact(s, n).rest \in Seq(Event)
        /\ FlattenSeq(ChunksExact(s, n).full) \o ChunksExact(s, n).rest = s
    BY <1>1, ExactFlatten
  <2> QED
    BY <2>1, <2>2
<1> QED
  BY <1>2, <1>3

\* A shard that split makes for a code has events of that code only.
LEMMA PrecompileShardPart ==
  ASSUME NEW c \in Codes, NEW ev
  PROVE  LET r == PrecompileShard(c, ev)
         IN  /\ IsRecord(r) /\ Part(r, <<"precompile", c>>) = ev
             /\ \A k \in EventKinds \ {<<"precompile", c>>} : Quiet(r, k)
<1> DEFINE r == PrecompileShard(c, ev)
<1>1. r = [cpu |-> FALSE, precompile |-> [NoEvents EXCEPT ![c] = ev], init |-> <<>>,
           finalize |-> <<>>, pv |-> PublicValuesDefault]
  <2> DEFINE t == [NoEvents EXCEPT ![c] = ev]
  <2>1. r = [NewRecord EXCEPT !.precompile = [NewRecord.precompile EXCEPT ![c] = ev]]
    BY DEF PrecompileShard
  <2>2. NewRecord.precompile = NoEvents
    BY DEF NewRecord
  <2>3. r = [NewRecord EXCEPT !.precompile = t]
    BY <2>1, <2>2
  <2> HIDE DEF t, r
  <2>4. r = [cpu |-> FALSE, precompile |-> t, init |-> <<>>, finalize |-> <<>>,
             pv |-> PublicValuesDefault]
    BY <2>3 DEF NewRecord
  <2> QED
    BY <2>4 DEF t
<1>2. /\ r.precompile = [NoEvents EXCEPT ![c] = ev] /\ r.init = <<>> /\ r.finalize = <<>>
      /\ IsRecord(r)
  BY <1>1 DEF IsRecord
<1> HIDE DEF r
<1>3. r.precompile[c] = ev /\ \A x \in Codes : x # c => r.precompile[x] = <<>>
  BY <1>2 DEF NoEvents
<1>4. Part(r, <<"precompile", c>>) = ev
  BY <1>3 DEF Part
<1>5. ASSUME NEW k \in EventKinds \ {<<"precompile", c>>} PROVE Part(r, k) = <<>>
  <2>1. CASE k = <<"init">>
    BY <1>2, <2>1 DEF Part
  <2>2. CASE k = <<"finalize">>
    BY <1>2, <2>2 DEF Part
  <2>3. CASE \E x \in Codes : k = <<"precompile", x>>
    <3>1. PICK x \in Codes : k = <<"precompile", x>>
      BY <2>3
    <3>2. x # c
      BY <3>1
    <3> QED
      BY <1>3, <3>1, <3>2 DEF Part
  <2> QED
    BY <2>1, <2>2, <2>3 DEF EventKinds
<1> QED
  BY <1>2, <1>4, <1>5 DEF r, Quiet

\* The shards of one code have its events up to the remainder, and no others.
LEMMA CodeEvents ==
  ASSUME NEW d, NEW c \in Codes, d.precompile[c] \in Seq(Event), NEW last \in BOOLEAN
  PROVE  LET cs == CodeShards(d, c, last)
             k == <<"precompile", c>>
         IN  /\ Carries(cs, k, Event)
             /\ Events(cs, k) \o Remainders(d, last)[c] = d.precompile[c]
             /\ \A k2 \in EventKinds \ {k} : Silent(cs, k2)
<1> DEFINE s == d.precompile[c]
           ch == ChunksOf(c, s)
           full == [i \in DOMAIN ch.full |-> PrecompileShard(c, ch.full[i])]
           tail == <<PrecompileShard(c, ch.rest)>>
           cs == CodeShards(d, c, last)
           k == <<"precompile", c>>
           Others == EventKinds \ {k}
<1>1. /\ ch.full \in Seq(Seq(Event)) /\ ch.rest \in Seq(Event)
      /\ FlattenSeq(ch.full) \o ch.rest = s
  BY ChunksOfEvents
<1>2. cs = IF last /\ ch.rest # <<>> THEN Append(full, PrecompileShard(c, ch.rest)) ELSE full
  BY DEF CodeShards
<1>3. Remainders(d, last)[c] = IF last THEN <<>> ELSE ch.rest
  BY DEF Remainders
<1> HIDE DEF ch, cs
<1>4. /\ Len(ch.full) \in Nat /\ DOMAIN ch.full = 1 .. Len(ch.full)
      /\ IsSeq(ch.full) /\ \A i \in 1 .. Len(ch.full) : ch.full[i] \in Seq(Event)
  BY <1>1, SeqIsSeq
<1>5. \A ev : /\ IsRecord(PrecompileShard(c, ev)) /\ Part(PrecompileShard(c, ev), k) = ev
              /\ \A k2 \in Others : Quiet(PrecompileShard(c, ev), k2)
  BY PrecompileShardPart
<1> HIDE DEF k, Others
<1>6. IsSeq(full) /\ DOMAIN full = 1 .. Len(ch.full)
  <2>1. full = [i \in DOMAIN ch.full |-> full[i]]
    OBVIOUS
  <2> HIDE DEF full
  <2> QED
    BY <1>4, <2>1, SameDomain
<1>7. Carries(full, k, Event) /\ \A k2 \in Others : Silent(full, k2)
  <2>1. \A i \in 1 .. Len(ch.full) : full[i] = PrecompileShard(c, ch.full[i])
    BY <1>4
  <2> HIDE DEF full
  <2>2. \A i \in 1 .. Len(ch.full) : Holds(full[i], k, Event)
    BY <1>4, <1>5, <2>1 DEF Holds
  <2>3. \A k2 \in Others : \A i \in 1 .. Len(ch.full) : Quiet(full[i], k2)
    BY <1>5, <2>1
  <2> QED
    BY <1>6, <2>2, <2>3 DEF Carries, Silent
<1>8. Events(full, k) = FlattenSeq(ch.full)
  <2>1. \A i \in 1 .. Len(ch.full) : Part(full[i], k) = ch.full[i]
    BY <1>4, <1>5
  <2>2. [i \in DOMAIN full |-> Part(full[i], k)] = ch.full
    <3> HIDE DEF full
    <3>1. ch.full = [i \in 1 .. Len(ch.full) |-> ch.full[i]]
      BY <1>1, <1>4
    <3> QED
      BY <1>6, <2>1, <3>1
  <2> QED
    BY <2>2 DEF Events
<1>9. /\ Carries(tail, k, Event) /\ Events(tail, k) = ch.rest
      /\ \A k2 \in Others : Silent(tail, k2)
  <2> DEFINE x == PrecompileShard(c, ch.rest)
  <2>1. Holds(x, k, Event) /\ Part(x, k) = ch.rest /\ \A k2 \in Others : Holds(x, k2, {})
    <3>1. <<>> \in Seq({})
      OBVIOUS
    <3> QED
      BY <1>1, <1>5, <3>1 DEF Holds, Quiet
  <2> HIDE DEF x
  <2>2. Carries(<<x>>, k, Event) /\ Events(<<x>>, k) = ch.rest
    BY <2>1, EventsOne
  <2>3. ASSUME NEW k2 \in Others PROVE Silent(<<x>>, k2)
    BY <2>1, EventsOne, SilentCarries
  <2> QED
    BY <2>2, <2>3 DEF x
<1>10. Append(full, PrecompileShard(c, ch.rest)) = full \o tail
  <2>1. full \in Seq(Range(full))
    BY <1>6 DEF IsSeq
  <2> DEFINE x == PrecompileShard(c, ch.rest)
             T == Range(full) \cup {x}
  <2>2. full \in Seq(T) /\ x \in T
    BY <2>1
  <2> HIDE DEF full, x, T
  <2>3. Append(full, x) = full \o <<x>>
    BY <2>2
  <2> QED
    BY <2>3 DEF x
<1>11. CASE last /\ ch.rest # <<>>
  <2>1. cs = full \o tail /\ Remainders(d, last)[c] = <<>>
    BY <1>2, <1>3, <1>10, <1>11
  <2> HIDE DEF full, tail
  <2>2. AddsUp(full, tail, k, Event)
    BY <1>7, <1>9, EventsConcat
  <2>3. Carries(cs, k, Event) /\ Events(cs, k) = s
    BY <1>1, <1>8, <1>9, <2>1, <2>2 DEF AddsUp
  <2>4. s \o <<>> = s
    OBVIOUS
  <2>5. ASSUME NEW k2 \in Others PROVE Silent(cs, k2)
    BY <1>7, <1>9, <2>1, SilentConcat
  <2> QED
    BY <2>1, <2>3, <2>4, <2>5 DEF cs, k, Others
<1>12. CASE ~(last /\ ch.rest # <<>>)
  <2>1. cs = full /\ Remainders(d, last)[c] = ch.rest
    BY <1>2, <1>3, <1>12
  <2> HIDE DEF full
  <2>2. Events(cs, k) \o Remainders(d, last)[c] = s
    BY <1>1, <1>8, <2>1
  <2> QED
    BY <1>7, <2>1, <2>2 DEF cs, k, Others
<1> QED
  BY <1>11, <1>12

\* An order visits every code, and visits it once.
LEMMA OrderVisits ==
  ASSUME NEW order \in IterationOrders
  PROVE  /\ Cardinality(Codes) \in Nat /\ order \in [1 .. Cardinality(Codes) -> Codes]
         /\ DOMAIN order = 1 .. Cardinality(Codes)
         /\ \A c \in Codes : \E j \in 1 .. Cardinality(Codes) : order[j] = c
         /\ \A i, j \in 1 .. Cardinality(Codes) : i # j => order[i] # order[j]
<1> DEFINE n == Cardinality(Codes)
           D == 1 .. n
<1>1. n \in Nat /\ IsFiniteSet(Codes)
  BY SplitAssumption, FS_CardinalityType
<1>2. order \in [D -> Codes] /\ \A i, j \in D : i # j => order[i] # order[j]
  BY DEF IterationOrders, SetToSeqs
<1>3. IsFiniteSet(D) /\ Cardinality(D) = n
  <2>1. 1 \in Int /\ n \in Int
    BY <1>1
  <2>2. Cardinality(D) = IF 1 > n THEN 0 ELSE n - 1 + 1
    BY <2>1, FS_Interval
  <2> QED
    BY <1>1, <2>1, <2>2, FS_Interval
<1> HIDE DEF n, D
<1>4. order \in Injection(D, Codes)
  BY <1>2 DEF Injection, IsInjective
<1>5. order \in Surjection(D, Codes)
  BY <1>1, <1>3, <1>4, FS_Injection DEF n
<1>6. \A c \in Codes : \E j \in D : order[j] = c
  BY <1>5 DEF Surjection
<1> QED
  BY <1>1, <1>2, <1>6 DEF n, D

\* Full shards in the order of the codes: the events of each code stay in order.
LEMMA PrecompileKeeps ==
  ASSUME NEW d, \A c \in Codes : d.precompile[c] \in Seq(Event), NEW last \in BOOLEAN,
         NEW order \in IterationOrders
  PROVE  LET pre == PrecompileShards(d, last, order)
         IN  /\ \A c \in Codes :
                  /\ Carries(pre, <<"precompile", c>>, Event)
                  /\ Events(pre, <<"precompile", c>>) \o Remainders(d, last)[c] = d.precompile[c]
             /\ Silent(pre, <<"init">>) /\ Silent(pre, <<"finalize">>)
<1> DEFINE n == Cardinality(Codes)
           ss == [i \in 1 .. n |-> CodeShards(d, order[i], last)]
           pre == PrecompileShards(d, last, order)
           K(c) == <<"precompile", c>>
           Shards1(c) == CodeShards(d, c, last)
<1>1. /\ n \in Nat /\ DOMAIN order = 1 .. n
      /\ \A i \in 1 .. n : order[i] \in Codes
      /\ \A c \in Codes : \E j \in 1 .. n : order[j] = c
      /\ \A i, j \in 1 .. n : i # j => order[i] # order[j]
  BY OrderVisits
<1>2. pre = FlattenSeq(ss)
  BY <1>1 DEF PrecompileShards
<1>3. ASSUME NEW c \in Codes
      PROVE  /\ Carries(Shards1(c), K(c), Event)
             /\ Events(Shards1(c), K(c)) \o Remainders(d, last)[c] = d.precompile[c]
             /\ \A k2 \in EventKinds \ {K(c)} : Silent(Shards1(c), k2)
  BY CodeEvents
<1>4. ss = [i \in 1 .. n |-> ss[i]] /\ \A i \in 1 .. n : ss[i] = Shards1(order[i])
  OBVIOUS
<1> HIDE DEF n, ss, pre, Shards1
<1>5. ASSUME NEW k \in {<<"init">>, <<"finalize">>} PROVE Silent(pre, k)
  <2>1. ASSUME NEW i \in 1 .. n PROVE Carries(ss[i], k, {})
    <3>1. order[i] \in Codes /\ k \in EventKinds \ {K(order[i])}
      BY <1>1 DEF EventKinds
    <3>2. Silent(ss[i], k)
      BY <1>3, <1>4, <3>1
    <3> QED
      BY <3>2, SilentCarries
  <2>2. Carries(FlattenSeq(ss), k, {})
    BY <1>1, <1>4, <2>1, EventsFlatten
  <2> QED
    BY <1>2, <2>2, SilentCarries
<1>6. ASSUME NEW c \in Codes
      PROVE  /\ Carries(pre, K(c), Event)
             /\ Events(pre, K(c)) \o Remainders(d, last)[c] = d.precompile[c]
  <2> DEFINE k == K(c)
             e == EachEvents(ss, n, k)
  <2>1. PICK j \in 1 .. n : order[j] = c
    BY <1>1
  <2>2. ASSUME NEW i \in 1 .. n, i # j PROVE Silent(ss[i], k)
    <3>1. order[i] \in Codes /\ order[i] # c
      BY <1>1, <2>1, <2>2
    <3>2. k \in EventKinds \ {K(order[i])}
      BY <3>1 DEF EventKinds
    <3> QED
      BY <1>3, <1>4, <3>1, <3>2
  <2>3. Carries(ss[j], k, Event)
    BY <1>3, <1>4, <2>1
  <2>4. ASSUME NEW i \in 1 .. n PROVE Carries(ss[i], k, Event)
    BY <2>2, <2>3, EventsSilent
  <2> HIDE DEF K
  <2>5. /\ e \in Seq(Seq(Event)) /\ Len(e) = n
        /\ Carries(FlattenSeq(ss), k, Event) /\ Events(FlattenSeq(ss), k) = FlattenSeq(e)
    BY <1>1, <1>4, <2>4, EventsFlatten
  <2>6. \A i \in 1 .. n : i # j => e[i] = <<>>
    BY <2>2, EventsSilent DEF EachEvents
  <2>7. e[j] = Events(Shards1(c), k)
    BY <1>4, <2>1 DEF EachEvents
  <2> HIDE DEF e
  <2>8. FlattenSeq(e) = e[j]
    BY <2>5, <2>6, FlattenOnly
  <2>9. Events(pre, k) = Events(Shards1(c), k)
    BY <1>2, <2>5, <2>7, <2>8
  <2> QED
    BY <1>2, <1>3, <2>5, <2>9
<1> QED
  BY <1>5, <1>6 DEF pre

-----------------------------------------------------------------------------
(* split keeps every memory event. *)

\* n chunks of a list, empty past its end.
Padded(chunks1, n) == [k \in 1 .. n |-> ChunkAt(chunks1, k)]

\* They have the same events.
LEMMA PaddedFlatten ==
  ASSUME NEW S, NEW ch \in Seq(Seq(S)), NEW n \in Nat, Len(ch) <= n
  PROVE  /\ Padded(ch, n) \in Seq(Seq(S)) /\ Len(Padded(ch, n)) = n
         /\ FlattenSeq(Padded(ch, n)) = FlattenSeq(ch)
<1> DEFINE p == Padded(ch, n)
           z == [k \in 1 .. n - Len(ch) |-> <<>>]
<1>1. /\ Len(ch) \in Nat /\ DOMAIN ch = 1 .. Len(ch) /\ n - Len(ch) \in Nat
      /\ \A k \in 1 .. Len(ch) : ch[k] \in Seq(S)
  OBVIOUS
<1>2. \A k \in 1 .. n : p[k] = IF k <= Len(ch) THEN ch[k] ELSE <<>>
  BY <1>1 DEF Padded, ChunkAt
<1>3. p = [k \in 1 .. n |-> p[k]]
  BY DEF Padded
<1> HIDE DEF p
<1>4. p \in Seq(Seq(S)) /\ Len(p) = n
  <2>1. ASSUME NEW k \in 1 .. n PROVE p[k] \in Seq(S)
    <3>1. k <= Len(ch) => k \in 1 .. Len(ch)
      BY <1>1
    <3>2. <<>> \in Seq(S)
      OBVIOUS
    <3> QED
      BY <1>1, <1>2, <3>1, <3>2
  <2>2. p \in [1 .. n -> Seq(S)]
    BY <1>3, <2>1
  <2> QED
    BY <2>2, FunctionIsSeq
<1>5. z \in Seq(Seq(S)) /\ Len(z) = n - Len(ch) /\ \A k \in 1 .. n - Len(ch) : z[k] = <<>>
  <2>1. z \in [1 .. n - Len(ch) -> Seq(S)]
    OBVIOUS
  <2>2. \A k \in 1 .. n - Len(ch) : z[k] = <<>>
    OBVIOUS
  <2> HIDE DEF z
  <2> QED
    BY <1>1, <2>1, <2>2, FunctionIsSeq
<1>6. FlattenSeq(z) = <<>>
  BY <1>1, FlattenSilent
<1> HIDE DEF z
<1>7. p = ch \o z
  <2> DEFINE T == Seq(S)
  <2>1. p \in Seq(T) /\ ch \in Seq(T) /\ z \in Seq(T)
    BY <1>4, <1>5
  <2> HIDE DEF T
  <2>2. ch \o z \in Seq(T) /\ Len(ch \o z) = n
    BY <1>1, <1>5, <2>1
  <2>3. /\ \A k \in 1 .. Len(ch) : (ch \o z)[k] = ch[k]
        /\ \A k \in 1 .. Len(z) : (ch \o z)[Len(ch) + k] = z[k]
    BY <2>1
  <2>4. ASSUME NEW k \in 1 .. n PROVE p[k] = (ch \o z)[k]
    <3>1. CASE k <= Len(ch)
      <4>1. k \in 1 .. Len(ch)
        BY <1>1, <3>1
      <4> QED
        BY <1>2, <2>3, <3>1, <4>1
    <3>2. CASE ~(k <= Len(ch))
      <4>1. k - Len(ch) \in 1 .. n - Len(ch) /\ Len(ch) + (k - Len(ch)) = k
        BY <1>1, <3>2
      <4>2. (ch \o z)[Len(ch) + (k - Len(ch))] = z[k - Len(ch)]
        BY <1>5, <2>3, <4>1
      <4> QED
        BY <1>2, <1>5, <3>2, <4>1, <4>2
    <3> QED
      BY <3>1, <3>2
  <2> QED
    BY <1>4, <2>1, <2>2, <2>4, SeqEqual
<1>8. FlattenSeq(p) = FlattenSeq(ch) \o FlattenSeq(z)
  BY <1>5, <1>7, FlattenConcat
<1>9. FlattenSeq(ch) \in Seq(S)
  BY FlattenType
<1>10. FlattenSeq(ch) \o <<>> = FlattenSeq(ch)
  BY <1>9
<1> QED
  BY <1>4, <1>6, <1>8, <1>10 DEF p

\* A memory chunk goes to the end of the record's memory events.
LEMMA WithMemoryPart ==
  ASSUME NEW r, IsRecord(r), NEW inits, NEW finalizes, NEW k
  PROVE  LET m == WithMemory(r, inits, finalizes, k)
         IN  /\ IsRecord(m) /\ m.precompile = r.precompile
             /\ m.init = r.init \o ChunkAt(inits, k)
             /\ m.finalize = r.finalize \o ChunkAt(finalizes, k)
<1> DEFINE m == WithMemory(r, inits, finalizes, k)
           x == r.init \o ChunkAt(inits, k)
           y == r.finalize \o ChunkAt(finalizes, k)
<1>1. PICK pv : m = [r EXCEPT !.init = x, !.finalize = y, !.pv = pv]
  BY DEF WithMemory
<1> HIDE DEF m, x, y
<1>2. m = [cpu |-> r.cpu, precompile |-> r.precompile, init |-> x, finalize |-> y, pv |-> pv]
  BY <1>1 DEF IsRecord
<1>3. IsRecord(m) /\ m.precompile = r.precompile /\ m.init = x /\ m.finalize = y
  BY <1>2 DEF IsRecord
<1> QED
  BY <1>3 DEF m, x, y

\* f[k] is r with the first k memory chunks, up to n.
Packs(f, r, inits, finalizes, n) ==
    f[0] = r /\ \A k \in 1 .. n : f[k] = WithMemory(f[k - 1], inits, finalizes, k)

\* PackMemory is the end of such an f.
LEMMA PackMemoryLoop ==
  ASSUME NEW r, NEW inits, NEW finalizes, NEW n \in Nat
  PROVE  \E f : /\ Packs(f, r, inits, finalizes, n)
                /\ PackMemory(r, inits, finalizes, n) = f[n]
<1> DEFINE W(x, k) == WithMemory(x, inits, finalizes, k)
           P(f, m) == /\ f = [k \in 0 .. m |-> f[k]] /\ f[0] = r
                      /\ \A k \in 1 .. m : f[k] = W(f[k - 1], k)
           G == {m \in Nat : \E f : P(f, m)}
<1>1. 0 \in G
  <2> DEFINE f == [k \in 0 .. 0 |-> r]
  <2>1. f = [k \in 0 .. 0 |-> f[k]] /\ f[0] = r /\ \A k \in 1 .. 0 : FALSE
    OBVIOUS
  <2> HIDE DEF f, W
  <2>2. P(f, 0)
    BY <2>1
  <2> QED
    BY <2>2
<1>2. ASSUME NEW m \in Nat, m \in G PROVE m + 1 \in G
  <2> HIDE DEF W
  <2>1. PICK f : P(f, m)
    BY <1>2
  <2> DEFINE x == W(f[m], m + 1)
             g == [k \in 0 .. m + 1 |-> IF k <= m THEN f[k] ELSE x]
  <2>2. g = [k \in 0 .. m + 1 |-> g[k]] /\ g[0] = f[0]
    OBVIOUS
  <2> HIDE DEF x
  <2>3. ASSUME NEW k \in 1 .. m + 1 PROVE g[k] = W(g[k - 1], k)
    <3>1. CASE k <= m
      <4>1. k \in 1 .. m /\ g[k] = f[k] /\ g[k - 1] = f[k - 1]
        BY <3>1
      <4> HIDE DEF g
      <4> QED
        BY <2>1, <4>1
    <3>2. CASE ~(k <= m)
      <4>1. k = m + 1 /\ k - 1 = m /\ m + 1 \in 0 .. m + 1 /\ m \in 0 .. m + 1
            /\ ~(m + 1 <= m) /\ m <= m
        BY <3>2
      <4>2. g[m + 1] = x /\ g[m] = f[m]
        BY <4>1
      <4> HIDE DEF g
      <4> QED
        BY <4>1, <4>2 DEF x
    <3> QED
      BY <3>1, <3>2
  <2> HIDE DEF g
  <2>4. P(g, m + 1)
    BY <2>1, <2>2, <2>3
  <2> HIDE DEF P
  <2> QED
    BY <2>4
<1> HIDE DEF G
<1>3. n \in G
  BY <1>1, <1>2, Induction
<1>4. PICK f : P(f, n)
  BY <1>3 DEF G
<1> DEFINE Eq(g) == g = [k \in 0 .. n |-> IF k = 0 THEN r ELSE W(g[k - 1], k)]
           h == CHOOSE g : Eq(g)
<1>5. Eq(f)
  <2> HIDE DEF W
  <2>1. \A k \in 0 .. n : f[k] = IF k = 0 THEN r ELSE W(f[k - 1], k)
    <3> TAKE k \in 0 .. n
    <3>1. k # 0 => k \in 1 .. n
      OBVIOUS
    <3> QED
      BY <1>4, <3>1
  <2> QED
    BY <1>4, <2>1
<1>6. Eq(h)
  <2> HIDE DEF Eq
  <2> QED
    BY <1>5
<1>7. PackMemory(r, inits, finalizes, n) = h[n]
  BY DEF PackMemory
<1>8. \A k \in 0 .. n : h[k] = IF k = 0 THEN r ELSE W(h[k - 1], k)
  <2> HIDE DEF h, W
  <2> QED
    BY <1>6
<1> HIDE DEF h, Eq
<1>9. h[0] = r
  BY <1>8
<1>10. ASSUME NEW k \in 1 .. n PROVE h[k] = W(h[k - 1], k)
  <2>1. k \in 0 .. n /\ k # 0
    OBVIOUS
  <2> HIDE DEF W
  <2> QED
    BY <1>8, <2>1
<1>11. Packs(h, r, inits, finalizes, n)
  BY <1>9, <1>10 DEF Packs
<1> QED
  BY <1>7, <1>11

\* All memory chunks packed into a record that has no memory events.
LEMMA PackMemoryPart ==
  ASSUME NEW r, IsRecord(r), r.init = <<>>, r.finalize = <<>>, NEW S, NEW T,
         NEW inits \in Seq(Seq(S)), NEW finalizes \in Seq(Seq(T)),
         NEW n \in Nat, Len(inits) <= n, Len(finalizes) <= n
  PROVE  LET m == PackMemory(r, inits, finalizes, n)
         IN  /\ IsRecord(m) /\ m.precompile = r.precompile
             /\ m.init = FlattenSeq(inits) /\ m.finalize = FlattenSeq(finalizes)
<1> DEFINE m == PackMemory(r, inits, finalizes, n)
           a == Padded(inits, n)
           b == Padded(finalizes, n)
<1>1. PICK h : Packs(h, r, inits, finalizes, n) /\ m = h[n]
  BY PackMemoryLoop
<1>2. \A k \in 1 .. n : h[k] = WithMemory(h[k - 1], inits, finalizes, k)
  BY <1>1 DEF Packs
<1>3. /\ a \in Seq(Seq(S)) /\ Len(a) = n /\ FlattenSeq(a) = FlattenSeq(inits)
      /\ b \in Seq(Seq(T)) /\ Len(b) = n /\ FlattenSeq(b) = FlattenSeq(finalizes)
  BY PaddedFlatten
<1>4. \A k \in 1 .. n : /\ a[k] = ChunkAt(inits, k) /\ a[k] \in Seq(S)
                        /\ b[k] = ChunkAt(finalizes, k) /\ b[k] \in Seq(T)
  <2>1. \A k \in 1 .. n : a[k] = ChunkAt(inits, k) /\ b[k] = ChunkAt(finalizes, k)
    BY DEF Padded
  <2> HIDE DEF a, b
  <2> QED
    BY <1>3, <2>1
<1> HIDE DEF m, a, b
<1> DEFINE Good(k) == IsRecord(h[k]) /\ h[k].precompile = r.precompile
           G == {k \in Nat : k <= n => Good(k)}
<1>5. 0 \in G
  BY <1>1 DEF Packs
<1>6. ASSUME NEW k \in Nat, k \in G PROVE k + 1 \in G
  <2> SUFFICES ASSUME k + 1 <= n PROVE Good(k + 1)
    OBVIOUS
  <2>1. k <= n /\ k + 1 \in 1 .. n /\ (k + 1) - 1 = k
    OBVIOUS
  <2>2. Good(k)
    BY <1>6, <2>1
  <2>3. h[k + 1] = WithMemory(h[k], inits, finalizes, k + 1)
    BY <1>2, <2>1
  <2> DEFINE x == h[k]
  <2>4. IsRecord(x)
    BY <2>2
  <2> HIDE DEF x
  <2>5. /\ IsRecord(WithMemory(x, inits, finalizes, k + 1))
        /\ WithMemory(x, inits, finalizes, k + 1).precompile = x.precompile
    BY <2>4, WithMemoryPart
  <2> QED
    BY <2>2, <2>3, <2>5 DEF x
<1> HIDE DEF G
<1>7. ASSUME NEW k \in 0 .. n PROVE Good(k)
  <2>1. k \in Nat /\ k <= n
    OBVIOUS
  <2>2. \A j \in Nat : j \in G
    BY <1>5, <1>6, Induction
  <2> QED
    BY <2>1, <2>2 DEF G
<1>8. ASSUME NEW k \in 1 .. n
      PROVE  h[k].init = h[k - 1].init \o a[k] /\ h[k].finalize = h[k - 1].finalize \o b[k]
  <2>1. k - 1 \in 0 .. n
    OBVIOUS
  <2> DEFINE x == h[k - 1]
  <2>2. IsRecord(x) /\ h[k] = WithMemory(x, inits, finalizes, k)
    BY <1>2, <1>7, <2>1
  <2> HIDE DEF x
  <2>3. /\ WithMemory(x, inits, finalizes, k).init = x.init \o ChunkAt(inits, k)
        /\ WithMemory(x, inits, finalizes, k).finalize = x.finalize \o ChunkAt(finalizes, k)
    BY <2>2, WithMemoryPart
  <2> QED
    BY <1>4, <2>2, <2>3 DEF x
<1>9. IsRecord(m) /\ m.precompile = r.precompile
  BY <1>1, <1>7
<1>10. h[0] = r
  BY <1>1 DEF Packs
<1>11. CASE n = 0
  <2>1. a = <<>> /\ b = <<>>
    BY <1>3, <1>11, EmptySeq
  <2>2. FlattenSeq(inits) = <<>> /\ FlattenSeq(finalizes) = <<>>
    BY <1>3, <2>1, FlattenNothing
  <2>3. m = r
    BY <1>1, <1>10, <1>11
  <2> QED
    BY <1>9, <2>2, <2>3 DEF m
<1>12. CASE n # 0
  <2>0. a # <<>> /\ b # <<>> /\ 1 \in 1 .. n /\ n \in 1 .. n /\ 1 - 1 = 0
    BY <1>3, <1>12
  <2>1. h[1].init = a[1] /\ h[1].finalize = b[1]
    <3>1. h[1].init = r.init \o a[1] /\ h[1].finalize = r.finalize \o b[1]
      BY <1>8, <1>10, <2>0
    <3>2. a[1] \in Seq(S) /\ b[1] \in Seq(T)
      BY <1>4, <2>0
    <3>3. <<>> \o a[1] = a[1] /\ <<>> \o b[1] = b[1]
      BY <3>2
    <3> QED
      BY <3>1, <3>3
  <2> DEFINE f == [k \in 1 .. n |-> h[k].init]
             g == [k \in 1 .. n |-> h[k].finalize]
  <2>2. f[1] = a[1] /\ f[n] = m.init /\ g[1] = b[1] /\ g[n] = m.finalize
    BY <1>1, <2>0, <2>1
  <2>3. ASSUME NEW k \in 2 .. n PROVE f[k] = f[k - 1] \o a[k] /\ g[k] = g[k - 1] \o b[k]
    <3>1. k \in 1 .. n /\ k - 1 \in 1 .. n
      OBVIOUS
    <3>2. f[k] = h[k].init /\ f[k - 1] = h[k - 1].init /\ g[k] = h[k].finalize
          /\ g[k - 1] = h[k - 1].finalize
      BY <3>1
    <3> HIDE DEF f, g
    <3> QED
      BY <1>8, <3>1, <3>2
  <2> HIDE DEF f, g
  <2>4. Flattens(f, a, n) /\ Flattens(g, b, n)
    BY <2>2, <2>3 DEF Flattens
  <2>5. FlattenSeq(a) = f[n]
    BY <1>3, <2>0, <2>4, FlattensUnique
  <2>6. FlattenSeq(b) = g[n]
    BY <1>3, <2>0, <2>4, FlattensUnique
  <2> QED
    BY <1>3, <1>9, <2>2, <2>5, <2>6 DEF m
<1> QED
  BY <1>11, <1>12

\* Shards with nothing but the memory chunks.
LEMMA MemoryKeeps ==
  ASSUME NEW S, NEW T, NEW inits \in Seq(Seq(S)), NEW finalizes \in Seq(Seq(T)),
         NEW n \in Nat, Len(inits) <= n, Len(finalizes) <= n
  PROVE  LET ms == [k \in 1 .. n |-> WithMemory(NewRecord, inits, finalizes, k)]
         IN  /\ \A c \in Codes : Silent(ms, <<"precompile", c>>)
             /\ Carries(ms, <<"init">>, S) /\ Events(ms, <<"init">>) = FlattenSeq(inits)
             /\ Carries(ms, <<"finalize">>, T)
             /\ Events(ms, <<"finalize">>) = FlattenSeq(finalizes)
<1> DEFINE ms == [k \in 1 .. n |-> WithMemory(NewRecord, inits, finalizes, k)]
           a == Padded(inits, n)
           b == Padded(finalizes, n)
<1>1. /\ a \in Seq(Seq(S)) /\ Len(a) = n /\ FlattenSeq(a) = FlattenSeq(inits)
      /\ b \in Seq(Seq(T)) /\ Len(b) = n /\ FlattenSeq(b) = FlattenSeq(finalizes)
  BY PaddedFlatten
<1>2. /\ a = [k \in 1 .. n |-> a[k]] /\ b = [k \in 1 .. n |-> b[k]]
      /\ \A k \in 1 .. n : a[k] = ChunkAt(inits, k) /\ b[k] = ChunkAt(finalizes, k)
  BY DEF Padded
<1> HIDE DEF a, b
<1>3. \A k \in 1 .. n : a[k] \in Seq(S) /\ b[k] \in Seq(T)
  BY <1>1
<1>4. /\ IsRecord(NewRecord) /\ NewRecord.init = <<>> /\ NewRecord.finalize = <<>>
      /\ NewRecord.precompile = NoEvents
  BY DEF IsRecord, NewRecord
<1>5. ASSUME NEW k \in 1 .. n
      PROVE  /\ IsRecord(ms[k]) /\ ms[k].precompile = NoEvents
             /\ ms[k].init = a[k] /\ ms[k].finalize = b[k]
  <2>1. ms[k] = WithMemory(NewRecord, inits, finalizes, k)
    OBVIOUS
  <2> HIDE DEF ms
  <2>2. /\ IsRecord(ms[k]) /\ ms[k].precompile = NoEvents
        /\ ms[k].init = <<>> \o ChunkAt(inits, k) /\ ms[k].finalize = <<>> \o ChunkAt(finalizes, k)
    <3>1. PICK r : r = NewRecord
      OBVIOUS
    <3>2. IsRecord(r)
      BY <1>4, <3>1
    <3> DEFINE x == WithMemory(r, inits, finalizes, k)
    <3>3. /\ IsRecord(x) /\ x.precompile = r.precompile
          /\ x.init = r.init \o ChunkAt(inits, k)
          /\ x.finalize = r.finalize \o ChunkAt(finalizes, k)
      BY <3>2, WithMemoryPart
    <3> HIDE DEF x
    <3>4. ms[k] = x
      BY <2>1, <3>1 DEF x
    <3> QED
      BY <1>4, <3>1, <3>3, <3>4
  <2>3. <<>> \o a[k] = a[k] /\ <<>> \o b[k] = b[k]
    BY <1>3
  <2> QED
    BY <1>2, <2>2, <2>3
<1>6. IsSeq(ms) /\ DOMAIN ms = 1 .. n
  <2>1. ms \in [1 .. n -> Range(ms)] /\ DOMAIN ms = 1 .. n
    BY DEF Range
  <2> HIDE DEF ms
  <2> QED
    BY <2>1, FunctionIsSeq
<1> HIDE DEF ms
<1>7. ASSUME NEW c \in Codes PROVE Silent(ms, <<"precompile", c>>)
  <2>1. NoEvents[c] = <<>>
    BY DEF NoEvents
  <2>2. \A k \in 1 .. n : Quiet(ms[k], <<"precompile", c>>)
    BY <1>5, <2>1 DEF Quiet, Part
  <2> QED
    BY <1>6, <2>2 DEF Silent
<1>8. Carries(ms, <<"init">>, S) /\ Events(ms, <<"init">>) = FlattenSeq(inits)
  <2>1. \A k \in 1 .. n : Part(ms[k], <<"init">>) = a[k] /\ Holds(ms[k], <<"init">>, S)
    BY <1>3, <1>5 DEF Holds, Part
  <2>2. [k \in DOMAIN ms |-> Part(ms[k], <<"init">>)] = a
    BY <1>2, <1>6, <2>1
  <2> QED
    BY <1>1, <1>6, <2>1, <2>2 DEF Carries, Events
<1>9. Carries(ms, <<"finalize">>, T) /\ Events(ms, <<"finalize">>) = FlattenSeq(finalizes)
  <2>1. \A k \in 1 .. n : Part(ms[k], <<"finalize">>) = b[k] /\ Holds(ms[k], <<"finalize">>, T)
    BY <1>3, <1>5 DEF Holds, Part
  <2>2. [k \in DOMAIN ms |-> Part(ms[k], <<"finalize">>)] = b
    BY <1>2, <1>6, <2>1
  <2> QED
    BY <1>1, <1>6, <2>1, <2>2 DEF Carries, Events
<1> QED
  BY <1>7, <1>8, <1>9 DEF ms

\* The last record and the shards that split returns have the events x of kind k.
Gives(sp, k, S, x) ==
    /\ Carries(sp.lastRecord, k, S) /\ Carries(sp.shards, k, S)
    /\ Events(sp.lastRecord, k) \o Events(sp.shards, k) = x

\* A list of at most one record, which has no events.
Bare(lastRecord) ==
    \/ lastRecord = <<>>
    \/ /\ lastRecord = <<lastRecord[1]>>
       /\ \A k \in EventKinds : Quiet(lastRecord[1], k)

\* It has none of any kind.
LEMMA BareSilent ==
  ASSUME NEW lastRecord, Bare(lastRecord), NEW k \in EventKinds
  PROVE  Silent(lastRecord, k)
<1>1. CASE lastRecord = <<>>
  BY <1>1, EventsNone
<1>2. CASE lastRecord = <<lastRecord[1]>> /\ Quiet(lastRecord[1], k)
  <2>1. PICK x : x = lastRecord[1] /\ lastRecord = <<x>> /\ Quiet(x, k)
    BY <1>2
  <2>2. <<>> \in Seq({})
    OBVIOUS
  <2>3. Holds(x, k, {})
    BY <2>1, <2>2 DEF Holds, Quiet
  <2>4. Carries(<<x>>, k, {})
    BY <2>3, EventsOne
  <2> QED
    BY <2>1, <2>4, SilentCarries
<1> QED
  BY <1>1, <1>2 DEF Bare

\* Sorting and cutting into chunks.
LEMMA SortedChunks ==
  ASSUME NEW s, Len(s) \in Nat
  PROVE  LET t == SortByAddr(s)
         IN  /\ t \in Seq(Range(t)) /\ Chunks(t, MemoryChunk) \in Seq(Seq(Range(t)))
             /\ FlattenSeq(Chunks(t, MemoryChunk)) = t
             /\ Len(Chunks(t, MemoryChunk)) \in Nat
<1> DEFINE t == SortByAddr(s)
<1>1. t = [i \in 1 .. Len(s) |-> t[i]]
  BY DEF SortByAddr
<1> HIDE DEF t
<1>2. t \in [1 .. Len(s) -> Range(t)]
  BY <1>1 DEF Range
<1>3. t \in Seq(Range(t))
  BY <1>2, FunctionIsSeq
<1>4. MemoryChunk \in Nat \ {0}
  BY SplitAssumption
<1>5. /\ Chunks(t, MemoryChunk) \in Seq(Seq(Range(t)))
      /\ FlattenSeq(Chunks(t, MemoryChunk)) = t /\ Len(Chunks(t, MemoryChunk)) \in Nat
  BY <1>3, <1>4, ChunksFlatten
<1> QED
  BY <1>3, <1>5 DEF t

\* What two lists of events give, when one of them has none.
LEMMA GivesSilent ==
  ASSUME NEW sp, NEW k, NEW S, Silent(sp.lastRecord, k), Carries(sp.shards, k, S)
  PROVE  Gives(sp, k, S, Events(sp.shards, k))
<1> DEFINE x == Events(sp.shards, k)
<1>1. Carries(sp.lastRecord, k, S) /\ Events(sp.lastRecord, k) = <<>>
  BY EventsSilent
<1>2. x \in Seq(S)
  BY EventsType
<1>3. <<>> \o x = x
  <2> HIDE DEF x
  <2> QED
    BY <1>2
<1> QED
  BY <1>1, <1>3 DEF Gives

\* What split makes of the deferred events d: sp has or keeps all of them, in order, those
\* of memory sorted after the last batch.
SplitsAs(d, last, sp) ==
    /\ \A c \in Codes : \E x \in Seq(Event) :
          /\ Gives(sp, <<"precompile", c>>, Event, x)
          /\ x \o sp.deferred.precompile[c] = d.precompile[c]
    /\ ~last => /\ Gives(sp, <<"init">>, {}, <<>>) /\ Gives(sp, <<"finalize">>, {}, <<>>)
                /\ sp.deferred.init = d.init /\ sp.deferred.finalize = d.finalize
    /\ last => /\ \E S : Gives(sp, <<"init">>, S, SortByAddr(d.init))
               /\ \E S : Gives(sp, <<"finalize">>, S, SortByAddr(d.finalize))
               /\ \A c \in Codes : sp.deferred.precompile[c] = <<>>

\* split keeps every event: precompile events are in the shards or stay deferred, and at
\* the end all memory events are in the shards, sorted, or packed into the last record.
LEMMA SplitKeeps ==
  ASSUME NEW d \in DeferredRecord, NEW last \in BOOLEAN, NEW lastRecord, Bare(lastRecord),
         NEW order \in IterationOrders
  PROVE  SplitsAs(d, last, Split(d, last, lastRecord, order))
<1> DEFINE pre == PrecompileShards(d, last, order)
           sorted == [d EXCEPT !.precompile = Remainders(d, last),
                               !.init = IF last THEN SortByAddr(@) ELSE @,
                               !.finalize = IF last THEN SortByAddr(@) ELSE @]
           inits == Chunks(sorted.init, MemoryChunk)
           finalizes == Chunks(sorted.finalize, MemoryChunk)
           n == IF last THEN NumMemoryChunks(inits, finalizes) ELSE 0
           mem == [k \in 1 .. n |-> WithMemory(NewRecord, inits, finalizes, k)]
           pack == last /\ lastRecord # <<>> /\ pre = <<>>
           sp == Split(d, last, lastRecord, order)
           K(c) == <<"precompile", c>>
           I == <<"init">>
           F == <<"finalize">>
<1>1. SUFFICES
        /\ \A c \in Codes : \E x \in Seq(Event) :
              Gives(sp, K(c), Event, x) /\ x \o sp.deferred.precompile[c] = d.precompile[c]
        /\ ~last => /\ Gives(sp, I, {}, <<>>) /\ Gives(sp, F, {}, <<>>)
                    /\ sp.deferred.init = d.init /\ sp.deferred.finalize = d.finalize
        /\ last => /\ \E S : Gives(sp, I, S, SortByAddr(d.init))
                   /\ \E S : Gives(sp, F, S, SortByAddr(d.finalize))
                   /\ \A c \in Codes : sp.deferred.precompile[c] = <<>>
  BY Zenon DEF SplitsAs
<1>2. sp = IF pack
           THEN [shards |-> <<>>, deferred |-> sorted,
                 lastRecord |-> <<PackMemory(lastRecord[1], inits, finalizes, n)>>]
           ELSE [shards |-> pre \o mem, deferred |-> sorted, lastRecord |-> lastRecord]
  BY Zenon DEF Split
<1>3. /\ \A c \in Codes : d.precompile[c] \in Seq(Event)
      /\ Len(d.init) \in Nat /\ Len(d.finalize) \in Nat
  BY DEF DeferredRecord
<1>4. /\ sorted.precompile = Remainders(d, last)
      /\ sorted.init = IF last THEN SortByAddr(d.init) ELSE d.init
      /\ sorted.finalize = IF last THEN SortByAddr(d.finalize) ELSE d.finalize
  BY DEF DeferredRecord
<1>5. /\ \A c \in Codes : /\ Carries(pre, K(c), Event)
                          /\ Events(pre, K(c)) \o sorted.precompile[c] = d.precompile[c]
      /\ Silent(pre, I) /\ Silent(pre, F)
  <2> HIDE DEF sorted
  <2> QED
    BY <1>3, <1>4, PrecompileKeeps
<1>6. I \in EventKinds /\ F \in EventKinds /\ \A c \in Codes : K(c) \in EventKinds
  BY DEF EventKinds
<1>7. IsSeq(pre) /\ pre \o <<>> = pre
  <2>1. IsSeq(pre)
    BY <1>5 DEF Silent
  <2> HIDE DEF pre
  <2> QED
    BY <2>1, ConcatIsSeq
<1>8. last => \A c \in Codes : sorted.precompile[c] = <<>>
  BY <1>4 DEF Remainders
<1>9. last => LET S == Range(sorted.init)
                  T == Range(sorted.finalize)
              IN  /\ inits \in Seq(Seq(S)) /\ FlattenSeq(inits) = sorted.init
                  /\ finalizes \in Seq(Seq(T)) /\ FlattenSeq(finalizes) = sorted.finalize
                  /\ n \in Nat /\ Len(inits) <= n /\ Len(finalizes) <= n
  <2> SUFFICES ASSUME last
               PROVE  /\ inits \in Seq(Seq(Range(sorted.init))) /\ FlattenSeq(inits) = sorted.init
                      /\ finalizes \in Seq(Seq(Range(sorted.finalize)))
                      /\ FlattenSeq(finalizes) = sorted.finalize
                      /\ n \in Nat /\ Len(inits) <= n /\ Len(finalizes) <= n
    OBVIOUS
  <2>1. sorted.init = SortByAddr(d.init) /\ sorted.finalize = SortByAddr(d.finalize)
    BY <1>4
  <2> HIDE DEF sorted
  <2>2. /\ inits \in Seq(Seq(Range(sorted.init))) /\ FlattenSeq(inits) = sorted.init
        /\ Len(inits) \in Nat
    BY <1>3, <2>1, SortedChunks
  <2>3. /\ finalizes \in Seq(Seq(Range(sorted.finalize))) /\ FlattenSeq(finalizes) = sorted.finalize
        /\ Len(finalizes) \in Nat
    BY <1>3, <2>1, SortedChunks
  <2> HIDE DEF inits, finalizes
  <2>4. n \in Nat /\ Len(inits) <= n /\ Len(finalizes) <= n
    BY <2>2, <2>3 DEF NumMemoryChunks
  <2> QED
    BY <2>2, <2>3, <2>4
<1>10. ~last => mem = <<>>
  <2> SUFFICES ASSUME ~last PROVE mem = <<>>
    OBVIOUS
  <2>1. n = 0
    OBVIOUS
  <2> HIDE DEF n
  <2>2. DOMAIN mem = {}
    BY <2>1
  <2>3. mem \in [1 .. 0 -> {}]
    BY <2>1
  <2> HIDE DEF mem
  <2>4. mem \in Seq({}) /\ Len(mem) = 0
    BY <2>3, FunctionIsSeq
  <2> QED
    BY <2>4, EmptySeq
<1>11. last => LET S == Range(sorted.init)
                   T == Range(sorted.finalize)
               IN  /\ \A c \in Codes : Silent(mem, K(c))
                   /\ Carries(mem, I, S) /\ Events(mem, I) = sorted.init
                   /\ Carries(mem, F, T) /\ Events(mem, F) = sorted.finalize
  <2> HIDE DEF sorted, inits, finalizes, n
  <2> QED
    BY <1>9, MemoryKeeps
<1> HIDE DEF pre, sorted, inits, finalizes, n, mem, sp, K, I, F
<1>12. sp.deferred = sorted
  BY <1>2
<1>13. CASE ~last
  <2>1. sp.shards = pre /\ sp.lastRecord = lastRecord
    BY <1>2, <1>7, <1>10, <1>13
  <2>2. ASSUME NEW c \in Codes
        PROVE  \E x \in Seq(Event) : /\ Gives(sp, K(c), Event, x)
                                     /\ x \o sp.deferred.precompile[c] = d.precompile[c]
    <3>1. Silent(sp.lastRecord, K(c))
      BY <1>6, <2>1, BareSilent
    <3>2. Gives(sp, K(c), Event, Events(pre, K(c)))
      BY <1>5, <2>1, <3>1, GivesSilent
    <3>3. Events(pre, K(c)) \in Seq(Event)
      BY <1>5, EventsType
    <3> QED
      BY <1>5, <1>12, <3>2, <3>3
  <2>3. ASSUME NEW k \in {I, F} PROVE Gives(sp, k, {}, <<>>)
    <3>1. Silent(sp.lastRecord, k) /\ Silent(sp.shards, k)
      BY <1>5, <1>6, <2>1, BareSilent
    <3>2. Carries(sp.shards, k, {}) /\ Events(sp.shards, k) = <<>>
      BY <3>1, EventsSilent
    <3> QED
      BY <3>1, <3>2, GivesSilent
  <2>4. sp.deferred.init = d.init /\ sp.deferred.finalize = d.finalize
    BY <1>4, <1>12, <1>13
  <2> QED
    BY <1>13, <2>2, <2>3, <2>4 DEF sp, K, I, F
<1>14. CASE last /\ ~pack
  <2>1. sp.shards = pre \o mem /\ sp.lastRecord = lastRecord
    BY <1>2, <1>14
  <2>2. ASSUME NEW c \in Codes
        PROVE  \E x \in Seq(Event) : /\ Gives(sp, K(c), Event, x)
                                     /\ x \o sp.deferred.precompile[c] = d.precompile[c]
    <3>1. Silent(sp.lastRecord, K(c))
      BY <1>6, <2>1, BareSilent
    <3>2. Silent(mem, K(c))
      BY <1>11, <1>14
    <3>3. Carries(mem, K(c), Event) /\ Events(mem, K(c)) = <<>>
      BY <3>2, EventsSilent
    <3>4. AddsUp(pre, mem, K(c), Event)
      BY <1>5, <3>3, EventsConcat
    <3>5. Events(pre, K(c)) \in Seq(Event)
      BY <1>5, EventsType
    <3>6. Events(pre, K(c)) \o <<>> = Events(pre, K(c))
      BY <3>5
    <3>7. Carries(sp.shards, K(c), Event) /\ Events(sp.shards, K(c)) = Events(pre, K(c))
      BY <2>1, <3>3, <3>4, <3>6 DEF AddsUp
    <3>8. Gives(sp, K(c), Event, Events(pre, K(c)))
      BY <3>1, <3>7, GivesSilent
    <3> QED
      BY <1>5, <1>12, <3>5, <3>8
  <2>3. ASSUME NEW k \in {I, F}, NEW S, Carries(mem, k, S), NEW x, Events(mem, k) = x
        PROVE  Gives(sp, k, S, x)
    <3>1. Silent(sp.lastRecord, k) /\ Silent(pre, k)
      BY <1>5, <1>6, <2>1, BareSilent
    <3>2. Carries(pre, k, S) /\ Events(pre, k) = <<>>
      BY <3>1, EventsSilent
    <3>3. AddsUp(pre, mem, k, S)
      BY <2>3, <3>2, EventsConcat
    <3>4. x \in Seq(S)
      BY <2>3, EventsType
    <3>5. <<>> \o x = x
      BY <3>4
    <3>6. Carries(sp.shards, k, S) /\ Events(sp.shards, k) = x
      BY <2>1, <2>3, <3>2, <3>3, <3>5 DEF AddsUp
    <3> QED
      BY <3>1, <3>6, GivesSilent
  <2>4. /\ Gives(sp, I, Range(sorted.init), SortByAddr(d.init))
        /\ Gives(sp, F, Range(sorted.finalize), SortByAddr(d.finalize))
    BY <1>4, <1>11, <1>14, <2>3
  <2> QED
    BY <1>8, <1>12, <1>14, <2>2, <2>4 DEF sp, K, I, F
<1>15. CASE pack
  <2> DEFINE r == lastRecord[1]
             m == PackMemory(r, inits, finalizes, n)
  <2>1. sp.shards = <<>> /\ sp.lastRecord = <<m>>
    BY <1>2, <1>15
  <2>2. \A k \in EventKinds : Quiet(r, k)
    BY <1>15 DEF Bare
  <2>3. IsRecord(r) /\ r.init = <<>> /\ r.finalize = <<>>
    BY <1>6, <2>2 DEF Quiet, Part, I, F
  <2> HIDE DEF r
  <2>4. /\ IsRecord(m) /\ m.precompile = r.precompile
        /\ m.init = sorted.init /\ m.finalize = sorted.finalize
    BY <1>9, <1>15, <2>3, PackMemoryPart
  <2> HIDE DEF m
  <2>5. ASSUME NEW k, NEW S, NEW x, Part(m, k) = x, x \in Seq(S)
        PROVE  Gives(sp, k, S, x)
    <3>1. Holds(m, k, S)
      BY <2>4, <2>5 DEF Holds
    <3>2. Carries(<<m>>, k, S) /\ Events(<<m>>, k) = x
      BY <2>5, <3>1, EventsOne
    <3>3. Carries(<<>>, k, S) /\ Events(<<>>, k) = <<>>
      BY EventsNone, EventsSilent
    <3>4. x \o <<>> = x
      BY <2>5
    <3> QED
      BY <2>1, <3>2, <3>3, <3>4 DEF Gives
  <2>6. ASSUME NEW c \in Codes
        PROVE  /\ Gives(sp, K(c), Event, <<>>)
               /\ <<>> \o sp.deferred.precompile[c] = d.precompile[c]
    <3>1. Part(m, K(c)) = Part(r, K(c))
      BY <2>4 DEF Part, K
    <3>2. Part(m, K(c)) = <<>>
      BY <1>6, <2>2, <3>1 DEF Quiet
    <3>3. <<>> \in Seq(Event)
      OBVIOUS
    <3>4. Gives(sp, K(c), Event, <<>>)
      BY <2>5, <3>2, <3>3
    <3>5. Events(pre, K(c)) = <<>>
      BY <1>15, EventsNone
    <3> QED
      BY <1>5, <1>12, <3>4, <3>5
  <2>7. /\ sorted.init \in Seq(Range(sorted.init))
        /\ sorted.finalize \in Seq(Range(sorted.finalize))
    BY <1>3, <1>4, <1>15, SortedChunks
  <2>8. Part(m, I) = sorted.init /\ Part(m, F) = sorted.finalize
    BY <2>4 DEF Part, I, F
  <2>9. Gives(sp, I, Range(sorted.init), SortByAddr(d.init))
    BY <1>4, <1>15, <2>5, <2>7, <2>8
  <2>10. Gives(sp, F, Range(sorted.finalize), SortByAddr(d.finalize))
    BY <1>4, <1>15, <2>5, <2>7, <2>8
  <2>11. <<>> \in Seq(Event)
    OBVIOUS
  <2> QED
    BY <1>8, <1>12, <1>15, <2>6, <2>9, <2>10, <2>11 DEF sp, K, I, F
<1> QED
  BY <1>13, <1>14, <1>15

-----------------------------------------------------------------------------
(* The loop keeps every event. *)

WithPv(r, pv) == [r EXCEPT !.pv = pv]

\* The public values of a record do not matter.
LEMMA PvOnly ==
  ASSUME NEW r, IsRecord(r), NEW pv
  PROVE  LET t == WithPv(r, pv)
         IN  IsRecord(t) /\ \A k : Part(t, k) = Part(r, k)
<1> DEFINE t == [r EXCEPT !.pv = pv]
<1>1. t = [cpu |-> r.cpu, precompile |-> r.precompile, init |-> r.init,
           finalize |-> r.finalize, pv |-> pv]
  BY DEF IsRecord
<1> HIDE DEF t
<1>2. /\ IsRecord(t) /\ t.precompile = r.precompile
      /\ t.init = r.init /\ t.finalize = r.finalize
  BY <1>1 DEF IsRecord
<1>3. \A k : Part(t, k) = Part(r, k)
  BY <1>2 DEF Part
<1> QED
  BY <1>2, <1>3 DEF t, WithPv

\* Numbering the shards that split made keeps their events.
LEMMA NumberDeferredKeeps ==
  ASSUME NEW s, NEW done, NEW shards, NEW k, NEW S, Carries(shards, k, S)
  PROVE  LET r == NumberDeferredRecords(s, done, shards).records
         IN  Carries(r, k, S) /\ Events(r, k) = Events(shards, k)
<1> DEFINE first == IF done THEN s ELSE [s EXCEPT !.execution_shard = @ + 1]
           after == CHOOSE g : g = [i \in 0 .. Len(shards) |->
                        IF i = 0 THEN first ELSE NumberDeferredRecord(g[i - 1], shards[i])]
           r == NumberDeferredRecords(s, done, shards).records
<1>1. r = [i \in DOMAIN shards |-> [shards[i] EXCEPT !.pv = after[i]]]
  BY DEF NumberDeferredRecords
<1>2. IsSeq(r)
  BY NumberDeferredIsSeq DEF Carries
<1> HIDE DEF after, r
<1>3. DOMAIN r = DOMAIN shards
  BY <1>1
<1>4. ASSUME NEW i \in DOMAIN shards
      PROVE  Part(r[i], k) = Part(shards[i], k) /\ Holds(r[i], k, S)
  <2> DEFINE x == shards[i]
  <2>1. PICK pv : r[i] = WithPv(x, pv)
    BY <1>1 DEF WithPv
  <2>2. Holds(x, k, S)
    BY DEF Carries
  <2> HIDE DEF x
  <2>3. IsRecord(x) /\ Part(x, k) \in Seq(S)
    BY <2>2 DEF Holds
  <2>4. IsRecord(r[i]) /\ Part(r[i], k) = Part(x, k)
    BY <2>1, <2>3, PvOnly
  <2> QED
    BY <2>3, <2>4 DEF Holds, x
<1>5. Carries(r, k, S)
  BY <1>2, <1>3, <1>4 DEF Carries
<1>6. Events(r, k) = Events(shards, k)
  BY <1>3, <1>4, EventsSame
<1> QED
  BY <1>5, <1>6 DEF r

\* So does numbering the records of a batch.
LEMMA NumberCpuKeeps ==
  ASSUME NEW s, NEW b \in Seq(Record)
  PROVE  LET r == NumberCpuRecords(s, b).records
         IN  /\ IsSeq(r) /\ DOMAIN r = DOMAIN b /\ Len(r) = Len(b)
             /\ \A i \in DOMAIN b : IsRecord(r[i])
             /\ \A k : Events(r, k) = Events(b, k)
<1> DEFINE after == CHOOSE g : g = [i \in 0 .. Len(b) |->
                        IF i = 0 THEN s ELSE NumberCpuRecord(g[i - 1], b[i])]
           r == NumberCpuRecords(s, b).records
<1>1. r = [i \in DOMAIN b |-> [b[i] EXCEPT !.pv = after[i]]]
  BY DEF NumberCpuRecords
<1> HIDE DEF after, r
<1>2. IsSeq(b) /\ DOMAIN b = 1 .. Len(b) /\ \A i \in 1 .. Len(b) : b[i] \in Record
  BY SeqIsSeq
<1>3. IsSeq(r) /\ DOMAIN r = DOMAIN b /\ Len(r) = Len(b)
  <2>1. r = [i \in DOMAIN b |-> r[i]]
    BY <1>1
  <2> QED
    BY <1>2, <2>1, SameDomain
<1>4. ASSUME NEW i \in DOMAIN b
      PROVE  IsRecord(r[i]) /\ \A k : Part(r[i], k) = Part(b[i], k)
  <2> DEFINE x == b[i]
  <2>1. PICK pv : r[i] = WithPv(x, pv)
    BY <1>1 DEF WithPv
  <2>2. x \in Record
    BY <1>2
  <2> HIDE DEF x
  <2>3. IsRecord(x)
    BY <2>2 DEF Record, IsRecord
  <2>4. IsRecord(r[i]) /\ \A k : Part(r[i], k) = Part(x, k)
    BY <2>1, <2>3, PvOnly
  <2> QED
    BY <2>4 DEF x
<1>5. ASSUME NEW k PROVE Events(r, k) = Events(b, k)
  BY <1>3, <1>4, EventsSame
<1> QED
  BY <1>3, <1>4, <1>5 DEF r

\* The events of the records of a batch.
LEMMA BatchCarries ==
  ASSUME NEW b \in Seq(Record)
  PROVE  /\ \A c \in Codes : Carries(b, <<"precompile", c>>, Event)
         /\ Carries(b, <<"init">>, Nat) /\ Carries(b, <<"finalize">>, Nat)
<1>1. IsSeq(b) /\ DOMAIN b = 1 .. Len(b) /\ \A i \in 1 .. Len(b) : b[i] \in Record
  BY SeqIsSeq
<1>2. ASSUME NEW r \in Record
      PROVE  /\ \A c \in Codes : Holds(r, <<"precompile", c>>, Event)
             /\ Holds(r, <<"init">>, Nat) /\ Holds(r, <<"finalize">>, Nat)
  <2>1. /\ IsRecord(r) /\ \A c \in Codes : r.precompile[c] \in Seq(Event)
        /\ r.init \in Seq(Nat) /\ r.finalize \in Seq(Nat)
    BY DEF Record, IsRecord
  <2> QED
    BY <2>1 DEF Holds, Part
<1> QED
  BY <1>1, <1>2 DEF Carries

\* Deferring appends the events of the batch to those deferred before.
LEMMA DeferKeeps ==
  ASSUME NEW d \in DeferredRecord, NEW s, NEW b \in Seq(Record)
  PROVE  LET e == DeferAll(d, NumberCpuRecords(s, b).records)
         IN  /\ \A c \in Codes :
                   e.precompile[c] = d.precompile[c] \o Events(b, <<"precompile", c>>)
             /\ e.init = d.init \o Events(b, <<"init">>)
             /\ e.finalize = d.finalize \o Events(b, <<"finalize">>)
<1> DEFINE r == NumberCpuRecords(s, b).records
           f == Deferred(r)
           e == DeferAll(d, r)
<1>1. \A k : Events(r, k) = Events(b, k)
  BY NumberCpuKeeps
<1> HIDE DEF r
<1>2. /\ \A c \in Codes : f.precompile[c] = Events(b, <<"precompile", c>>)
      /\ f.init = Events(b, <<"init">>) /\ f.finalize = Events(b, <<"finalize">>)
  <2>1. /\ f.precompile = [c \in Codes |-> PrecompileEvents(r, c)]
        /\ f.init = InitEvents(r) /\ f.finalize = FinalizeEvents(r)
    BY DEF Deferred, NewRecord
  <2>2. /\ \A c : PrecompileEvents(r, c) = Events(r, <<"precompile", c>>)
        /\ InitEvents(r) = Events(r, <<"init">>) /\ FinalizeEvents(r) = Events(r, <<"finalize">>)
    BY EventsOf
  <2> HIDE DEF f
  <2> QED
    BY <1>1, <2>1, <2>2
<1> HIDE DEF f
<1>3. /\ e.precompile = [c \in Codes |-> d.precompile[c] \o f.precompile[c]]
      /\ e.init = d.init \o f.init /\ e.finalize = d.finalize \o f.finalize
  BY DEF DeferAll, Append2, DeferredRecord, f
<1> HIDE DEF e
<1> QED
  BY <1>2, <1>3 DEF e, r

\* A record whose events were deferred.
LEMMA AfterDeferQuiet ==
  ASSUME NEW x, IsRecord(x)
  PROVE  \A k \in EventKinds : Quiet(AfterDefer(x), k)
<1> DEFINE y == AfterDefer(x)
           a == [x EXCEPT !.precompile = NoEvents]
           b == [a EXCEPT !.init = <<>>]
<1>1. y = [b EXCEPT !.finalize = <<>>]
  BY DEF AfterDefer
<1>2. y = [cpu |-> x.cpu, precompile |-> NoEvents, init |-> <<>>, finalize |-> <<>>, pv |-> x.pv]
  <2> HIDE DEF y
  <2>1. a = [cpu |-> x.cpu, precompile |-> NoEvents, init |-> x.init, finalize |-> x.finalize,
             pv |-> x.pv]
    BY DEF IsRecord
  <2> HIDE DEF a
  <2>2. b = [cpu |-> x.cpu, precompile |-> NoEvents, init |-> <<>>, finalize |-> x.finalize,
             pv |-> x.pv]
    BY <2>1
  <2> HIDE DEF b
  <2> QED
    BY <1>1, <2>2
<1> HIDE DEF y
<1>3. IsRecord(y) /\ y.precompile = NoEvents /\ y.init = <<>> /\ y.finalize = <<>>
  BY <1>2 DEF IsRecord
<1>4. ASSUME NEW k \in EventKinds PROVE Part(y, k) = <<>>
  BY <1>3 DEF Part, EventKinds, NoEvents
<1> QED
  BY <1>3, <1>4 DEF Quiet, y

\* The records of a batch whose events were deferred.
LEMMA CpuSilent ==
  ASSUME NEW o, NEW n \in 0 .. NumBatches - 1
  PROVE  /\ \A k \in EventKinds : Silent(CpuShards(o, n), k)
         /\ Done(n) => CpuShards(o, n) # <<>>
<1> DEFINE b == Batches[n + 1]
           r == NumberCpuRecords(o.state, b).records
           cpu == CpuShards(o, n)
<1>1. b \in Seq(Record) /\ (Done(n) => b # <<>>)
  <2>1. Batches \in Seq(Seq(Record)) /\ Len(Batches) \in Nat /\ Last(Batches) # <<>>
    BY PipelineAssumption
  <2>2. n + 1 \in 1 .. Len(Batches) /\ (Done(n) => n + 1 = Len(Batches))
    BY <2>1 DEF NumBatches, Done
  <2>3. b \in Seq(Record)
    BY <2>1, <2>2
  <2> QED
    BY <2>1, <2>2, <2>3 DEF Last
<1> HIDE DEF b
<1>2. /\ IsSeq(r) /\ DOMAIN r = DOMAIN b /\ Len(r) = Len(b)
      /\ \A i \in DOMAIN b : IsRecord(r[i])
  BY <1>1, NumberCpuKeeps
<1>3. r = Numbered(o, n).records
  BY DEF Numbered, b
<1>4. cpu = [i \in DOMAIN r |-> AfterDefer(r[i])]
  BY <1>3 DEF CpuShards
<1> HIDE DEF r, cpu
<1>5. IsSeq(cpu) /\ DOMAIN cpu = DOMAIN r /\ Len(cpu) = Len(r)
  <2>1. cpu = [i \in DOMAIN r |-> cpu[i]]
    BY <1>4
  <2> QED
    BY <1>2, <2>1, SameDomain
<1>6. \A x : IsRecord(x) => \A k \in EventKinds : Quiet(AfterDefer(x), k)
  BY AfterDeferQuiet
<1>7. ASSUME NEW k \in EventKinds PROVE Silent(cpu, k)
  <2>1. ASSUME NEW i \in DOMAIN cpu PROVE Quiet(cpu[i], k)
    <3>1. cpu[i] = AfterDefer(r[i]) /\ IsRecord(r[i])
      BY <1>2, <1>4, <1>5
    <3> QED
      BY <1>6, <3>1
  <2> QED
    BY <1>5, <2>1 DEF Silent
<1>8. Done(n) => cpu # <<>>
  <2> SUFFICES ASSUME Done(n), cpu = <<>> PROVE FALSE
    OBVIOUS
  <2>1. Len(cpu) = 0 /\ Len(b) = 0 /\ b \in Seq(Record)
    BY <1>1, <1>2, <1>5
  <2>2. b = <<>>
    BY <2>1, EmptySeq
  <2> QED
    BY <1>1, <2>2
<1> QED
  BY <1>7, <1>8 DEF cpu

\* All but the last of such records, and the last one.
LEMMA FrontSilent ==
  ASSUME NEW s, s # <<>>, \A k \in EventKinds : Silent(s, k)
  PROVE  (\A k \in EventKinds : Silent(Front(s), k)) /\ Bare(<<Last(s)>>)
<1>1. <<"init">> \in EventKinds
  BY DEF EventKinds
<1>2. IsSeq(s)
  BY <1>1 DEF Silent
<1>3. Len(s) \in Nat /\ DOMAIN s = 1 .. Len(s) /\ s \in Seq(Range(s))
  BY <1>2, SeqIsSeq DEF IsSeq
<1>4. Len(s) # 0
  BY <1>3, EmptySeq
<1> DEFINE f == Front(s)
           T == Range(s)
<1>5. IsSeq(f) /\ DOMAIN f = 1 .. Len(s) - 1 /\ \A i \in 1 .. Len(s) - 1 : f[i] = s[i]
  <2>1. IsSeq(f)
    BY <1>2, FrontIsSeq
  <2>2. s \in Seq(T)
    BY <1>3
  <2> HIDE DEF T
  <2>3. DOMAIN f = 1 .. Len(s) - 1 /\ \A i \in 1 .. Len(s) - 1 : f[i] = s[i]
    BY <1>3, <1>4, <2>2 DEF Front
  <2> QED
    BY <2>1, <2>3
<1> HIDE DEF f
<1>6. \A i \in 1 .. Len(s) - 1 : i \in DOMAIN s
  BY <1>3
<1>7. ASSUME NEW k \in EventKinds PROVE Silent(f, k)
  BY <1>5, <1>6 DEF Silent
<1>8. Len(s) \in DOMAIN s
  BY <1>3, <1>4
<1>9. \A k \in EventKinds : Quiet(Last(s), k)
  BY <1>8 DEF Silent, Last
<1>10. Bare(<<Last(s)>>)
  <2>1. PICK x : x = Last(s) /\ <<x>>[1] = x
    OBVIOUS
  <2>2. <<x>> = <<(<<x>>)[1]>> /\ \A k \in EventKinds : Quiet((<<x>>)[1], k)
    BY <1>9, <2>1
  <2>3. Bare(<<x>>)
    BY <2>2 DEF Bare
  <2> QED
    BY <2>1, <2>3
<1> QED
  BY <1>7, <1>10 DEF f

\* The shards of an iteration come after those before it, with the events split gave.
LEMMA WithSplitEvents ==
  ASSUME NEW a, NEW cpu, NEW sp, NEW s, NEW done, NEW k, NEW S, NEW x,
         Carries(a, k, S), Silent(cpu, k), Gives(sp, k, S, x)
  PROVE  LET r == NumberDeferredRecords(s, done, sp.shards).records
             t == a \o (cpu \o sp.lastRecord \o r)
         IN  Carries(t, k, S) /\ Events(t, k) = Events(a, k) \o x /\ x \in Seq(S)
<1> DEFINE r == NumberDeferredRecords(s, done, sp.shards).records
           l == sp.lastRecord
           u == cpu \o l
           v == u \o r
           t == a \o v
<1>1. Carries(l, k, S) /\ Carries(sp.shards, k, S) /\ Events(l, k) \o Events(sp.shards, k) = x
  BY DEF Gives
<1>2. Carries(r, k, S) /\ Events(r, k) = Events(sp.shards, k)
  BY <1>1, NumberDeferredKeeps
<1>3. Carries(cpu, k, S) /\ Events(cpu, k) = <<>>
  BY EventsSilent
<1> HIDE DEF r, l
<1>4. Events(l, k) \in Seq(S) /\ Events(r, k) \in Seq(S)
  BY <1>1, <1>2, EventsType
<1>5. AddsUp(cpu, l, k, S)
  BY <1>1, <1>3, EventsConcat
<1>6. Carries(u, k, S) /\ Events(u, k) = Events(l, k)
  <2>1. <<>> \o Events(l, k) = Events(l, k)
    BY <1>4
  <2> QED
    BY <1>3, <1>5, <2>1 DEF AddsUp
<1> HIDE DEF u
<1>7. AddsUp(u, r, k, S)
  BY <1>2, <1>6, EventsConcat
<1>8. Carries(v, k, S) /\ Events(v, k) = x
  BY <1>1, <1>2, <1>6, <1>7 DEF AddsUp
<1>9. x \in Seq(S)
  BY <1>8, EventsType
<1> HIDE DEF v
<1>10. AddsUp(a, v, k, S)
  BY <1>8, EventsConcat
<1>11. Carries(t, k, S) /\ Events(t, k) = Events(a, k) \o x
  BY <1>8, <1>10 DEF AddsUp
<1> QED
  BY <1>9, <1>11 DEF t, v, u, r, l

-----------------------------------------------------------------------------

\* The events of the first n batches.
Executed(n, k) == FlattenSeq(EachEvents(Batches, n, k))

\* One more batch.
LEMMA ExecutedNext ==
  ASSUME NEW n \in 0 .. NumBatches - 1, NEW k, NEW S,
         \A i \in 1 .. NumBatches : Carries(Batches[i], k, S)
  PROVE  /\ Executed(n, k) \in Seq(S) /\ Executed(0, k) = <<>>
         /\ Events(Batches[n + 1], k) \in Seq(S)
         /\ Executed(n + 1, k) = Executed(n, k) \o Events(Batches[n + 1], k)
<1>1. NumBatches \in Nat /\ n \in Nat /\ n + 1 \in 1 .. NumBatches
  BY PipelineAssumption DEF NumBatches
<1> DEFINE Ev(i) == Events(Batches[i], k)
           e == EachEvents(Batches, n, k)
           g == EachEvents(Batches, n + 1, k)
<1>2. ASSUME NEW i \in 1 .. NumBatches PROVE Ev(i) \in Seq(S)
  BY EventsType
<1>3. /\ e = [i \in 1 .. n |-> Ev(i)] /\ g = [i \in 1 .. n + 1 |-> Ev(i)]
      /\ EachEvents(Batches, 0, k) = [i \in 1 .. 0 |-> Ev(i)]
  BY DEF EachEvents
<1> HIDE DEF Ev, e, g
<1>4. \A i \in 1 .. n + 1 : Ev(i) \in Seq(S)
  BY <1>1, <1>2
<1>5. e \in Seq(Seq(S)) /\ Len(e) = n
  <2>1. e \in [1 .. n -> Seq(S)]
    BY <1>1, <1>3, <1>4
  <2> QED
    BY <1>1, <2>1, FunctionIsSeq
<1>6. g \in Seq(Seq(S)) /\ Len(g) = n + 1
  <2>1. g \in [1 .. n + 1 -> Seq(S)] /\ n + 1 \in Nat
    BY <1>1, <1>3, <1>4
  <2> QED
    BY <2>1, FunctionIsSeq
<1>7. n + 1 \in 1 .. n + 1
  BY <1>1
<1>8. g = Append(e, Ev(n + 1))
  <2> DEFINE T == Seq(S)
             x == Ev(n + 1)
  <2>1. e \in Seq(T) /\ g \in Seq(T) /\ x \in T
    BY <1>4, <1>5, <1>6, <1>7
  <2>2. g[n + 1] = x /\ \A i \in 1 .. n : g[i] = e[i]
    BY <1>1, <1>3, <1>7
  <2> HIDE DEF T, x
  <2>3. /\ Append(e, x) \in Seq(T) /\ Len(Append(e, x)) = n + 1 /\ Append(e, x)[n + 1] = x
        /\ \A i \in 1 .. n : Append(e, x)[i] = e[i]
    BY <1>1, <1>5, <2>1
  <2>4. \A i \in 1 .. n + 1 : i = n + 1 \/ i \in 1 .. n
    BY <1>1
  <2>5. \A i \in 1 .. n + 1 : g[i] = Append(e, x)[i]
    BY <2>2, <2>3, <2>4
  <2>6. g = Append(e, x)
    BY <1>6, <2>1, <2>3, <2>5, SeqEqual
  <2> QED
    BY <2>6 DEF x
<1>9. FlattenSeq(g) = FlattenSeq(e) \o Ev(n + 1)
  BY <1>4, <1>5, <1>7, <1>8, FlattenAppend
<1>10. FlattenSeq(e) \in Seq(S)
  BY <1>5, FlattenType
<1>11. Executed(0, k) = <<>>
  <2>1. EachEvents(Batches, 0, k) = [i \in 1 .. 0 |-> <<>>]
    BY <1>3
  <2>2. FlattenSeq(EachEvents(Batches, 0, k)) = <<>>
    BY <2>1, FlattenSilent
  <2> QED
    BY <2>2 DEF Executed
<1> QED
  BY <1>4, <1>7, <1>9, <1>10, <1>11 DEF Executed, Ev, e, g

\* The events of n batches are where they belong: those of the precompiles in the shards or
\* deferred, those of memory deferred up to the last batch and then sorted in the shards.
KeepsCode(o, n, c) ==
    LET k == <<"precompile", c>>
    IN  /\ Carries(o.shards, k, Event)
        /\ Events(o.shards, k) \o o.deferred.precompile[c] = Executed(n, k)
        /\ n = NumBatches => o.deferred.precompile[c] = <<>>
KeepsMemory(o, n, k, d) ==
    /\ n < NumBatches => Silent(o.shards, k) /\ d = Executed(n, k)
    /\ n = NumBatches => Events(o.shards, k) = SortByAddr(Executed(n, k))
Kept(o, n) ==
    /\ \A c \in Codes : KeepsCode(o, n, c)
    /\ KeepsMemory(o, n, <<"init">>, o.deferred.init)
    /\ KeepsMemory(o, n, <<"finalize">>, o.deferred.finalize)

\* The batches are lists of records.
LEMMA BatchesCarry ==
  ASSUME NEW i \in 1 .. NumBatches
  PROVE  /\ Batches[i] \in Seq(Record)
         /\ \A c \in Codes : Carries(Batches[i], <<"precompile", c>>, Event)
         /\ Carries(Batches[i], <<"init">>, Nat) /\ Carries(Batches[i], <<"finalize">>, Nat)
<1>1. Batches \in Seq(Seq(Record)) /\ i \in 1 .. Len(Batches)
  BY PipelineAssumption DEF NumBatches
<1>2. Batches[i] \in Seq(Record)
  BY <1>1
<1> QED
  BY <1>2, BatchCarries

\* Cutting the iteration off: what it splits and what it appends.
Iterates(o, n, cpu, l, order, o2) ==
    /\ \A k \in EventKinds : Silent(cpu, k)
    /\ Bare(l) /\ order \in IterationOrders /\ o2 = WithSplit(o, n, cpu, l, order)

LEMMA BatchIterates ==
  ASSUME NEW o, NEW n \in 0 .. NumBatches - 1, NEW o2 \in BatchOutcomes(o, n)
  PROVE  \E cpu, l, order : Iterates(o, n, cpu, l, order, o2)
<1> DEFINE cpu == CpuShards(o, n)
<1>1. /\ \A k \in EventKinds : Silent(cpu, k)
      /\ Done(n) => cpu # <<>>
  BY CpuSilent
<1>2. \/ \E order \in IterationOrders : o2 = WithSplit(o, n, cpu, <<>>, order)
      \/ /\ Done(n)
         /\ \E order \in IterationOrders : o2 = WithSplit(o, n, Front(cpu), <<Last(cpu)>>, order)
  BY Zenon DEF BatchOutcomes, MayPack
<1> HIDE DEF cpu
<1>3. CASE \E order \in IterationOrders : o2 = WithSplit(o, n, cpu, <<>>, order)
  <2>1. PICK order \in IterationOrders : o2 = WithSplit(o, n, cpu, <<>>, order)
    BY <1>3
  <2>2. Bare(<<>>)
    BY DEF Bare
  <2>3. Iterates(o, n, cpu, <<>>, order, o2)
    BY <1>1, <2>1, <2>2, Zenon DEF Iterates
  <2> QED
    BY <2>3, Zenon
<1>4. CASE /\ Done(n)
           /\ \E order \in IterationOrders : o2 = WithSplit(o, n, Front(cpu), <<Last(cpu)>>, order)
  <2>1. PICK order \in IterationOrders : o2 = WithSplit(o, n, Front(cpu), <<Last(cpu)>>, order)
    BY <1>4
  <2>2. (\A k \in EventKinds : Silent(Front(cpu), k)) /\ Bare(<<Last(cpu)>>)
    BY <1>1, <1>4, FrontSilent
  <2>3. Iterates(o, n, Front(cpu), <<Last(cpu)>>, order, o2)
    BY <2>1, <2>2, Zenon DEF Iterates
  <2> QED
    BY <2>3, Zenon
<1> QED
  BY <1>2, <1>3, <1>4

\* The shards after an iteration, and that they have the events x more than those before.
AfterIteration(a, cpu, sp, s, done) ==
    a \o (cpu \o sp.lastRecord \o NumberDeferredRecords(s, done, sp.shards).records)
Adds(a, t, k, S, x) == Carries(t, k, S) /\ Events(t, k) = Events(a, k) \o x /\ x \in Seq(S)

\* They do.
LEMMA IterationAdds ==
  ASSUME NEW a, NEW cpu, NEW sp, NEW s, NEW done, NEW k, NEW S, NEW x,
         Carries(a, k, S), Silent(cpu, k), Gives(sp, k, S, x)
  PROVE  Adds(a, AfterIteration(a, cpu, sp, s, done), k, S, x)
BY WithSplitEvents, Zenon DEF Adds, AfterIteration

\* An iteration keeps the events of a precompile.
LEMMA IterationKeepsCode ==
  ASSUME NEW o, Sound(o), NEW n \in 0 .. NumBatches - 1, NEW cpu, NEW l, NEW order, NEW o2,
         Iterates(o, n, cpu, l, order, o2), NEW c \in Codes, KeepsCode(o, n, c)
  PROVE  KeepsCode(o2, n + 1, c)
<1> DEFINE k == <<"precompile", c>>
           b == Batches[n + 1]
           d == AllDeferred(o, n)
           sp == Split(d, Done(n), l, order)
           s == Numbered(o, n).state
           eb == Events(b, k)
           p == o.deferred.precompile[c]
<1>1. /\ NumBatches \in Nat /\ n \in Nat /\ n + 1 \in 1 .. NumBatches
      /\ Done(n) <=> n + 1 = NumBatches
  BY PipelineAssumption DEF NumBatches, Done
<1>2. o.deferred \in DeferredRecord /\ d \in DeferredRecord /\ Done(n) \in BOOLEAN
  BY CpuType DEF Sound, Done
<1>3. b \in Seq(Record) /\ \A i \in 1 .. NumBatches : Carries(Batches[i], k, Event)
  BY <1>1, BatchesCarry
<1>4. p \in Seq(Event)
  BY <1>2 DEF DeferredRecord
<1>5. d.precompile[c] = p \o eb
  <2>1. d = DeferAll(o.deferred, NumberCpuRecords(o.state, b).records)
    BY DEF AllDeferred, Numbered
  <2> HIDE DEF b, d
  <2> QED
    BY <1>2, <1>3, <2>1, DeferKeeps
<1>6. eb \in Seq(Event) /\ Executed(n + 1, k) = Executed(n, k) \o eb
  BY <1>3, ExecutedNext
<1>7. /\ Bare(l) /\ order \in IterationOrders /\ o2 = WithSplit(o, n, cpu, l, order)
      /\ Silent(cpu, k)
  <2>1. k \in EventKinds
    BY DEF EventKinds
  <2> QED
    BY <2>1, Zenon DEF Iterates
<1> HIDE DEF d
<1>8. SplitsAs(d, Done(n), sp)
  BY <1>2, <1>7, SplitKeeps
<1> HIDE DEF sp
<1>9. PICK x \in Seq(Event) : /\ Gives(sp, k, Event, x)
                              /\ x \o sp.deferred.precompile[c] = d.precompile[c]
  BY <1>8 DEF SplitsAs
<1>10. Done(n) => sp.deferred.precompile[c] = <<>>
  BY <1>8 DEF SplitsAs
<1>11. sp.deferred.precompile[c] \in Seq(Event)
  <2>1. ~Done(n) => sp.deferred \in DeferredRecord
    <3>1. l = <<>> \/ l = <<l[1]>>
      BY <1>7 DEF Bare
    <3> QED
      BY <1>2, <1>7, <3>1, SplitType DEF sp
  <2> HIDE DEF sp
  <2>2. CASE ~Done(n)
    BY <2>1, <2>2 DEF DeferredRecord
  <2>3. CASE Done(n)
    <3>1. <<>> \in Seq(Event)
      OBVIOUS
    <3> QED
      BY <1>10, <2>3, <3>1
  <2> QED
    BY <2>2, <2>3
<1> DEFINE t == AfterIteration(o.shards, cpu, sp, s, Done(n))
<1>12. o2.shards = t /\ o2.deferred = sp.deferred
  BY <1>7 DEF WithSplit, d, sp, AfterIteration
<1>13. Carries(o.shards, k, Event) /\ Events(o.shards, k) \o p = Executed(n, k)
  BY DEF KeepsCode
<1>14. Carries(t, k, Event) /\ Events(t, k) = Events(o.shards, k) \o x
  <2> HIDE DEF k, s
  <2>1. Adds(o.shards, t, k, Event, x)
    BY <1>7, <1>9, <1>13, IterationAdds
  <2> QED
    BY <2>1 DEF Adds
<1> HIDE DEF t, eb, p, k
<1>15. Events(o.shards, k) \in Seq(Event)
  BY <1>13, EventsType
<1>16. (Events(o.shards, k) \o x) \o sp.deferred.precompile[c] = (Events(o.shards, k) \o p) \o eb
  <2> DEFINE sd == sp.deferred.precompile[c]
             a == Events(o.shards, k)
  <2>1. x \o sd = p \o eb /\ x \in Seq(Event) /\ sd \in Seq(Event) /\ a \in Seq(Event)
    BY <1>5, <1>9, <1>11, <1>15
  <2> HIDE DEF sd, a
  <2>2. (a \o x) \o sd = (a \o p) \o eb
    <3>1. Associative(Event)
      BY ConcatAssoc
    <3>2. (a \o x) \o sd = a \o (x \o sd)
      BY <2>1, <3>1, Zenon DEF Associative
    <3>3. (a \o p) \o eb = a \o (p \o eb)
      BY <1>4, <1>6, <2>1, <3>1, Zenon DEF Associative
    <3> QED
      BY <2>1, <3>2, <3>3, Zenon
  <2> QED
    BY <2>2 DEF sd, a
<1>17. Events(o2.shards, k) \o o2.deferred.precompile[c] = Executed(n + 1, k)
  BY <1>6, <1>12, <1>13, <1>14, <1>16
<1> QED
  BY <1>1, <1>10, <1>12, <1>14, <1>17 DEF KeepsCode, k

\* And those of memory: for one kind of them, with what the lemmas above say of it.
LEMMA IterationKeepsMemory ==
  ASSUME NEW o, NEW n \in 0 .. NumBatches - 1, NEW cpu, NEW l, NEW order, NEW o2,
         Iterates(o, n, cpu, l, order, o2), NEW k \in EventKinds,
         \A i \in 1 .. NumBatches : Carries(Batches[i], k, Nat),
         NEW p, NEW e, NEW e2, KeepsMemory(o, n, k, p), e = p \o Events(Batches[n + 1], k),
         LET sp == Split(AllDeferred(o, n), Done(n), l, order)
         IN  /\ ~Done(n) => Gives(sp, k, {}, <<>>) /\ e2 = e
             /\ Done(n) => \E S : Gives(sp, k, S, SortByAddr(e))
  PROVE  KeepsMemory(o2, n + 1, k, e2)
<1> DEFINE sp == Split(AllDeferred(o, n), Done(n), l, order)
           s == Numbered(o, n).state
           t == AfterIteration(o.shards, cpu, sp, s, Done(n))
<1>1. /\ NumBatches \in Nat /\ n \in Nat /\ n + 1 \in 1 .. NumBatches /\ n < NumBatches
      /\ Done(n) <=> n + 1 = NumBatches
  BY PipelineAssumption DEF NumBatches, Done
<1>2. o2.shards = t /\ Silent(cpu, k)
  <2>1. o2 = WithSplit(o, n, cpu, l, order) /\ Silent(cpu, k)
    BY Zenon DEF Iterates
  <2> QED
    BY <2>1 DEF WithSplit, AfterIteration
<1>3. Silent(o.shards, k) /\ p = Executed(n, k)
  BY <1>1 DEF KeepsMemory
<1>4. \A S : Carries(o.shards, k, S) /\ Events(o.shards, k) = <<>>
  BY <1>3, EventsSilent
<1>5. e = Executed(n + 1, k)
  BY <1>3, ExecutedNext
<1> HIDE DEF sp
<1>6. CASE Done(n)
  <2>1. PICK S : Gives(sp, k, S, SortByAddr(e))
    BY <1>6 DEF sp
  <2>2. Events(t, k) = <<>> \o SortByAddr(e) /\ SortByAddr(e) \in Seq(S)
    <3> HIDE DEF s
    <3>1. Carries(o.shards, k, S)
      BY <1>4
    <3>2. Adds(o.shards, t, k, S, SortByAddr(e))
      BY <1>2, <2>1, <3>1, IterationAdds
    <3> QED
      BY <1>4, <3>2 DEF Adds
  <2> HIDE DEF t
  <2>3. Events(t, k) = SortByAddr(e)
    BY <2>2
  <2> QED
    BY <1>1, <1>2, <1>5, <1>6, <2>3 DEF KeepsMemory
<1>7. CASE ~Done(n)
  <2>1. Gives(sp, k, {}, <<>>) /\ e2 = e
    BY <1>7 DEF sp
  <2>2. Carries(t, k, {})
    <3> HIDE DEF s
    <3>1. Adds(o.shards, t, k, {}, <<>>)
      BY <1>2, <1>4, <2>1, IterationAdds
    <3> QED
      BY <3>1 DEF Adds
  <2> HIDE DEF t
  <2>3. Silent(t, k)
    BY <2>2, SilentCarries
  <2> QED
    BY <1>1, <1>2, <1>5, <1>7, <2>1, <2>3 DEF KeepsMemory
<1> QED
  BY <1>6, <1>7

\* An iteration keeps every event.
LEMMA BatchKeeps ==
  ASSUME NEW o, Sound(o), NEW n \in 0 .. NumBatches - 1, Kept(o, n),
         NEW o2 \in BatchOutcomes(o, n)
  PROVE  Kept(o2, n + 1)
<1>1. PICK cpu, l, order : Iterates(o, n, cpu, l, order, o2)
  BY BatchIterates
<1>2. \A c \in Codes : KeepsCode(o2, n + 1, c)
  BY <1>1, IterationKeepsCode DEF Kept
<1> DEFINE b == Batches[n + 1]
           d == AllDeferred(o, n)
           sp == Split(d, Done(n), l, order)
           I == <<"init">>
           F == <<"finalize">>
<1>3. o.deferred \in DeferredRecord /\ d \in DeferredRecord /\ Done(n) \in BOOLEAN
  BY CpuType DEF Sound, Done
<1>4. n + 1 \in 1 .. NumBatches
  BY PipelineAssumption DEF NumBatches
<1>5. /\ b \in Seq(Record)
      /\ \A i \in 1 .. NumBatches : Carries(Batches[i], I, Nat) /\ Carries(Batches[i], F, Nat)
  BY <1>4, BatchesCarry
<1>6. d.init = o.deferred.init \o Events(b, I) /\ d.finalize = o.deferred.finalize \o Events(b, F)
  <2>1. d = DeferAll(o.deferred, NumberCpuRecords(o.state, b).records)
    BY DEF AllDeferred, Numbered
  <2> HIDE DEF b, d
  <2> QED
    BY <1>3, <1>5, <2>1, DeferKeeps
<1>7. Bare(l) /\ order \in IterationOrders /\ o2 = WithSplit(o, n, cpu, l, order)
  BY <1>1, Zenon DEF Iterates
<1>8. SplitsAs(d, Done(n), sp)
  BY <1>3, <1>7, SplitKeeps
<1>9. o2.deferred = sp.deferred
  BY <1>7 DEF WithSplit
<1>10. I \in EventKinds /\ F \in EventKinds
  BY DEF EventKinds
<1>11. KeepsMemory(o, n, I, o.deferred.init) /\ KeepsMemory(o, n, F, o.deferred.finalize)
  BY DEF Kept
<1>12. /\ ~Done(n) => Gives(sp, I, {}, <<>>) /\ o2.deferred.init = d.init
       /\ Done(n) => \E S : Gives(sp, I, S, SortByAddr(d.init))
       /\ ~Done(n) => Gives(sp, F, {}, <<>>) /\ o2.deferred.finalize = d.finalize
       /\ Done(n) => \E S : Gives(sp, F, S, SortByAddr(d.finalize))
  <2> HIDE DEF sp, d
  <2> QED
    BY <1>8, <1>9 DEF SplitsAs
<1>13. KeepsMemory(o2, n + 1, I, o2.deferred.init)
  <2> HIDE DEF I
  <2> QED
    BY <1>1, <1>5, <1>6, <1>10, <1>11, <1>12, IterationKeepsMemory
<1>14. KeepsMemory(o2, n + 1, F, o2.deferred.finalize)
  <2> HIDE DEF F
  <2> QED
    BY <1>1, <1>5, <1>6, <1>10, <1>11, <1>12, IterationKeepsMemory
<1> QED
  BY <1>2, <1>13, <1>14 DEF Kept

\* So does the loop, whatever it makes of the batches.
LEMMA OutcomesKept ==
  ASSUME NEW o \in Outcomes[NumBatches]
  PROVE  Kept(o, NumBatches)
<1> DEFINE N == NumBatches
           G == {n \in Nat : n <= N => \A x \in Outcomes[n] : Kept(x, n)}
<1>1. N \in Nat
  BY PipelineAssumption DEF NumBatches
<1>2. N # 0
  BY PipelineAssumption, EmptySeq DEF NumBatches
<1>3. Outcomes[0] = {FirstOutcome}
  BY OutcomesSound
<1>4. ASSUME NEW n \in 0 .. N - 1, NEW o2 \in Outcomes[n + 1]
      PROVE  \E x \in Outcomes[n] : o2 \in BatchOutcomes(x, n)
  <2>1. n + 1 \in 1 .. N /\ (n + 1) - 1 = n
    BY <1>1
  <2>2. \A k \in 1 .. N : Outcomes[k] = UNION {BatchOutcomes(x, k - 1) : x \in Outcomes[k - 1]}
    BY OutcomesLoop DEF Loop
  <2>3. Outcomes[n + 1] = UNION {BatchOutcomes(x, (n + 1) - 1) : x \in Outcomes[(n + 1) - 1]}
    BY <2>1, <2>2
  <2> QED
    BY <2>1, <2>3
<1>5. Kept(FirstOutcome, 0)
  <2> DEFINE f == FirstOutcome
  <2>1. f.shards = <<>> /\ f.deferred = NewRecord
    BY DEF FirstOutcome
  <2>2. /\ \A c \in Codes : f.deferred.precompile[c] = <<>>
        /\ f.deferred.init = <<>> /\ f.deferred.finalize = <<>>
    BY <2>1 DEF NewRecord, NoEvents
  <2> HIDE DEF f
  <2>3. ASSUME NEW k PROVE Silent(f.shards, k) /\ Events(f.shards, k) = <<>>
                           /\ \A S : Carries(f.shards, k, S)
    BY <2>1, EventsNone, EventsSilent
  <2>4. ASSUME NEW k, NEW S, \A i \in 1 .. NumBatches : Carries(Batches[i], k, S)
        PROVE  Executed(0, k) = <<>>
    <3>1. 0 \in 0 .. NumBatches - 1
      BY <1>1, <1>2
    <3> QED
      BY <2>4, <3>1, ExecutedNext
  <2>5. /\ \A c \in Codes : Executed(0, <<"precompile", c>>) = <<>>
        /\ Executed(0, <<"init">>) = <<>> /\ Executed(0, <<"finalize">>) = <<>>
    BY <2>4, BatchesCarry
  <2>6. <<>> \o <<>> = <<>>
    OBVIOUS
  <2>7. \A c \in Codes : KeepsCode(f, 0, c)
    BY <1>2, <2>2, <2>3, <2>5, <2>6 DEF KeepsCode
  <2>8. /\ KeepsMemory(f, 0, <<"init">>, f.deferred.init)
        /\ KeepsMemory(f, 0, <<"finalize">>, f.deferred.finalize)
    BY <1>2, <2>2, <2>3, <2>5 DEF KeepsMemory
  <2> QED
    BY <2>7, <2>8 DEF Kept, f
<1> HIDE DEF N
<1>6. 0 \in G
  BY <1>3, <1>5
<1>7. ASSUME NEW n \in Nat, n \in G PROVE n + 1 \in G
  <2>1. SUFFICES ASSUME n + 1 <= N, NEW o2 \in Outcomes[n + 1] PROVE Kept(o2, n + 1)
    OBVIOUS
  <2>2. n \in 0 .. N - 1 /\ n <= N
    BY <1>1, <2>1
  <2>3. PICK x \in Outcomes[n] : o2 \in BatchOutcomes(x, n)
    BY <1>4, <2>1, <2>2
  <2>4. Kept(x, n) /\ Sound(x)
    BY <1>7, <2>2, OutcomesSound DEF N
  <2> QED
    BY <2>2, <2>3, <2>4, BatchKeeps DEF N
<1> HIDE DEF G
<1>8. N \in G
  BY <1>1, <1>6, <1>7, Induction
<1> QED
  BY <1>8 DEF G, N

\* The events of all batches.
LEMMA ExecutedAll ==
  ASSUME NEW k, NEW S, \A i \in 1 .. NumBatches : Carries(Batches[i], k, S)
  PROVE  Executed(NumBatches, k) = Events(FlattenSeq(Batches), k)
<1>1. PICK ss : ss = Batches
  OBVIOUS
<1>2. NumBatches \in Nat /\ ss = [i \in 1 .. NumBatches |-> ss[i]]
  BY <1>1, PipelineAssumption DEF NumBatches
<1>3. Events(FlattenSeq(ss), k) = FlattenSeq(EachEvents(ss, NumBatches, k))
  BY <1>1, <1>2, EventsFlatten
<1> QED
  BY <1>1, <1>3 DEF Executed

\* The loop proves every event of the execution exactly once.
LEMMA LoopLosesNothing == ProvesLoop => NoEventIsLost
<1> SUFFICES ASSUME ProvesLoop, result = "ok"
             PROVE  LET executed == FlattenSeq(Batches)
                        recs == RecordsOf(proved)
                    IN /\ \A c \in Codes : PrecompileEvents(recs, c) = PrecompileEvents(executed, c)
                       /\ InitEvents(recs) = SortByAddr(InitEvents(executed))
                       /\ FinalizeEvents(recs) = SortByAddr(FinalizeEvents(executed))
  BY DEF NoEventIsLost
<1>1. PICK o \in Outcomes[NumBatches] : RecordsOf(proved) = o.shards
  BY DEF ProvesLoop
<1> DEFINE executed == FlattenSeq(Batches)
           recs == RecordsOf(proved)
           I == <<"init">>
           F == <<"finalize">>
<1>2. Kept(o, NumBatches)
  BY OutcomesKept
<1>3. /\ \A c \in Codes : Executed(NumBatches, <<"precompile", c>>)
                             = Events(executed, <<"precompile", c>>)
      /\ Executed(NumBatches, I) = Events(executed, I)
      /\ Executed(NumBatches, F) = Events(executed, F)
  BY BatchesCarry, ExecutedAll
<1>4. ASSUME NEW c \in Codes
      PROVE  Events(recs, <<"precompile", c>>) = Events(executed, <<"precompile", c>>)
  <2> DEFINE k == <<"precompile", c>>
  <2>1. /\ Carries(o.shards, k, Event) /\ o.deferred.precompile[c] = <<>>
        /\ Events(o.shards, k) \o o.deferred.precompile[c] = Executed(NumBatches, k)
    BY <1>2 DEF Kept, KeepsCode
  <2>2. Events(o.shards, k) \in Seq(Event)
    BY <2>1, EventsType
  <2>3. Events(o.shards, k) \o <<>> = Events(o.shards, k)
    BY <2>2
  <2> QED
    BY <1>1, <1>3, <2>1, <2>3
<1>5. /\ Events(recs, I) = SortByAddr(Events(executed, I))
      /\ Events(recs, F) = SortByAddr(Events(executed, F))
  BY <1>1, <1>2, <1>3 DEF Kept, KeepsMemory
<1> HIDE DEF recs, executed
<1>6. /\ \A c : PrecompileEvents(recs, c) = Events(recs, <<"precompile", c>>)
      /\ InitEvents(recs) = Events(recs, <<"init">>)
      /\ FinalizeEvents(recs) = Events(recs, <<"finalize">>)
      /\ \A c : PrecompileEvents(executed, c) = Events(executed, <<"precompile", c>>)
      /\ InitEvents(executed) = Events(executed, <<"init">>)
      /\ FinalizeEvents(executed) = Events(executed, <<"finalize">>)
  BY EventsOf
<1> QED
  BY <1>4, <1>5, <1>6 DEF recs, executed

\* A call of prove_with_context that returns Ok has proved every deferred event of the
\* execution exactly once: no precompile event is lost, repeated or reordered on its way
\* through the deferred record, however the batches split it, and the memory events are all
\* there, sorted by address, in shards of their own or packed into the last record.
THEOREM EveryEventIsProved == Spec /\ []NeverFallsBack => []NoEventIsLost
BY OkProvesLoop, LoopLosesNothing, PTL

\* So for every program of at least 2^21 cycles, and for every program whose records all
\* have a shape, no assumption on the run is needed.
THEOREM NoEventIsLostHolds ==
  ASSUME ~SmallProgram \/ UnfitChoices = {{}}
  PROVE  Spec => []NoEventIsLost
<1>1. CASE ~SmallProgram
  BY <1>1, LargeNeverFallsBack, EveryEventIsProved, PTL
<1>2. CASE UnfitChoices = {{}}
  BY <1>2, FittingNeverFallsBack, EveryEventIsProved, PTL
<1> QED
  BY <1>1, <1>2
=============================================================================
