-------------------------- MODULE CoreProofAccepts --------------------------
(***************************************************************************)
(* A call of prove_with_context that succeeds returns a proof the verifier *)
(* accepts.  CoreProofProofs.tla shows that such a call has proved the     *)
(* shards one loop over the batches makes; here the shards of the loop are *)
(* followed through numbering, deferring, splitting and packing, batch by  *)
(* batch, and each is shown to continue the one before as the rules of     *)
(* ShardVerifier.tla ask.  The last part shows of every shard that is      *)
(* sent, also by a call that fails, that it is what its chips expect.      *)
(***************************************************************************)
EXTENDS CoreProofProofs


-----------------------------------------------------------------------------
(* The public values that the loops over the records give. *)

\* s has the fields of public values, and no others.
IsPv(s) ==
    s = [shard |-> s.shard, execution_shard |-> s.execution_shard, start_pc |-> s.start_pc,
         next_pc |-> s.next_pc, exit_code |-> s.exit_code,
         committed_value_digest |-> s.committed_value_digest,
         deferred_proofs_digest |-> s.deferred_proofs_digest,
         previous_init_addr_bits |-> s.previous_init_addr_bits,
         last_init_addr_bits |-> s.last_init_addr_bits,
         previous_finalize_addr_bits |-> s.previous_finalize_addr_bits,
         last_finalize_addr_bits |-> s.last_finalize_addr_bits]

\* The public values of CPU record i of b, which has values p, after s.
CpuPv(s, p, i) ==
    [shard |-> s.shard + i, execution_shard |-> p.execution_shard, start_pc |-> p.start_pc,
     next_pc |-> p.next_pc, exit_code |-> s.exit_code,
     committed_value_digest |-> p.committed_value_digest,
     deferred_proofs_digest |-> p.deferred_proofs_digest,
     previous_init_addr_bits |-> s.previous_init_addr_bits,
     last_init_addr_bits |-> s.last_init_addr_bits,
     previous_finalize_addr_bits |-> s.previous_finalize_addr_bits,
     last_finalize_addr_bits |-> s.last_finalize_addr_bits]

\* Those of shard i without CPU events, whose address bits split has left in p.
DeferredPv(s, p, i) ==
    [shard |-> s.shard + i, execution_shard |-> s.execution_shard, start_pc |-> s.next_pc,
     next_pc |-> s.next_pc, exit_code |-> s.exit_code,
     committed_value_digest |-> s.committed_value_digest,
     deferred_proofs_digest |-> s.deferred_proofs_digest,
     previous_init_addr_bits |-> p.previous_init_addr_bits,
     last_init_addr_bits |-> p.last_init_addr_bits,
     previous_finalize_addr_bits |-> p.previous_finalize_addr_bits,
     last_finalize_addr_bits |-> p.last_finalize_addr_bits]

\* One step of the loop over the records with CPU events.
LEMMA CpuStep ==
  ASSUME NEW s, IsPv(s), s.shard \in Nat, NEW r
  PROVE  NumberCpuRecord(s, r) = CpuPv(s, r.pv, 1)
<1>1. PICK t1 : t1 = [s EXCEPT !.shard = s.shard + 1]
  OBVIOUS
<1>2. t1 =
        [shard |-> s.shard + 1, execution_shard |-> s.execution_shard,
         start_pc |-> s.start_pc, next_pc |-> s.next_pc, exit_code |-> s.exit_code,
         committed_value_digest |-> s.committed_value_digest,
         deferred_proofs_digest |-> s.deferred_proofs_digest,
         previous_init_addr_bits |-> s.previous_init_addr_bits,
         last_init_addr_bits |-> s.last_init_addr_bits,
         previous_finalize_addr_bits |-> s.previous_finalize_addr_bits,
         last_finalize_addr_bits |-> s.last_finalize_addr_bits]
  BY <1>1 DEF IsPv
<1>3. PICK t2 : t2 = [t1 EXCEPT !.execution_shard = r.pv.execution_shard]
  OBVIOUS
<1>4. t2 =
        [shard |-> s.shard + 1, execution_shard |-> r.pv.execution_shard,
         start_pc |-> s.start_pc, next_pc |-> s.next_pc, exit_code |-> s.exit_code,
         committed_value_digest |-> s.committed_value_digest,
         deferred_proofs_digest |-> s.deferred_proofs_digest,
         previous_init_addr_bits |-> s.previous_init_addr_bits,
         last_init_addr_bits |-> s.last_init_addr_bits,
         previous_finalize_addr_bits |-> s.previous_finalize_addr_bits,
         last_finalize_addr_bits |-> s.last_finalize_addr_bits]
  BY <1>3, <1>2 DEF IsPv
<1>5. PICK t3 : t3 = [t2 EXCEPT !.start_pc = r.pv.start_pc]
  OBVIOUS
<1>6. t3 =
        [shard |-> s.shard + 1, execution_shard |-> r.pv.execution_shard,
         start_pc |-> r.pv.start_pc, next_pc |-> s.next_pc, exit_code |-> s.exit_code,
         committed_value_digest |-> s.committed_value_digest,
         deferred_proofs_digest |-> s.deferred_proofs_digest,
         previous_init_addr_bits |-> s.previous_init_addr_bits,
         last_init_addr_bits |-> s.last_init_addr_bits,
         previous_finalize_addr_bits |-> s.previous_finalize_addr_bits,
         last_finalize_addr_bits |-> s.last_finalize_addr_bits]
  BY <1>5, <1>4 DEF IsPv
<1>7. PICK t4 : t4 = [t3 EXCEPT !.next_pc = r.pv.next_pc]
  OBVIOUS
<1>8. t4 =
        [shard |-> s.shard + 1, execution_shard |-> r.pv.execution_shard,
         start_pc |-> r.pv.start_pc, next_pc |-> r.pv.next_pc,
         exit_code |-> s.exit_code, committed_value_digest |-> s.committed_value_digest,
         deferred_proofs_digest |-> s.deferred_proofs_digest,
         previous_init_addr_bits |-> s.previous_init_addr_bits,
         last_init_addr_bits |-> s.last_init_addr_bits,
         previous_finalize_addr_bits |-> s.previous_finalize_addr_bits,
         last_finalize_addr_bits |-> s.last_finalize_addr_bits]
  BY <1>7, <1>6 DEF IsPv
<1>9. PICK t5 : t5 = [t4 EXCEPT !.committed_value_digest = r.pv.committed_value_digest]
  OBVIOUS
<1>10. t5 =
        [shard |-> s.shard + 1, execution_shard |-> r.pv.execution_shard,
         start_pc |-> r.pv.start_pc, next_pc |-> r.pv.next_pc,
         exit_code |-> s.exit_code,
         committed_value_digest |-> r.pv.committed_value_digest,
         deferred_proofs_digest |-> s.deferred_proofs_digest,
         previous_init_addr_bits |-> s.previous_init_addr_bits,
         last_init_addr_bits |-> s.last_init_addr_bits,
         previous_finalize_addr_bits |-> s.previous_finalize_addr_bits,
         last_finalize_addr_bits |-> s.last_finalize_addr_bits]
  BY <1>9, <1>8 DEF IsPv
<1>11. PICK t6 : t6 = [t5 EXCEPT !.deferred_proofs_digest = r.pv.deferred_proofs_digest]
  OBVIOUS
<1>12. t6 =
        [shard |-> s.shard + 1, execution_shard |-> r.pv.execution_shard,
         start_pc |-> r.pv.start_pc, next_pc |-> r.pv.next_pc,
         exit_code |-> s.exit_code,
         committed_value_digest |-> r.pv.committed_value_digest,
         deferred_proofs_digest |-> r.pv.deferred_proofs_digest,
         previous_init_addr_bits |-> s.previous_init_addr_bits,
         last_init_addr_bits |-> s.last_init_addr_bits,
         previous_finalize_addr_bits |-> s.previous_finalize_addr_bits,
         last_finalize_addr_bits |-> s.last_finalize_addr_bits]
  BY <1>11, <1>10 DEF IsPv
<1>13. NumberCpuRecord(s, r) = t6
  BY <1>1, <1>3, <1>5, <1>7, <1>9, <1>11, Zenon DEF NumberCpuRecord
<1> QED
  BY <1>12, <1>13 DEF CpuPv

\* One step of the loop over the shards without.
LEMMA DeferredStep ==
  ASSUME NEW s, IsPv(s), s.shard \in Nat, NEW r
  PROVE  NumberDeferredRecord(s, r) = DeferredPv(s, r.pv, 1)
<1>1. PICK t1 : t1 = [s EXCEPT !.shard = s.shard + 1]
  OBVIOUS
<1>2. t1 =
        [shard |-> s.shard + 1, execution_shard |-> s.execution_shard,
         start_pc |-> s.start_pc, next_pc |-> s.next_pc, exit_code |-> s.exit_code,
         committed_value_digest |-> s.committed_value_digest,
         deferred_proofs_digest |-> s.deferred_proofs_digest,
         previous_init_addr_bits |-> s.previous_init_addr_bits,
         last_init_addr_bits |-> s.last_init_addr_bits,
         previous_finalize_addr_bits |-> s.previous_finalize_addr_bits,
         last_finalize_addr_bits |-> s.last_finalize_addr_bits]
  BY <1>1 DEF IsPv
<1>3. PICK t2 : t2 = [t1 EXCEPT !.previous_init_addr_bits = r.pv.previous_init_addr_bits]
  OBVIOUS
<1>4. t2 =
        [shard |-> s.shard + 1, execution_shard |-> s.execution_shard,
         start_pc |-> s.start_pc, next_pc |-> s.next_pc, exit_code |-> s.exit_code,
         committed_value_digest |-> s.committed_value_digest,
         deferred_proofs_digest |-> s.deferred_proofs_digest,
         previous_init_addr_bits |-> r.pv.previous_init_addr_bits,
         last_init_addr_bits |-> s.last_init_addr_bits,
         previous_finalize_addr_bits |-> s.previous_finalize_addr_bits,
         last_finalize_addr_bits |-> s.last_finalize_addr_bits]
  BY <1>3, <1>2 DEF IsPv
<1>5. PICK t3 : t3 = [t2 EXCEPT !.last_init_addr_bits = r.pv.last_init_addr_bits]
  OBVIOUS
<1>6. t3 =
        [shard |-> s.shard + 1, execution_shard |-> s.execution_shard,
         start_pc |-> s.start_pc, next_pc |-> s.next_pc, exit_code |-> s.exit_code,
         committed_value_digest |-> s.committed_value_digest,
         deferred_proofs_digest |-> s.deferred_proofs_digest,
         previous_init_addr_bits |-> r.pv.previous_init_addr_bits,
         last_init_addr_bits |-> r.pv.last_init_addr_bits,
         previous_finalize_addr_bits |-> s.previous_finalize_addr_bits,
         last_finalize_addr_bits |-> s.last_finalize_addr_bits]
  BY <1>5, <1>4 DEF IsPv
<1>7. PICK t4 : t4 = [t3 EXCEPT !.previous_finalize_addr_bits = r.pv.previous_finalize_addr_bits]
  OBVIOUS
<1>8. t4 =
        [shard |-> s.shard + 1, execution_shard |-> s.execution_shard,
         start_pc |-> s.start_pc, next_pc |-> s.next_pc, exit_code |-> s.exit_code,
         committed_value_digest |-> s.committed_value_digest,
         deferred_proofs_digest |-> s.deferred_proofs_digest,
         previous_init_addr_bits |-> r.pv.previous_init_addr_bits,
         last_init_addr_bits |-> r.pv.last_init_addr_bits,
         previous_finalize_addr_bits |-> r.pv.previous_finalize_addr_bits,
         last_finalize_addr_bits |-> s.last_finalize_addr_bits]
  BY <1>7, <1>6 DEF IsPv
<1>9. PICK t5 : t5 = [t4 EXCEPT !.last_finalize_addr_bits = r.pv.last_finalize_addr_bits]
  OBVIOUS
<1>10. t5 =
        [shard |-> s.shard + 1, execution_shard |-> s.execution_shard,
         start_pc |-> s.start_pc, next_pc |-> s.next_pc, exit_code |-> s.exit_code,
         committed_value_digest |-> s.committed_value_digest,
         deferred_proofs_digest |-> s.deferred_proofs_digest,
         previous_init_addr_bits |-> r.pv.previous_init_addr_bits,
         last_init_addr_bits |-> r.pv.last_init_addr_bits,
         previous_finalize_addr_bits |-> r.pv.previous_finalize_addr_bits,
         last_finalize_addr_bits |-> r.pv.last_finalize_addr_bits]
  BY <1>9, <1>8 DEF IsPv
<1>11. PICK t6 : t6 = [t5 EXCEPT !.start_pc = s.next_pc]
  OBVIOUS
<1>12. t6 =
        [shard |-> s.shard + 1, execution_shard |-> s.execution_shard,
         start_pc |-> s.next_pc, next_pc |-> s.next_pc, exit_code |-> s.exit_code,
         committed_value_digest |-> s.committed_value_digest,
         deferred_proofs_digest |-> s.deferred_proofs_digest,
         previous_init_addr_bits |-> r.pv.previous_init_addr_bits,
         last_init_addr_bits |-> r.pv.last_init_addr_bits,
         previous_finalize_addr_bits |-> r.pv.previous_finalize_addr_bits,
         last_finalize_addr_bits |-> r.pv.last_finalize_addr_bits]
  BY <1>11, <1>10 DEF IsPv
<1>13. NumberDeferredRecord(s, r) = t6
  BY <1>1, <1>3, <1>5, <1>7, <1>9, <1>11, Zenon DEF NumberDeferredRecord
<1> QED
  BY <1>12, <1>13 DEF DeferredPv

\* They are public values.
LEMMA CpuPvIs ==
  ASSUME NEW s, NEW p, NEW i
  PROVE  IsPv(CpuPv(s, p, i))
BY DEF IsPv, CpuPv

\* So are these.
LEMMA DeferredPvIs ==
  ASSUME NEW s, NEW p, NEW i
  PROVE  IsPv(DeferredPv(s, p, i))
BY DEF IsPv, DeferredPv

\* After i steps of the first loop the public values are those of record i.
LEMMA CpuSteps ==
  ASSUME NEW s, IsPv(s), s.shard \in Nat, NEW p, NEW q, NEW i \in Nat, i # 0
  PROVE  CpuPv(IF i = 1 THEN s ELSE CpuPv(s, q, i - 1), p, 1) = CpuPv(s, p, i)
<1>1. CASE i = 1
  BY <1>1
<1>2. CASE i # 1
  <2>1. (s.shard + (i - 1)) + 1 = s.shard + i
    OBVIOUS
  <2> QED
    BY <1>2, <2>1 DEF CpuPv
<1> QED
  BY <1>1, <1>2

\* Steps of the loop over the shards without CPU events add up.
LEMMA DeferredSteps ==
  ASSUME NEW s, IsPv(s), s.shard \in Nat, NEW p, NEW q, NEW i \in Nat, i # 0
  PROVE  DeferredPv(IF i = 1 THEN s ELSE DeferredPv(s, q, i - 1), p, 1) = DeferredPv(s, p, i)
<1>1. CASE i = 1
  BY <1>1
<1>2. CASE i # 1
  <2>1. (s.shard + (i - 1)) + 1 = s.shard + i
    OBVIOUS
  <2> QED
    BY <1>2, <2>1 DEF DeferredPv
<1> QED
  BY <1>1, <1>2

\* The whole loop over the records with CPU events.
LEMMA NumberCpuIs ==
  ASSUME NEW s, IsPv(s), s.shard \in Nat, NEW b, IsSeq(b)
  PROVE  LET x == NumberCpuRecords(s, b)
         IN  /\ x.state = IF Len(b) = 0 THEN s ELSE CpuPv(s, b[Len(b)].pv, Len(b))
             /\ x.records = [i \in DOMAIN b |-> [b[i] EXCEPT !.pv = CpuPv(s, b[i].pv, i)]]
<1> DEFINE N == Len(b)
           f == [i \in 0 .. N |-> IF i = 0 THEN s ELSE CpuPv(s, b[i].pv, i)]
           Step(t, i) == NumberCpuRecord(t, b[i])
           Eq(g) == g = [i \in 0 .. N |-> IF i = 0 THEN s ELSE Step(g[i - 1], i)]
           after == CHOOSE g : Eq(g)
<1>1. N \in Nat /\ DOMAIN b = 1 .. N
  BY DEF IsSeq
<1>2. ASSUME NEW i \in 1 .. N PROVE f[i] = Step(f[i - 1], i)
  <2>1. /\ f[i - 1] = (IF i = 1 THEN s ELSE CpuPv(s, b[i - 1].pv, i - 1))
        /\ f[i] = CpuPv(s, b[i].pv, i)
    BY <1>1
  <2>2. IsPv(f[i - 1]) /\ f[i - 1].shard \in Nat
    <3>1. CASE i = 1
      BY <2>1, <3>1
    <3>2. CASE i # 1
      <4>1. PICK t : t = CpuPv(s, b[i - 1].pv, i - 1) /\ t = f[i - 1]
        BY <2>1, <3>2
      <4>2. IsPv(t) /\ t.shard = s.shard + (i - 1)
        BY <4>1, CpuPvIs DEF CpuPv
      <4> QED
        BY <4>1, <4>2
    <3> QED
      BY <3>1, <3>2
  <2> HIDE DEF f
  <2>3. Step(f[i - 1], i) = CpuPv(f[i - 1], b[i].pv, 1)
    BY <2>2, CpuStep
  <2>4. CpuPv(IF i = 1 THEN s ELSE CpuPv(s, b[i - 1].pv, i - 1), b[i].pv, 1) = CpuPv(s, b[i].pv, i)
    BY <1>1, CpuSteps
  <2> QED
    BY <2>1, <2>3, <2>4
<1>3. f[0] = s
  BY <1>1
<1>4. Eq(f)
  <2>1. ASSUME NEW i \in 0 .. N PROVE f[i] = IF i = 0 THEN s ELSE Step(f[i - 1], i)
    <3>1. i # 0 => i \in 1 .. N
      BY <1>1
    <3> HIDE DEF f, Step
    <3> QED
      BY <1>2, <1>3, <3>1
  <2>2. f = [i \in 0 .. N |-> f[i]]
    OBVIOUS
  <2> HIDE DEF f, Step, N
  <2> QED
    BY <2>1, <2>2
<1>5. Eq(after)
  <2> HIDE DEF Eq, f
  <2> QED
    BY <1>4
<1>6. /\ NumberCpuRecords(s, b).state = after[N]
      /\ NumberCpuRecords(s, b).records = [i \in DOMAIN b |-> [b[i] EXCEPT !.pv = after[i]]]
  BY DEF NumberCpuRecords
<1>7. \A i \in 0 .. N : after[i] = IF i = 0 THEN s ELSE Step(after[i - 1], i)
  <2> HIDE DEF after, Step, N
  <2> QED
    BY <1>5
<1> DEFINE G == {i \in Nat : i <= N => after[i] = f[i]}
<1> HIDE DEF after, Eq, f, Step
<1>8. 0 \in G
  BY <1>1, <1>3, <1>7
<1>9. ASSUME NEW i \in Nat, i \in G PROVE i + 1 \in G
  <2>1. CASE i + 1 <= N
    <3>1. /\ i + 1 \in 1 .. N /\ i + 1 \in 0 .. N /\ i + 1 # 0 /\ (i + 1) - 1 = i /\ after[i] = f[i]
      BY <1>1, <1>9, <2>1
    <3>2. after[i + 1] = Step(after[(i + 1) - 1], i + 1)
      BY <1>7, <3>1
    <3>3. f[i + 1] = Step(f[(i + 1) - 1], i + 1)
      BY <1>2, <3>1
    <3> QED
      BY <3>1, <3>2, <3>3
  <2> QED
    BY <2>1
<1> HIDE DEF G
<1>10. \A i \in Nat : i \in G
  BY <1>8, <1>9, Induction
<1>11. ASSUME NEW i \in 0 .. N PROVE after[i] = f[i]
  BY <1>1, <1>10 DEF G
<1>12. after[N] = IF N = 0 THEN s ELSE CpuPv(s, b[N].pv, N)
  BY <1>1, <1>11 DEF f
<1>13. ASSUME NEW i \in 1 .. N PROVE after[i] = CpuPv(s, b[i].pv, i)
  BY <1>1, <1>11 DEF f
<1>14. [i \in DOMAIN b |-> [b[i] EXCEPT !.pv = after[i]]] =
       [i \in DOMAIN b |-> [b[i] EXCEPT !.pv = CpuPv(s, b[i].pv, i)]]
  BY <1>1, <1>13
<1> QED
  BY <1>6, <1>12, <1>14, Zenon

\* The values the loop over the shards without CPU events starts from.
FirstPv(s, done) == IF done THEN s ELSE [s EXCEPT !.execution_shard = @ + 1]

\* Only the execution shard of s may have changed.
LEMMA FirstPvIs ==
  ASSUME NEW s, IsPv(s), NEW done
  PROVE  LET f == FirstPv(s, done)
         IN  /\ IsPv(f) /\ f.shard = s.shard /\ f.next_pc = s.next_pc /\ f.exit_code = s.exit_code
             /\ f.committed_value_digest = s.committed_value_digest
             /\ f.deferred_proofs_digest = s.deferred_proofs_digest
             /\ f.previous_init_addr_bits = s.previous_init_addr_bits
             /\ f.last_init_addr_bits = s.last_init_addr_bits
             /\ f.previous_finalize_addr_bits = s.previous_finalize_addr_bits
             /\ f.last_finalize_addr_bits = s.last_finalize_addr_bits
<1>1. CASE done
  BY <1>1 DEF FirstPv
<1>2. CASE ~done
  <2>1. PICK f : f = [s EXCEPT !.execution_shard = s.execution_shard + 1]
    OBVIOUS
  <2>2. f = [shard |-> s.shard, execution_shard |-> s.execution_shard + 1,
             start_pc |-> s.start_pc, next_pc |-> s.next_pc,
             exit_code |-> s.exit_code,
             committed_value_digest |-> s.committed_value_digest,
             deferred_proofs_digest |-> s.deferred_proofs_digest,
             previous_init_addr_bits |-> s.previous_init_addr_bits,
             last_init_addr_bits |-> s.last_init_addr_bits,
             previous_finalize_addr_bits |-> s.previous_finalize_addr_bits,
             last_finalize_addr_bits |-> s.last_finalize_addr_bits]
    BY <2>1 DEF IsPv
  <2>3. FirstPv(s, done) = f
    BY <1>2, <2>1, Zenon DEF FirstPv
  <2> QED
    BY <2>2, <2>3 DEF IsPv
<1> QED
  BY <1>1, <1>2

\* The whole loop over the shards without.
LEMMA NumberDeferredIs ==
  ASSUME NEW z, IsPv(z), z.shard \in Nat, NEW done, NEW b, IsSeq(b)
  PROVE  LET s == FirstPv(z, done)
             x == NumberDeferredRecords(z, done, b)
         IN  /\ x.state = IF Len(b) = 0 THEN s ELSE DeferredPv(s, b[Len(b)].pv, Len(b))
             /\ x.records = [i \in DOMAIN b |-> [b[i] EXCEPT !.pv = DeferredPv(s, b[i].pv, i)]]
<1> DEFINE s == FirstPv(z, done)
<1>1. IsPv(s) /\ s.shard \in Nat
  BY FirstPvIs
<1> HIDE DEF s
<1> DEFINE N == Len(b)
           f == [i \in 0 .. N |-> IF i = 0 THEN s ELSE DeferredPv(s, b[i].pv, i)]
           Step(t, i) == NumberDeferredRecord(t, b[i])
           Eq(g) == g = [i \in 0 .. N |-> IF i = 0 THEN s ELSE Step(g[i - 1], i)]
           after == CHOOSE g : Eq(g)
<1>2. N \in Nat /\ DOMAIN b = 1 .. N
  BY DEF IsSeq
<1>3. ASSUME NEW i \in 1 .. N PROVE f[i] = Step(f[i - 1], i)
  <2>1. /\ f[i - 1] = (IF i = 1 THEN s ELSE DeferredPv(s, b[i - 1].pv, i - 1))
        /\ f[i] = DeferredPv(s, b[i].pv, i)
    BY <1>2
  <2>2. IsPv(f[i - 1]) /\ f[i - 1].shard \in Nat
    <3>1. CASE i = 1
      BY <1>1, <2>1, <3>1
    <3>2. CASE i # 1
      <4>1. PICK t : t = DeferredPv(s, b[i - 1].pv, i - 1) /\ t = f[i - 1]
        BY <2>1, <3>2
      <4>2. IsPv(t) /\ t.shard = s.shard + (i - 1)
        <5>1. IsPv(t)
          BY <4>1, DeferredPvIs
        <5> QED
          BY <4>1, <5>1 DEF DeferredPv
      <4> QED
        BY <1>1, <1>2, <4>1, <4>2
    <3> QED
      BY <3>1, <3>2
  <2> HIDE DEF f
  <2>3. Step(f[i - 1], i) = DeferredPv(f[i - 1], b[i].pv, 1)
    BY <2>2, DeferredStep
  <2>4. DeferredPv(IF i = 1 THEN s ELSE DeferredPv(s, b[i - 1].pv, i - 1), b[i].pv, 1)
          = DeferredPv(s, b[i].pv, i)
    BY <1>1, <1>2, DeferredSteps
  <2> QED
    BY <2>1, <2>3, <2>4
<1>4. f[0] = s
  BY <1>2
<1>5. Eq(f)
  <2>1. ASSUME NEW i \in 0 .. N PROVE f[i] = IF i = 0 THEN s ELSE Step(f[i - 1], i)
    <3>1. i # 0 => i \in 1 .. N
      BY <1>2
    <3> HIDE DEF f, Step
    <3> QED
      BY <1>3, <1>4, <3>1
  <2>2. f = [i \in 0 .. N |-> f[i]]
    OBVIOUS
  <2> HIDE DEF f, Step, N
  <2> QED
    BY <2>1, <2>2
<1>6. Eq(after)
  <2> HIDE DEF Eq, f
  <2> QED
    BY <1>5
<1>7. /\ NumberDeferredRecords(z, done, b).state = after[N]
      /\ NumberDeferredRecords(z, done, b).records =
            [i \in DOMAIN b |-> [b[i] EXCEPT !.pv = after[i]]]
  BY DEF NumberDeferredRecords, FirstPv, s
<1>8. \A i \in 0 .. N : after[i] = IF i = 0 THEN s ELSE Step(after[i - 1], i)
  <2> HIDE DEF after, Step, N
  <2> QED
    BY <1>6
<1> DEFINE G == {i \in Nat : i <= N => after[i] = f[i]}
<1> HIDE DEF after, Eq, f, Step
<1>9. 0 \in G
  BY <1>2, <1>4, <1>8
<1>10. ASSUME NEW i \in Nat, i \in G PROVE i + 1 \in G
  <2>1. CASE i + 1 <= N
    <3>1. /\ i + 1 \in 1 .. N /\ i + 1 \in 0 .. N /\ i + 1 # 0 /\ (i + 1) - 1 = i /\ after[i] = f[i]
      BY <1>2, <1>10, <2>1
    <3>2. after[i + 1] = Step(after[(i + 1) - 1], i + 1)
      BY <1>8, <3>1
    <3>3. f[i + 1] = Step(f[(i + 1) - 1], i + 1)
      BY <1>3, <3>1
    <3> QED
      BY <3>1, <3>2, <3>3
  <2> QED
    BY <2>1
<1> HIDE DEF G
<1>11. \A i \in Nat : i \in G
  BY <1>9, <1>10, Induction
<1>12. ASSUME NEW i \in 0 .. N PROVE after[i] = f[i]
  BY <1>2, <1>11 DEF G
<1>13. after[N] = IF N = 0 THEN s ELSE DeferredPv(s, b[N].pv, N)
  BY <1>2, <1>12 DEF f
<1>14. ASSUME NEW i \in 1 .. N PROVE after[i] = DeferredPv(s, b[i].pv, i)
  BY <1>2, <1>12 DEF f
<1>15. [i \in DOMAIN b |-> [b[i] EXCEPT !.pv = after[i]]] =
       [i \in DOMAIN b |-> [b[i] EXCEPT !.pv = DeferredPv(s, b[i].pv, i)]]
  BY <1>2, <1>14
<1> QED
  BY <1>7, <1>13, <1>15, Zenon DEF s
\* The public values of a record with values p into which memory chunk k was put.
MemoryPv(p, inits, finalizes, k) ==
    [shard |-> p.shard, execution_shard |-> p.execution_shard,
     start_pc |-> p.start_pc, next_pc |-> p.next_pc, exit_code |-> p.exit_code,
     committed_value_digest |-> p.committed_value_digest,
     deferred_proofs_digest |-> p.deferred_proofs_digest,
     previous_init_addr_bits |-> AddrBits(LastAddr(inits, k - 1)),
     last_init_addr_bits |-> AddrBits(LastAddr(inits, k)),
     previous_finalize_addr_bits |-> AddrBits(LastAddr(finalizes, k - 1)),
     last_finalize_addr_bits |-> AddrBits(LastAddr(finalizes, k))]

\* Memory chunk k put into a record.
LEMMA WithMemoryIs ==
  ASSUME NEW r, IsRecord(r), IsPv(r.pv), NEW inits, NEW finalizes, NEW k
  PROVE  WithMemory(r, inits, finalizes, k) =
           [cpu |-> r.cpu, precompile |-> r.precompile, init |-> r.init \o ChunkAt(inits, k),
            finalize |-> r.finalize \o ChunkAt(finalizes, k),
            pv |-> MemoryPv(r.pv, inits, finalizes, k)]
<1> DEFINE x == r.init \o ChunkAt(inits, k)
           y == r.finalize \o ChunkAt(finalizes, k)
           pi == AddrBits(LastAddr(inits, k - 1))
           li == AddrBits(LastAddr(inits, k))
           pf == AddrBits(LastAddr(finalizes, k - 1))
           lf == AddrBits(LastAddr(finalizes, k))
           m == WithMemory(r, inits, finalizes, k)
<1>1. PICK p : p = r.pv
  OBVIOUS
<1>2. PICK r1 : r1 = [r EXCEPT !.init = x]
  OBVIOUS
<1>3. PICK r2 : r2 = [r1 EXCEPT !.finalize = y]
  OBVIOUS
<1>4. PICK r3 : r3 = [r2 EXCEPT !.pv.previous_init_addr_bits = pi]
  OBVIOUS
<1>5. PICK r4 : r4 = [r3 EXCEPT !.pv.last_init_addr_bits = li]
  OBVIOUS
<1>6. PICK r5 : r5 = [r4 EXCEPT !.pv.previous_finalize_addr_bits = pf]
  OBVIOUS
<1>7. PICK r6 : r6 = [r5 EXCEPT !.pv.last_finalize_addr_bits = lf]
  OBVIOUS
<1>8. m = r6
  BY <1>2, <1>3, <1>4, <1>5, <1>6, <1>7, Zenon DEF WithMemory
<1> HIDE DEF x, y, pi, li, pf, lf, m
<1>9. r1 = [cpu |-> r.cpu, precompile |-> r.precompile, init |-> x,
           finalize |-> r.finalize, pv |-> r.pv]
  BY <1>2 DEF IsRecord
<1>10. r2 = [cpu |-> r.cpu, precompile |-> r.precompile, init |-> x,
           finalize |-> y, pv |-> p]
  BY <1>1, <1>3, <1>9
<1>11. IsPv(p)
  BY <1>1
<1>12. PICK p1 : p1 = [p EXCEPT !.previous_init_addr_bits = pi]
  OBVIOUS
<1>13. p1 = [shard |-> p.shard, execution_shard |-> p.execution_shard,
           start_pc |-> p.start_pc, next_pc |-> p.next_pc,
           exit_code |-> p.exit_code,
           committed_value_digest |-> p.committed_value_digest,
           deferred_proofs_digest |-> p.deferred_proofs_digest,
           previous_init_addr_bits |-> pi,
           last_init_addr_bits |-> p.last_init_addr_bits,
           previous_finalize_addr_bits |-> p.previous_finalize_addr_bits,
           last_finalize_addr_bits |-> p.last_finalize_addr_bits]
  BY <1>12, <1>11 DEF IsPv
<1>14. r3 = [cpu |-> r.cpu, precompile |-> r.precompile, init |-> x,
           finalize |-> y, pv |-> p1]
  <2>1. r2.pv = p
    BY <1>10
  <2>2. r3 = [r2 EXCEPT !.pv = p1]
    BY <1>4, <1>12, <2>1, Zenon
  <2> QED
    BY <1>10, <2>2
<1>15. PICK p2 : p2 = [p1 EXCEPT !.last_init_addr_bits = li]
  OBVIOUS
<1>16. p2 = [shard |-> p.shard, execution_shard |-> p.execution_shard,
           start_pc |-> p.start_pc, next_pc |-> p.next_pc,
           exit_code |-> p.exit_code,
           committed_value_digest |-> p.committed_value_digest,
           deferred_proofs_digest |-> p.deferred_proofs_digest,
           previous_init_addr_bits |-> pi, last_init_addr_bits |-> li,
           previous_finalize_addr_bits |-> p.previous_finalize_addr_bits,
           last_finalize_addr_bits |-> p.last_finalize_addr_bits]
  BY <1>15, <1>13 DEF IsPv
<1>17. r4 = [cpu |-> r.cpu, precompile |-> r.precompile, init |-> x,
           finalize |-> y, pv |-> p2]
  <2>1. r3.pv = p1
    BY <1>14
  <2>2. r4 = [r3 EXCEPT !.pv = p2]
    BY <1>5, <1>15, <2>1, Zenon
  <2> QED
    BY <1>14, <2>2
<1>18. PICK p3 : p3 = [p2 EXCEPT !.previous_finalize_addr_bits = pf]
  OBVIOUS
<1>19. p3 = [shard |-> p.shard, execution_shard |-> p.execution_shard,
           start_pc |-> p.start_pc, next_pc |-> p.next_pc,
           exit_code |-> p.exit_code,
           committed_value_digest |-> p.committed_value_digest,
           deferred_proofs_digest |-> p.deferred_proofs_digest,
           previous_init_addr_bits |-> pi, last_init_addr_bits |-> li,
           previous_finalize_addr_bits |-> pf,
           last_finalize_addr_bits |-> p.last_finalize_addr_bits]
  BY <1>18, <1>16 DEF IsPv
<1>20. r5 = [cpu |-> r.cpu, precompile |-> r.precompile, init |-> x,
           finalize |-> y, pv |-> p3]
  <2>1. r4.pv = p2
    BY <1>17
  <2>2. r5 = [r4 EXCEPT !.pv = p3]
    BY <1>6, <1>18, <2>1, Zenon
  <2> QED
    BY <1>17, <2>2
<1>21. PICK p4 : p4 = [p3 EXCEPT !.last_finalize_addr_bits = lf]
  OBVIOUS
<1>22. p4 = [shard |-> p.shard, execution_shard |-> p.execution_shard,
           start_pc |-> p.start_pc, next_pc |-> p.next_pc,
           exit_code |-> p.exit_code,
           committed_value_digest |-> p.committed_value_digest,
           deferred_proofs_digest |-> p.deferred_proofs_digest,
           previous_init_addr_bits |-> pi, last_init_addr_bits |-> li,
           previous_finalize_addr_bits |-> pf, last_finalize_addr_bits |-> lf]
  BY <1>21, <1>19 DEF IsPv
<1>23. r6 = [cpu |-> r.cpu, precompile |-> r.precompile, init |-> x,
           finalize |-> y, pv |-> p4]
  <2>1. r5.pv = p3
    BY <1>20
  <2>2. r6 = [r5 EXCEPT !.pv = p4]
    BY <1>7, <1>21, <2>1, Zenon
  <2> QED
    BY <1>20, <2>2
<1>24. p4 = MemoryPv(r.pv, inits, finalizes, k)
  BY <1>1, <1>22 DEF MemoryPv, pi, li, pf, lf
<1> QED
  BY <1>8, <1>23, <1>24 DEF m, x, y

-----------------------------------------------------------------------------
(* The shards that split makes. *)

\* Chunks are not empty, and no longer than n; there is at most one of a short list.
LEMMA ChunkLengths ==
  ASSUME NEW S, NEW s \in Seq(S), NEW n \in Nat \ {0}
  PROVE  LET ch == Chunks(s, n)
         IN  /\ DOMAIN ch = 1 .. Len(ch) /\ Len(ch) \in Nat
             /\ \A k \in 1 .. Len(ch) : /\ ch[k] \in Seq(S) /\ ch[k] # <<>>
                                        /\ Len(ch[k]) <= n
             /\ Len(s) <= n => Len(ch) <= 1
<1> DEFINE l == Len(s)
           m == (l + n - 1) \div n
           End(k) == IF k * n < l THEN k * n ELSE l
           ch == Chunks(s, n)
<1>1. l \in Nat /\ m \in Nat /\ l <= m * n /\ m * n <= l + n - 1
  <2>1. l \in Nat
    OBVIOUS
  <2> HIDE DEF l
  <2> QED
    BY <2>1, Division
<1>2. ch = [k \in 1 .. m |-> SubSeq(s, (k - 1) * n + 1, End(k))]
  BY DEF Chunks
<1>3. ch \in Seq(Seq(S))
  BY ChunksFlatten
<1> HIDE DEF m, ch
<1>4. Len(ch) \in Nat /\ DOMAIN ch = 1 .. Len(ch) /\ Len(ch) = m
  BY <1>1, <1>2, <1>3
<1>5. ASSUME NEW k \in 1 .. m
      PROVE  ch[k] \in Seq(S) /\ Len(ch[k]) \in Nat /\ Len(ch[k]) # 0 /\ Len(ch[k]) <= n
  <2>1. k \in Nat /\ k * n \in Nat /\ (k - 1) * n \in Nat /\ (k - 1) * n + n = k * n
    BY <1>1, ChunkBounds
  <2>2. k < m => k * n + n <= m * n
    BY <1>1, ChunkBounds
  <2> DEFINE x == k * n
             y == (k - 1) * n
             z == m * n
  <2>3. k = m => x = z
    OBVIOUS
  <2>4. k < m \/ k = m
    BY <1>1
  <2>5. z \in Nat
    BY <1>1
  <2>6. ch[k] = SubSeq(s, y + 1, End(k)) /\ End(k) = IF x < l THEN x ELSE l
    BY <1>2
  <2> HIDE DEF x, y, z, l, End
  <2>7. x \in Nat /\ y \in Nat /\ y + n = x /\ z <= l + n - 1
    BY <1>1, <2>1 DEF x, y, z
  <2>8. k < m => x + n <= z
    BY <2>2 DEF x, z
  <2>9. y < l
    BY <1>1, <2>3, <2>4, <2>5, <2>7, <2>8
  <2>10. End(k) \in Nat /\ y <= End(k) /\ End(k) <= l /\ End(k) - y # 0 /\ End(k) - y \in Nat
         /\ End(k) - y <= n
    BY <1>1, <2>6, <2>7, <2>9
  <2>11. End(k) <= Len(s)
    BY <2>10 DEF l
  <2>12. SubSeq(s, y + 1, End(k)) \in Seq(S) /\ Len(SubSeq(s, y + 1, End(k))) = End(k) - y
    <3>1. PICK e : e = End(k) /\ e \in Nat /\ y <= e /\ e <= Len(s)
      BY <2>10, <2>11
    <3>2. SubSeq(s, y + 1, e) \in Seq(S) /\ Len(SubSeq(s, y + 1, e)) = e - y
      BY <2>7, <3>1
    <3> QED
      BY <3>1, <3>2
  <2> QED
    BY <2>6, <2>10, <2>12
<1>6. ASSUME Len(s) <= n PROVE m <= 1
  <2>1. SUFFICES ASSUME 1 < m PROVE FALSE
    BY <1>1
  <2>2. 1 \in 1 .. m
    BY <1>1, <2>1
  <2>3. 1 * n + n <= m * n
    BY <1>1, <2>1, <2>2, ChunkBounds
  <2> DEFINE z == m * n
  <2>4. z \in Nat
    BY <1>1
  <2>5. n + n <= z /\ z <= l + n - 1 /\ l <= n
    BY <1>1, <1>6, <2>3
  <2> HIDE DEF z, l
  <2> QED
    BY <1>1, <2>4, <2>5
<1>7. \A k \in 1 .. Len(ch) : ch[k] \in Seq(S) /\ ch[k] # <<>> /\ Len(ch[k]) <= n
  BY <1>4, <1>5
<1> QED
  BY <1>4, <1>6, <1>7 DEF ch

\* The shard of some events of a code, field by field.
LEMMA PrecompileShardIs ==
  ASSUME NEW c \in Codes, NEW ev
  PROVE  PrecompileShard(c, ev) =
           [cpu |-> FALSE, precompile |-> [NoEvents EXCEPT ![c] = ev], init |-> <<>>,
            finalize |-> <<>>, pv |-> PublicValuesDefault]
<1> DEFINE r == PrecompileShard(c, ev)
           t == [NoEvents EXCEPT ![c] = ev]
<1>1. r = [NewRecord EXCEPT !.precompile = [NewRecord.precompile EXCEPT ![c] = ev]]
  BY DEF PrecompileShard
<1>2. NewRecord.precompile = NoEvents
  BY DEF NewRecord
<1>3. r = [NewRecord EXCEPT !.precompile = t]
  BY <1>1, <1>2
<1> HIDE DEF t, r
<1>4. r = [cpu |-> FALSE, precompile |-> t, init |-> <<>>, finalize |-> <<>>,
           pv |-> PublicValuesDefault]
  BY <1>3 DEF NewRecord
<1> QED
  BY <1>4 DEF t, r

\* The precompile shards with events in E[c], for each code c.
ShardsIn(E) == UNION {{PrecompileShard(c, ev) : ev \in E[c]} : c \in Codes}

\* Every chunk that split takes of a code gives one.
LEMMA PrecompileShardsIn ==
  ASSUME NEW d, NEW last, NEW order \in IterationOrders, NEW E,
         \A c \in Codes : LET ch == ChunksOf(c, d.precompile[c])
                          IN  ch.full \in Seq(E[c]) /\ (ch.rest # <<>> => ch.rest \in E[c])
  PROVE  PrecompileShards(d, last, order) \in Seq(ShardsIn(E))
<1> DEFINE T == ShardsIn(E)
<1>1. ASSUME NEW c \in Codes PROVE CodeShards(d, c, last) \in Seq(T)
  <2> DEFINE ch == ChunksOf(c, d.precompile[c])
             P(ev) == PrecompileShard(c, ev)
             full == [k \in DOMAIN ch.full |-> P(ch.full[k])]
  <2>1. ch.full \in Seq(E[c]) /\ (ch.rest # <<>> => ch.rest \in E[c])
    OBVIOUS
  <2>2. CodeShards(d, c, last) = IF last /\ ch.rest # <<>>
                                 THEN Append(full, P(ch.rest)) ELSE full
    BY DEF CodeShards
  <2>3. \A ev \in E[c] : P(ev) \in T
    BY DEF ShardsIn
  <2> HIDE DEF ch, T, P
  <2>4. Len(ch.full) \in Nat /\ DOMAIN ch.full = 1 .. Len(ch.full)
        /\ \A k \in 1 .. Len(ch.full) : ch.full[k] \in E[c]
    BY <2>1
  <2>5. full \in [1 .. Len(ch.full) -> T]
    BY <2>3, <2>4
  <2>6. full \in Seq(T)
    BY <2>4, <2>5, FunctionIsSeq
  <2> HIDE DEF full
  <2>7. CASE last /\ ch.rest # <<>>
    <3>1. P(ch.rest) \in T
      BY <2>1, <2>3, <2>7
    <3> QED
      BY <2>2, <2>6, <2>7, <3>1
  <2>8. CASE ~(last /\ ch.rest # <<>>)
    BY <2>2, <2>6, <2>8
  <2> QED
    BY <2>7, <2>8
<1> DEFINE n == Cardinality(Codes)
           f == [i \in DOMAIN order |-> CodeShards(d, order[i], last)]
<1>2. n \in Nat /\ DOMAIN order = 1 .. n /\ \A i \in 1 .. n : order[i] \in Codes
  BY OrderVisits
<1> HIDE DEF n, T
<1>3. f \in [1 .. n -> Seq(T)]
  BY <1>1, <1>2
<1> HIDE DEF f
<1>4. f \in Seq(Seq(T))
  BY <1>2, <1>3, FunctionIsSeq
<1>5. FlattenSeq(f) \in Seq(T)
  BY <1>4, FlattenType
<1> QED
  BY <1>5 DEF f, PrecompileShards, T

\* The address bits at the end of a shard are those of its last event of that kind, or,
\* when it has none, those at its start.
BitsOk(events, previous, last) ==
    last = IF events = <<>> THEN previous ELSE AddrBits(Last(events))
MemoryBits(r) ==
    /\ BitsOk(r.init, r.pv.previous_init_addr_bits, r.pv.last_init_addr_bits)
    /\ BitsOk(r.finalize, r.pv.previous_finalize_addr_bits, r.pv.last_finalize_addr_bits)

\* r starts at the address bits that the shard before, with values p, ends at.
BitsFollow(p, r) ==
    /\ r.pv.previous_init_addr_bits = p.last_init_addr_bits
    /\ r.pv.previous_finalize_addr_bits = p.last_finalize_addr_bits

\* What split makes: shards without CPU events whose address bits chain from zero.
SplitChain(ss) ==
    /\ IsSeq(ss)
    /\ \A i \in DOMAIN ss :
          /\ IsRecord(ss[i]) /\ ss[i].cpu = FALSE /\ MemoryBits(ss[i])
          /\ BitsFollow(IF i = 1 THEN PublicValuesDefault ELSE ss[i - 1].pv, ss[i])

\* No chunk, no change of the last address; otherwise it is that of the chunk.
LEMMA LastAddrs ==
  ASSUME NEW ch, Len(ch) \in Nat, DOMAIN ch = 1 .. Len(ch),
         \A i \in 1 .. Len(ch) : ch[i] # <<>>, NEW k \in Nat \ {0}
  PROVE  /\ LastAddr(ch, 0) = 0
         /\ LastAddr(ch, k) = IF ChunkAt(ch, k) = <<>> THEN LastAddr(ch, k - 1)
                              ELSE Last(ChunkAt(ch, k))
<1> DEFINE m(j) == IF j < Len(ch) THEN j ELSE Len(ch)
<1>1. ASSUME NEW j \in Nat PROVE LastAddr(ch, j) = IF m(j) = 0 THEN 0 ELSE Last(ch[m(j)])
  BY Zenon DEF LastAddr
<1>2. LastAddr(ch, 0) = 0
  <2>1. m(0) = 0 /\ 0 \in Nat
    OBVIOUS
  <2> HIDE DEF m
  <2> QED
    BY <1>1, <2>1
<1>3. CASE k \in 1 .. Len(ch)
  <2>1. m(k) = k /\ m(k) # 0 /\ k \in Nat
    <3>1. PICK l \in Nat : l = Len(ch)
      OBVIOUS
    <3>2. k \in 1 .. l
      BY <1>3, <3>1
    <3>3. (IF k < l THEN k ELSE l) = k
      BY <3>2
    <3> QED
      BY <3>1, <3>3
  <2>2. ChunkAt(ch, k) = ch[k] /\ ch[k] # <<>>
    BY <1>3 DEF ChunkAt
  <2> HIDE DEF m
  <2>3. LastAddr(ch, k) = Last(ch[k])
    BY <1>1, <2>1
  <2> QED
    BY <1>2, <2>2, <2>3
<1>4. CASE k \notin 1 .. Len(ch)
  <2>1. m(k) = Len(ch) /\ m(k - 1) = Len(ch) /\ k \in Nat /\ k - 1 \in Nat
    <3>1. PICK l \in Nat : l = Len(ch)
      OBVIOUS
    <3>2. k \notin 1 .. l
      BY <1>4, <3>1
    <3>3. (IF k < l THEN k ELSE l) = l /\ (IF k - 1 < l THEN k - 1 ELSE l) = l /\ k - 1 \in Nat
      BY <3>2
    <3> QED
      BY <3>1, <3>3
  <2>2. ChunkAt(ch, k) = <<>>
    BY <1>4 DEF ChunkAt
  <2> HIDE DEF m
  <2>3. LastAddr(ch, k) = LastAddr(ch, k - 1)
    BY <1>1, <2>1
  <2> QED
    BY <1>2, <2>2, <2>3
<1> QED
  BY <1>3, <1>4

\* The default values, which new records and the first state have.
LEMMA DefaultIs ==
  /\ IsPv(PublicValuesDefault) /\ PublicValuesDefault.shard = 0
  /\ PublicValuesDefault.exit_code = 0
  /\ PublicValuesDefault.previous_init_addr_bits = ZeroBits
  /\ PublicValuesDefault.last_init_addr_bits = ZeroBits
  /\ PublicValuesDefault.previous_finalize_addr_bits = ZeroBits
  /\ PublicValuesDefault.last_finalize_addr_bits = ZeroBits
  /\ PublicValuesDefault.committed_value_digest = 0
  /\ PublicValuesDefault.deferred_proofs_digest = 0
  /\ IsRecord(NewRecord) /\ NewRecord.pv = PublicValuesDefault /\ NewRecord.cpu = FALSE
  /\ NewRecord.init = <<>> /\ NewRecord.finalize = <<>>
<1>1. PICK z : z = ZeroBits
  OBVIOUS
<1>2. PICK d : d = PublicValuesDefault
  OBVIOUS
<1>3. d = [shard |-> 0, execution_shard |-> 0, start_pc |-> 0, next_pc |-> 0,
           exit_code |-> 0, committed_value_digest |-> 0, deferred_proofs_digest |-> 0,
           previous_init_addr_bits |-> z, last_init_addr_bits |-> z,
           previous_finalize_addr_bits |-> z, last_finalize_addr_bits |-> z]
  BY <1>1, <1>2, Zenon DEF PublicValuesDefault
<1>4. /\ IsPv(d) /\ d.shard = 0 /\ d.exit_code = 0
      /\ d.previous_init_addr_bits = z /\ d.last_init_addr_bits = z
      /\ d.previous_finalize_addr_bits = z /\ d.last_finalize_addr_bits = z
      /\ d.committed_value_digest = 0 /\ d.deferred_proofs_digest = 0
  BY <1>3 DEF IsPv
<1>5. PICK r : r = NewRecord
  OBVIOUS
<1>6. r = [cpu |-> FALSE, precompile |-> NoEvents, init |-> <<>>, finalize |-> <<>>, pv |-> d]
  BY <1>2, <1>5, Zenon DEF NewRecord
<1>7. IsRecord(r) /\ r.pv = d /\ r.cpu = FALSE /\ r.init = <<>> /\ r.finalize = <<>>
  BY <1>6 DEF IsRecord
<1> QED
  BY <1>1, <1>2, <1>4, <1>5, <1>7

\* A list of non-empty chunks.
ChunkList(ch) ==
    /\ Len(ch) \in Nat /\ DOMAIN ch = 1 .. Len(ch)
    /\ \A i \in 1 .. Len(ch) : IsSeq(ch[i]) /\ ch[i] # <<>>

\* A memory chunk in a record that has no memory events.
LEMMA MemoryRecord ==
  ASSUME NEW r, IsRecord(r), IsPv(r.pv), r.init = <<>>, r.finalize = <<>>,
         NEW inits, ChunkList(inits), NEW finalizes, ChunkList(finalizes), NEW k \in Nat \ {0}
  PROVE  LET m == WithMemory(r, inits, finalizes, k)
         IN  /\ IsRecord(m) /\ m.cpu = r.cpu /\ m.precompile = r.precompile
             /\ m.init = ChunkAt(inits, k) /\ m.finalize = ChunkAt(finalizes, k)
             /\ m.pv = MemoryPv(r.pv, inits, finalizes, k) /\ MemoryBits(m)
<1> DEFINE x == ChunkAt(inits, k)
           y == ChunkAt(finalizes, k)
           pi == AddrBits(LastAddr(inits, k - 1))
           li == AddrBits(LastAddr(inits, k))
           pf == AddrBits(LastAddr(finalizes, k - 1))
           lf == AddrBits(LastAddr(finalizes, k))
           p == MemoryPv(r.pv, inits, finalizes, k)
<1>1. <<>> \o x = x /\ <<>> \o y = y
  <2>1. ASSUME NEW ch, ChunkList(ch) PROVE <<>> \o ChunkAt(ch, k) = ChunkAt(ch, k)
    <3>1. IsSeq(ChunkAt(ch, k))
      <4>1. IsSeq(<<>>)
        BY EventsNone DEF Silent
      <4> QED
        BY <2>1, <4>1 DEF ChunkAt, ChunkList
    <3> HIDE DEF ChunkAt
    <3> QED
      BY <3>1, ConcatIsSeq
  <2> QED
    BY <2>1
<1>2. PICK m : m = WithMemory(r, inits, finalizes, k)
  OBVIOUS
<1>3. m = [cpu |-> r.cpu, precompile |-> r.precompile, init |-> r.init \o x,
           finalize |-> r.finalize \o y, pv |-> p]
  BY <1>2, WithMemoryIs
<1>4. /\ p.previous_init_addr_bits = pi /\ p.last_init_addr_bits = li
      /\ p.previous_finalize_addr_bits = pf /\ p.last_finalize_addr_bits = lf
  BY DEF MemoryPv
<1>5. BitsOk(x, pi, li) /\ BitsOk(y, pf, lf)
  BY LastAddrs DEF BitsOk, ChunkList
<1> HIDE DEF x, y, pi, li, pf, lf, p
<1>6. m = [cpu |-> r.cpu, precompile |-> r.precompile, init |-> x, finalize |-> y, pv |-> p]
  BY <1>1, <1>3
<1>7. /\ IsRecord(m) /\ m.cpu = r.cpu /\ m.precompile = r.precompile
      /\ m.init = x /\ m.finalize = y /\ m.pv = p
  BY <1>6 DEF IsRecord
<1>8. MemoryBits(m)
  BY <1>4, <1>5, <1>7 DEF MemoryBits
<1> QED
  BY <1>2, <1>7, <1>8 DEF x, y, p

\* The elements of a concatenation.
LEMMA ConcatParts ==
  ASSUME NEW a, IsSeq(a), NEW b, IsSeq(b)
  PROVE  /\ Len(a) \in Nat /\ Len(b) \in Nat /\ DOMAIN a = 1 .. Len(a) /\ DOMAIN b = 1 .. Len(b)
         /\ DOMAIN (a \o b) = 1 .. Len(a) + Len(b)
         /\ \A i \in 1 .. Len(a) : (a \o b)[i] = a[i]
         /\ \A i \in 1 .. Len(b) : (a \o b)[Len(a) + i] = b[i]
<1> DEFINE S == Range(a) \cup Range(b)
<1>1. a \in Seq(S) /\ b \in Seq(S)
  <2>1. a \in Seq(Range(a)) /\ b \in Seq(Range(b))
    BY DEF IsSeq
  <2> QED
    BY <2>1
<1> HIDE DEF S
<1> QED
  BY <1>1

\* The memory events cut into chunks at the end; few of them are one chunk at most.
MemoryChunks(s) == Chunks(SortByAddr(s), MemoryChunk)

\* The chunks of the memory events, sorted by address.
LEMMA MemoryChunkList ==
  ASSUME NEW s, Len(s) \in Nat
  PROVE  /\ ChunkList(MemoryChunks(s))
         /\ \A k \in 1 .. Len(MemoryChunks(s)) : Len(MemoryChunks(s)[k]) <= MemoryChunk
         /\ Len(s) <= MemoryChunk => Len(MemoryChunks(s)) <= 1
<1> DEFINE t == SortByAddr(s)
           ch == Chunks(t, MemoryChunk)
<1>1. t \in Seq(Range(t)) /\ Len(t) = Len(s)
  BY SortedChunks, SortLen
<1>2. MemoryChunk \in Nat \ {0}
  BY SplitAssumption
<1> HIDE DEF t
<1>3. /\ DOMAIN ch = 1 .. Len(ch) /\ Len(ch) \in Nat
      /\ \A k \in 1 .. Len(ch) : /\ ch[k] \in Seq(Range(t)) /\ ch[k] # <<>>
                                 /\ Len(ch[k]) <= MemoryChunk
      /\ Len(t) <= MemoryChunk => Len(ch) <= 1
  BY <1>1, <1>2, ChunkLengths
<1> HIDE DEF ch
<1>4. \A k \in 1 .. Len(ch) : IsSeq(ch[k])
  BY <1>3, SeqIsSeq
<1> QED
  BY <1>1, <1>3, <1>4 DEF ChunkList, MemoryChunks, t, ch

\* The memory shards chain from zero.
LEMMA MemoryShardsChain ==
  ASSUME NEW inits, ChunkList(inits), NEW finalizes, ChunkList(finalizes), NEW n \in Nat
  PROVE  LET ms == [k \in 1 .. n |-> WithMemory(NewRecord, inits, finalizes, k)]
         IN  SplitChain(ms)
<1> DEFINE W(k) == WithMemory(NewRecord, inits, finalizes, k)
           P(k) == MemoryPv(PublicValuesDefault, inits, finalizes, k)
           ms == [k \in 1 .. n |-> W(k)]
<1>1. ASSUME NEW k \in Nat \ {0}
      PROVE  IsRecord(W(k)) /\ W(k).cpu = FALSE /\ W(k).pv = P(k) /\ MemoryBits(W(k))
  <2>1. PICK r : r = NewRecord
    OBVIOUS
  <2>2. IsRecord(r) /\ IsPv(r.pv) /\ r.init = <<>> /\ r.finalize = <<>> /\ r.cpu = FALSE
        /\ r.pv = PublicValuesDefault
    BY <2>1, DefaultIs
  <2>3. LET m == WithMemory(r, inits, finalizes, k)
        IN  IsRecord(m) /\ m.cpu = r.cpu /\ MemoryBits(m)
            /\ m.pv = MemoryPv(r.pv, inits, finalizes, k)
    BY <2>2, MemoryRecord
  <2> QED
    BY <2>1, <2>2, <2>3
<1>2. ASSUME NEW k \in Nat
      PROVE  /\ P(k).previous_init_addr_bits = AddrBits(LastAddr(inits, k - 1))
             /\ P(k).last_init_addr_bits = AddrBits(LastAddr(inits, k))
             /\ P(k).previous_finalize_addr_bits = AddrBits(LastAddr(finalizes, k - 1))
             /\ P(k).last_finalize_addr_bits = AddrBits(LastAddr(finalizes, k))
  BY DEF MemoryPv
<1>3. LastAddr(inits, 0) = 0 /\ LastAddr(finalizes, 0) = 0 /\ AddrBits(0) = ZeroBits
  <2>1. 1 \in Nat \ {0}
    OBVIOUS
  <2> QED
    BY <2>1, LastAddrs DEF ChunkList, ZeroBits
<1> HIDE DEF W, P
<1>4. IsSeq(ms) /\ DOMAIN ms = 1 .. n
  <2>1. ms \in [1 .. n -> {W(k) : k \in 1 .. n}]
    OBVIOUS
  <2> HIDE DEF ms
  <2> QED
    BY <2>1, FunctionIsSeq
<1>5. ASSUME NEW k \in 1 .. n PROVE k \in Nat \ {0} /\ k \in Nat /\ ms[k] = W(k)
  OBVIOUS
<1> HIDE DEF ms
<1>6. ASSUME NEW k \in 1 .. n
      PROVE  BitsFollow(IF k = 1 THEN PublicValuesDefault ELSE ms[k - 1].pv, ms[k])
  <2>1. k \in Nat \ {0} /\ k \in Nat /\ ms[k] = W(k) /\ ms[k].pv = P(k)
    BY <1>1, <1>5
  <2>2. CASE k = 1
    <3>1. k - 1 = 0
      BY <2>2
    <3>2. P(k).previous_init_addr_bits = ZeroBits /\ P(k).previous_finalize_addr_bits = ZeroBits
      BY <1>2, <1>3, <2>1, <3>1
    <3> QED
      BY <2>1, <2>2, <3>2, DefaultIs DEF BitsFollow
  <2>3. CASE k # 1
    <3>1. k - 1 \in Nat \ {0} /\ k - 1 \in 1 .. n /\ k - 1 \in Nat
      BY <2>3
    <3>2. ms[k - 1] = W(k - 1)
      BY <1>5, <3>1
    <3>3. ms[k - 1].pv = P(k - 1)
      BY <1>1, <3>1, <3>2
    <3> QED
      BY <1>2, <2>1, <2>3, <3>1, <3>3 DEF BitsFollow
  <2> QED
    BY <2>2, <2>3
<1>7. ASSUME NEW k \in 1 .. n PROVE IsRecord(ms[k]) /\ ms[k].cpu = FALSE /\ MemoryBits(ms[k])
  BY <1>1, <1>5
<1>8. SplitChain(ms)
  BY <1>4, <1>6, <1>7 DEF SplitChain
<1> QED
  BY <1>8 DEF ms, W

\* Shards with the default values may come before.
LEMMA DefaultsFirst ==
  ASSUME NEW a, IsSeq(a),
         \A i \in DOMAIN a : /\ IsRecord(a[i]) /\ a[i].cpu = FALSE
                             /\ a[i].pv = PublicValuesDefault
                             /\ a[i].init = <<>> /\ a[i].finalize = <<>>,
         NEW b, SplitChain(b)
  PROVE  SplitChain(a \o b)
<1> DEFINE t == a \o b
           D == PublicValuesDefault
<1>1. IsSeq(b) /\ IsSeq(t)
  BY ConcatIsSeq DEF SplitChain
<1>2. /\ Len(a) \in Nat /\ Len(b) \in Nat /\ DOMAIN a = 1 .. Len(a) /\ DOMAIN b = 1 .. Len(b)
      /\ DOMAIN t = 1 .. Len(a) + Len(b)
      /\ \A i \in 1 .. Len(a) : t[i] = a[i]
      /\ \A i \in 1 .. Len(b) : t[Len(a) + i] = b[i]
  BY <1>1, ConcatParts
<1>3. ASSUME NEW r, r.pv = D, r.init = <<>>, r.finalize = <<>>, NEW p, p = D
      PROVE  MemoryBits(r) /\ BitsFollow(p, r)
  <2>1. /\ D.previous_init_addr_bits = ZeroBits /\ D.last_init_addr_bits = ZeroBits
        /\ D.previous_finalize_addr_bits = ZeroBits /\ D.last_finalize_addr_bits = ZeroBits
    BY DefaultIs
  <2> HIDE DEF D
  <2> QED
    BY <1>3, <2>1 DEF MemoryBits, BitsOk, BitsFollow
<1> HIDE DEF t
<1>4. ASSUME NEW i \in DOMAIN t
      PROVE  /\ IsRecord(t[i]) /\ t[i].cpu = FALSE /\ MemoryBits(t[i])
             /\ BitsFollow(IF i = 1 THEN D ELSE t[i - 1].pv, t[i])
  <2>1. CASE i \in 1 .. Len(a)
    <3>1. i # 1 => i - 1 \in 1 .. Len(a)
      BY <1>2, <2>1
    <3>2. (IF i = 1 THEN D ELSE t[i - 1].pv) = D
      BY <1>2, <3>1
    <3> HIDE DEF D
    <3> QED
      BY <1>2, <1>3, <2>1, <3>2 DEF D
  <2>2. CASE i \notin 1 .. Len(a)
    <3>1. PICK j \in 1 .. Len(b) : i = Len(a) + j
      <4>1. i - Len(a) \in 1 .. Len(b) /\ i = Len(a) + (i - Len(a))
        BY <1>2, <2>2
      <4> QED
        BY <4>1
    <3>2. t[i] = b[j]
      BY <1>2, <3>1
    <3>3. (IF i = 1 THEN D ELSE t[i - 1].pv) = (IF j = 1 THEN D ELSE b[j - 1].pv)
      <4>1. CASE j = 1
        <5>1. i = Len(a) + 1
          BY <3>1, <4>1
        <5>2. i # 1 => i - 1 \in 1 .. Len(a)
          BY <1>2, <5>1
        <5>3. i # 1 => t[i - 1].pv = D
          BY <1>2, <5>2
        <5> QED
          BY <4>1, <5>3
      <4>2. CASE j # 1
        <5>1. j - 1 \in 1 .. Len(b) /\ i - 1 = Len(a) + (j - 1) /\ i # 1
          BY <1>2, <3>1, <4>2
        <5>2. t[i - 1] = b[j - 1]
          BY <1>2, <5>1
        <5> QED
          BY <4>2, <5>1, <5>2
      <4> QED
        BY <4>1, <4>2
    <3> HIDE DEF D
    <3> QED
      BY <1>2, <3>2, <3>3 DEF SplitChain, D
  <2> QED
    BY <2>1, <2>2
<1> QED
  BY <1>1, <1>4 DEF SplitChain, t

\* What split makes of the deferred record: shards that chain, and the last record as it
\* was, unless the memory events were packed into it.
LEMMA SplitShards ==
  ASSUME NEW d \in DeferredRecord, NEW last \in BOOLEAN, NEW lastRecord,
         NEW order \in IterationOrders
  PROVE  LET sp == Split(d, last, lastRecord, order)
             inits == MemoryChunks(d.init)
             finalizes == MemoryChunks(d.finalize)
         IN  /\ SplitChain(sp.shards)
             /\ ~last => \A i \in DOMAIN sp.shards : sp.shards[i].pv = PublicValuesDefault
             /\ \/ sp.lastRecord = lastRecord
                \/ /\ last /\ lastRecord # <<>> /\ sp.shards = <<>>
                   /\ sp.lastRecord = <<PackMemory(lastRecord[1], inits, finalizes,
                                                   NumMemoryChunks(inits, finalizes))>>
<1> DEFINE pre == PrecompileShards(d, last, order)
           sorted == [d EXCEPT !.precompile = Remainders(d, last),
                               !.init = IF last THEN SortByAddr(@) ELSE @,
                               !.finalize = IF last THEN SortByAddr(@) ELSE @]
           inits == Chunks(sorted.init, MemoryChunk)
           finalizes == Chunks(sorted.finalize, MemoryChunk)
           n == IF last THEN NumMemoryChunks(inits, finalizes) ELSE 0
           mem == [k \in 1 .. n |-> WithMemory(NewRecord, inits, finalizes, k)]
           pack == last /\ lastRecord # <<>> /\ pre = <<>>
           sp == Split(d, last, lastRecord, order)
<1>1. sp = IF pack
           THEN [shards |-> <<>>, deferred |-> sorted,
                 lastRecord |-> <<PackMemory(lastRecord[1], inits, finalizes, n)>>]
           ELSE [shards |-> pre \o mem, deferred |-> sorted, lastRecord |-> lastRecord]
  BY Zenon DEF Split
<1>2. /\ \A c \in Codes : d.precompile[c] \in Seq(Event)
      /\ Len(d.init) \in Nat /\ Len(d.finalize) \in Nat
  BY DEF DeferredRecord
<1>3. last => sorted.init = SortByAddr(d.init) /\ sorted.finalize = SortByAddr(d.finalize)
  BY DEF DeferredRecord
<1>4. last => inits = MemoryChunks(d.init) /\ finalizes = MemoryChunks(d.finalize)
  <2> HIDE DEF sorted
  <2> QED
    BY <1>3 DEF MemoryChunks
<1>5. last => ChunkList(inits) /\ ChunkList(finalizes)
  <2> HIDE DEF inits, finalizes, sorted
  <2> QED
    BY <1>2, <1>4, MemoryChunkList
<1>6. IsSeq(pre) /\ \A i \in DOMAIN pre : /\ IsRecord(pre[i]) /\ pre[i].cpu = FALSE
                                          /\ pre[i].pv = PublicValuesDefault
                                          /\ pre[i].init = <<>> /\ pre[i].finalize = <<>>
  <2> DEFINE E == [c \in Codes |-> Seq(Event)]
  <2>1. \A c \in Codes : LET ch == ChunksOf(c, d.precompile[c])
                         IN  ch.full \in Seq(E[c]) /\ (ch.rest # <<>> => ch.rest \in E[c])
    BY <1>2, ChunksOfEvents
  <2>2. pre \in Seq(ShardsIn(E))
    <3> HIDE DEF E
    <3> QED
      BY <2>1, PrecompileShardsIn
  <2>3. ASSUME NEW r \in ShardsIn(E)
        PROVE  /\ IsRecord(r) /\ r.cpu = FALSE /\ r.pv = PublicValuesDefault
               /\ r.init = <<>> /\ r.finalize = <<>>
    <3>1. \E c \in Codes : \E ev \in E[c] : r = PrecompileShard(c, ev)
      BY DEF ShardsIn
    <3>2. PICK c \in Codes : \E ev \in E[c] : r = PrecompileShard(c, ev)
      BY <3>1
    <3>3. PICK ev \in E[c] : r = PrecompileShard(c, ev)
      BY <3>2
    <3>4. r = [cpu |-> FALSE, precompile |-> [NoEvents EXCEPT ![c] = ev], init |-> <<>>,
               finalize |-> <<>>, pv |-> PublicValuesDefault]
      BY <3>3, PrecompileShardIs
    <3>5. PICK x, p : /\ x = [NoEvents EXCEPT ![c] = ev] /\ p = PublicValuesDefault
                      /\ r = [cpu |-> FALSE, precompile |-> x, init |-> <<>>,
                              finalize |-> <<>>, pv |-> p]
      BY <3>4, Zenon
    <3> QED
      BY <3>5 DEF IsRecord
  <2> HIDE DEF E, pre
  <2>4. IsSeq(pre) /\ DOMAIN pre = 1 .. Len(pre) /\ \A i \in 1 .. Len(pre) : pre[i] \in ShardsIn(E)
    BY <2>2, SeqIsSeq
  <2> QED
    BY <2>3, <2>4
<1>7. SplitChain(<<>>)
  <2>1. IsSeq(<<>>) /\ DOMAIN <<>> = {}
    BY EventsNone DEF Silent
  <2> QED
    BY <2>1 DEF SplitChain
<1>8. ~last => mem = <<>>
  <2> SUFFICES ASSUME ~last PROVE mem = <<>>
    OBVIOUS
  <2>1. n = 0
    OBVIOUS
  <2> HIDE DEF n
  <2>2. mem \in [1 .. 0 -> {}]
    BY <2>1
  <2> HIDE DEF mem
  <2>3. mem \in Seq({}) /\ Len(mem) = 0
    BY <2>2, FunctionIsSeq
  <2> QED
    BY <2>3, EmptySeq
<1>9. SplitChain(mem)
  <2>1. CASE ~last
    BY <1>7, <1>8, <2>1
  <2>2. CASE last
    <3>1. n \in Nat
      <4> HIDE DEF inits, finalizes
      <4> QED
        BY <1>5, <2>2 DEF NumMemoryChunks, ChunkList
    <3> HIDE DEF inits, finalizes, n
    <3> QED
      BY <1>5, <2>2, <3>1, MemoryShardsChain
  <2> QED
    BY <2>1, <2>2
<1> HIDE DEF pre, sorted, inits, finalizes, n, mem, sp
<1>10. SplitChain(pre \o mem)
  BY <1>6, <1>9, DefaultsFirst
<1>11. SplitChain(sp.shards)
  BY <1>1, <1>7, <1>10
<1>12. ~last => \A i \in DOMAIN sp.shards : sp.shards[i].pv = PublicValuesDefault
  <2> SUFFICES ASSUME ~last PROVE \A i \in DOMAIN sp.shards : sp.shards[i].pv = PublicValuesDefault
    OBVIOUS
  <2>1. pre \o <<>> = pre
    BY <1>6, ConcatIsSeq
  <2>2. sp.shards = pre
    BY <1>1, <1>8, <2>1
  <2> QED
    BY <1>6, <2>2
<1>13. \/ sp.lastRecord = lastRecord
       \/ /\ last /\ lastRecord # <<>> /\ sp.shards = <<>>
          /\ sp.lastRecord = <<PackMemory(lastRecord[1], inits, finalizes,
                                          NumMemoryChunks(inits, finalizes))>>
  <2>1. CASE pack
    <3>1. sp.shards = <<>> /\ sp.lastRecord = <<PackMemory(lastRecord[1], inits, finalizes, n)>>
      BY <1>1, <2>1
    <3>2. n = NumMemoryChunks(inits, finalizes)
      BY <2>1 DEF n
    <3> QED
      BY <2>1, <3>1, <3>2
  <2>2. CASE ~pack
    BY <1>1, <2>2
  <2> QED
    BY <2>1, <2>2
<1> QED
  BY <1>4, <1>11, <1>12, <1>13, Zenon DEF sp

\* The public values p are q but for the address bits at the end.
SameButLast(p, q) ==
    /\ p.shard = q.shard /\ p.execution_shard = q.execution_shard
    /\ p.start_pc = q.start_pc /\ p.next_pc = q.next_pc /\ p.exit_code = q.exit_code
    /\ p.committed_value_digest = q.committed_value_digest
    /\ p.deferred_proofs_digest = q.deferred_proofs_digest
    /\ p.previous_init_addr_bits = q.previous_init_addr_bits
    /\ p.previous_finalize_addr_bits = q.previous_finalize_addr_bits

ZeroAddresses(p) ==
    /\ p.previous_init_addr_bits = ZeroBits /\ p.last_init_addr_bits = ZeroBits
    /\ p.previous_finalize_addr_bits = ZeroBits /\ p.last_finalize_addr_bits = ZeroBits

\* One chunk at most of each kind packed into a record.
LEMMA PackOnce ==
  ASSUME NEW r, IsRecord(r), IsPv(r.pv), r.init = <<>>, r.finalize = <<>>, ZeroAddresses(r.pv),
         NEW inits, ChunkList(inits), Len(inits) <= 1,
         NEW finalizes, ChunkList(finalizes), Len(finalizes) <= 1
  PROVE  LET m == PackMemory(r, inits, finalizes, NumMemoryChunks(inits, finalizes))
         IN  /\ IsRecord(m) /\ m.cpu = r.cpu /\ m.precompile = r.precompile /\ MemoryBits(m)
             /\ SameButLast(m.pv, r.pv)
             /\ \/ m.init = <<>> /\ m.finalize = <<>>
                \/ m.init = ChunkAt(inits, 1) /\ m.finalize = ChunkAt(finalizes, 1)
<1> DEFINE n == NumMemoryChunks(inits, finalizes)
<1>1. n \in Nat /\ (n = 0 \/ n = 1)
  BY DEF NumMemoryChunks, ChunkList
<1> HIDE DEF n
<1>2. PICK f : Packs(f, r, inits, finalizes, n) /\ PackMemory(r, inits, finalizes, n) = f[n]
  BY <1>1, PackMemoryLoop, SMTT(30)
<1>3. CASE n = 0
  <2>1. PackMemory(r, inits, finalizes, n) = r
    BY <1>2, <1>3 DEF Packs
  <2>2. MemoryBits(r)
    BY DEF MemoryBits, BitsOk, ZeroAddresses
  <2>3. SameButLast(r.pv, r.pv)
    BY DEF SameButLast
  <2> QED
    BY <2>1, <2>2, <2>3 DEF n
<1>4. CASE n = 1
  <2> DEFINE p == MemoryPv(r.pv, inits, finalizes, 1)
  <2>1. f[0] = r /\ f[1] = WithMemory(f[1 - 1], inits, finalizes, 1)
    BY <1>2, <1>4 DEF Packs
  <2>2. 1 - 1 = 0
    OBVIOUS
  <2>3. PICK m : m = WithMemory(r, inits, finalizes, 1) /\ m = PackMemory(r, inits, finalizes, n)
    BY <1>2, <1>4, <2>1, <2>2
  <2>4. /\ IsRecord(m) /\ m.cpu = r.cpu /\ m.precompile = r.precompile
        /\ m.init = ChunkAt(inits, 1) /\ m.finalize = ChunkAt(finalizes, 1)
        /\ m.pv = p /\ MemoryBits(m)
    <3>1. 1 \in Nat \ {0}
      OBVIOUS
    <3> QED
      BY <2>3, <3>1, MemoryRecord
  <2>5. SameButLast(p, r.pv)
    <3>1. LastAddr(inits, 0) = 0 /\ LastAddr(finalizes, 0) = 0 /\ AddrBits(0) = ZeroBits
      <4>1. 1 \in Nat \ {0}
        OBVIOUS
      <4> QED
        BY <4>1, LastAddrs DEF ChunkList, ZeroBits
    <3>2. PICK z : z = ZeroBits
      OBVIOUS
    <3>3. PICK q : q = r.pv
      OBVIOUS
    <3>4. /\ p.previous_init_addr_bits = z /\ p.previous_finalize_addr_bits = z
      BY <2>2, <3>1, <3>2 DEF MemoryPv
    <3>5. /\ p.shard = q.shard /\ p.execution_shard = q.execution_shard
          /\ p.start_pc = q.start_pc /\ p.next_pc = q.next_pc /\ p.exit_code = q.exit_code
          /\ p.committed_value_digest = q.committed_value_digest
          /\ p.deferred_proofs_digest = q.deferred_proofs_digest
      BY <3>3 DEF MemoryPv
    <3> HIDE DEF p
    <3> QED
      BY <3>2, <3>3, <3>4, <3>5 DEF SameButLast, ZeroAddresses
  <2> HIDE DEF p
  <2> QED
    BY <2>3, <2>4, <2>5 DEF n
<1> QED
  BY <1>1, <1>3, <1>4

-----------------------------------------------------------------------------
(* Shards that the verifier accepts one after the other. *)

\* A digest that is not zero stays, and only a CPU shard may change a zero one.
DigestFollows(cpu, before, after) == before # 0 \/ ~cpu => after = before

\* Shard r may come after one with public values p.
Linked(p, r) ==
    /\ r.pv.start_pc = p.next_pc
    /\ r.cpu => r.pv.start_pc # 0
    /\ ~r.cpu => r.pv.start_pc = r.pv.next_pc
    /\ r.pv.exit_code = 0
    /\ BitsFollow(p, r) /\ MemoryBits(r)
    /\ DigestFollows(r.cpu, p.committed_value_digest, r.pv.committed_value_digest)
    /\ DigestFollows(r.cpu, p.deferred_proofs_digest, r.pv.deferred_proofs_digest)

\* The shards t come after m shards, the last of which has public values p, and end at q.
Before(p, t, i) == IF i = 1 THEN p ELSE t[i - 1].pv
Chain(p, m, t) ==
    /\ IsSeq(t)
    /\ \A i \in DOMAIN t : t[i].pv.shard = m + i /\ Linked(Before(p, t, i), t[i])
Ends(p, t) == IF Len(t) = 0 THEN p ELSE t[Len(t)].pv

\* Chains can be joined.
LEMMA ChainConcat ==
  ASSUME NEW p, NEW m \in Nat, NEW a, Chain(p, m, a), NEW b, Chain(Ends(p, a), m + Len(a), b)
  PROVE  /\ Chain(p, m, a \o b) /\ Ends(p, a \o b) = Ends(Ends(p, a), b)
         /\ Len(a \o b) = Len(a) + Len(b)
<1> DEFINE t == a \o b
           q == Ends(p, a)
<1>1. IsSeq(a) /\ IsSeq(b) /\ IsSeq(t) /\ Len(t) = Len(a) + Len(b)
  BY ConcatIsSeq DEF Chain
<1>2. /\ Len(a) \in Nat /\ Len(b) \in Nat /\ DOMAIN a = 1 .. Len(a) /\ DOMAIN b = 1 .. Len(b)
      /\ DOMAIN t = 1 .. Len(a) + Len(b)
      /\ \A i \in 1 .. Len(a) : t[i] = a[i]
      /\ \A i \in 1 .. Len(b) : t[Len(a) + i] = b[i]
  BY <1>1, ConcatParts
<1>3. q = IF Len(a) = 0 THEN p ELSE a[Len(a)].pv
  BY DEF Ends
<1> HIDE DEF t, q
<1>4. ASSUME NEW i \in DOMAIN t PROVE t[i].pv.shard = m + i /\ Linked(Before(p, t, i), t[i])
  <2>1. CASE i \in 1 .. Len(a)
    <3>1. i # 1 => i - 1 \in 1 .. Len(a)
      BY <1>2, <2>1
    <3>2. Before(p, t, i) = Before(p, a, i) /\ t[i] = a[i]
      BY <1>2, <2>1, <3>1 DEF Before
    <3> QED
      BY <1>2, <2>1, <3>2 DEF Chain
  <2>2. CASE i \notin 1 .. Len(a)
    <3>1. PICK j \in 1 .. Len(b) : i = Len(a) + j
      <4>1. i - Len(a) \in 1 .. Len(b) /\ i = Len(a) + (i - Len(a))
        BY <1>2, <2>2
      <4> QED
        BY <4>1
    <3>2. t[i] = b[j] /\ m + i = (m + Len(a)) + j
      BY <1>2, <3>1
    <3>3. Before(p, t, i) = Before(q, b, j)
      <4>1. CASE j = 1
        <5>1. i = Len(a) + 1
          BY <3>1, <4>1
        <5>2. CASE Len(a) = 0
          BY <1>3, <4>1, <5>1, <5>2 DEF Before
        <5>3. CASE Len(a) # 0
          <6>1. Len(a) \in 1 .. Len(a) /\ i - 1 = Len(a) /\ i # 1
            BY <1>2, <5>1, <5>3
          <6>2. t[i - 1] = a[Len(a)]
            BY <1>2, <6>1
          <6> QED
            BY <1>3, <4>1, <5>3, <6>1, <6>2 DEF Before
        <5> QED
          BY <5>2, <5>3
      <4>2. CASE j # 1
        <5>1. j - 1 \in 1 .. Len(b) /\ i - 1 = Len(a) + (j - 1) /\ i # 1
          BY <1>2, <3>1, <4>2
        <5>2. t[i - 1] = b[j - 1]
          BY <1>2, <5>1
        <5> QED
          BY <4>2, <5>1, <5>2 DEF Before
      <4> QED
        BY <4>1, <4>2
    <3>4. b[j].pv.shard = (m + Len(a)) + j /\ Linked(Before(q, b, j), b[j])
      BY <1>2 DEF Chain, q
    <3> QED
      BY <3>2, <3>3, <3>4
  <2> QED
    BY <2>1, <2>2
<1>5. Ends(p, t) = Ends(q, b)
  <2>1. CASE Len(b) = 0
    <3>1. Len(t) = Len(a)
      BY <1>1, <1>2, <2>1
    <3>2. Len(a) # 0 => Len(a) \in 1 .. Len(a)
      BY <1>2
    <3> QED
      BY <1>2, <1>3, <2>1, <3>1, <3>2 DEF Ends
  <2>2. CASE Len(b) # 0
    <3>1. Len(b) \in 1 .. Len(b) /\ Len(t) = Len(a) + Len(b) /\ Len(t) # 0
      BY <1>1, <1>2, <2>2
    <3>2. t[Len(t)] = b[Len(b)]
      BY <1>2, <3>1
    <3> QED
      BY <2>2, <3>1, <3>2 DEF Ends
  <2> QED
    BY <2>1, <2>2
<1>6. Chain(p, m, t)
  BY <1>1, <1>4 DEF Chain
<1> QED
  BY <1>1, <1>5, <1>6 DEF t, q

\* The CPU shards among the first i.
CpuCount(t, i) == Cardinality({j \in 1 .. i : t[j].cpu})

\* Each of them has its number.
CpuNumbered(t) == \A i \in DOMAIN t : t[i].cpu => t[i].pv.execution_shard = CpuCount(t, i)

\* Shards that are all CPU shards, or none of which is, after others.
LEMMA CountConcat ==
  ASSUME NEW a, IsSeq(a), NEW b, IsSeq(b), NEW v \in BOOLEAN, \A i \in DOMAIN b : b[i].cpu = v
  PROVE  /\ \A i \in 0 .. Len(a) : CpuCount(a \o b, i) = CpuCount(a, i)
         /\ CpuCount(a, Len(a)) \in Nat
         /\ \A i \in 0 .. Len(b) :
               CpuCount(a \o b, Len(a) + i) = CpuCount(a, Len(a)) + (IF v THEN i ELSE 0)
<1> DEFINE t == a \o b
           l == Len(a)
           A == {j \in 1 .. l : a[j].cpu}
<1>1. /\ l \in Nat /\ Len(b) \in Nat /\ DOMAIN a = 1 .. l /\ DOMAIN b = 1 .. Len(b)
      /\ \A i \in 1 .. l : t[i] = a[i]
      /\ \A i \in 1 .. Len(b) : t[l + i] = b[i]
  BY ConcatParts
<1> HIDE DEF t, l
<1>2. IsFiniteSet(A) /\ Cardinality(A) \in Nat
  <2>1. IsFiniteSet(1 .. l)
    <3>1. 1 \in Int /\ l \in Int
      BY <1>1
    <3> QED
      BY <3>1, FS_Interval
  <2>2. A \subseteq 1 .. l
    OBVIOUS
  <2> HIDE DEF A
  <2> QED
    BY <2>1, <2>2, FS_Subset, FS_CardinalityType
<1>3. ASSUME NEW i \in 0 .. l PROVE CpuCount(t, i) = CpuCount(a, i)
  <2>1. {j \in 1 .. i : t[j].cpu} = {j \in 1 .. i : a[j].cpu}
    <3>1. \A j \in 1 .. i : j \in 1 .. l
      BY <1>1
    <3>2. \A j \in 1 .. i : t[j] = a[j]
      BY <1>1, <3>1
    <3> QED
      BY <3>2
  <2> QED
    BY <2>1 DEF CpuCount
<1>4. ASSUME NEW i \in 0 .. Len(b)
      PROVE  CpuCount(t, l + i) = Cardinality(A) + (IF v THEN i ELSE 0)
  <2> DEFINE X == {j \in 1 .. l + i : t[j].cpu}
             I == (l + 1) .. (l + i)
  <2>1. ASSUME NEW j \in 1 .. l + i PROVE IF j \in 1 .. l THEN t[j].cpu = a[j].cpu ELSE t[j].cpu = v
    <3>1. CASE j \in 1 .. l
      BY <1>1, <3>1
    <3>2. CASE j \notin 1 .. l
      <4>1. j - l \in 1 .. Len(b) /\ j = l + (j - l)
        BY <1>1, <3>2
      <4>2. t[j] = b[j - l]
        BY <1>1, <4>1
      <4>3. b[j - l].cpu = v
        BY <1>1, <4>1
      <4> QED
        BY <3>2, <4>2, <4>3
    <3> QED
      BY <3>1, <3>2
  <2>2. CASE v = FALSE
    <3>1. X = A
      <4>1. ASSUME NEW j PROVE j \in X <=> j \in A
        <5>1. j \in 1 .. l => j \in 1 .. l + i
          BY <1>1
        <5> QED
          BY <2>1, <2>2, <5>1
      <4> HIDE DEF X, A
      <4> QED
        BY <4>1
    <3> HIDE DEF A
    <3> QED
      BY <1>2, <2>2, <3>1 DEF CpuCount
  <2>3. CASE v = TRUE
    <3>1. X = A \cup I
      <4>1. ASSUME NEW j PROVE j \in X <=> j \in A \cup I
        <5>1. j \in 1 .. l => j \in 1 .. l + i
          BY <1>1
        <5>2. j \in I <=> j \in 1 .. l + i /\ j \notin 1 .. l
          BY <1>1
        <5> HIDE DEF I
        <5> QED
          BY <2>1, <2>3, <5>1, <5>2
      <4> HIDE DEF X, A, I
      <4> QED
        BY <4>1
    <3>2. A \cap I = {}
      BY <1>1
    <3>3. IsFiniteSet(I) /\ Cardinality(I) = i
      <4>1. l + 1 \in Int /\ l + i \in Int
        BY <1>1
      <4>2. Cardinality(I) = IF l + 1 > l + i THEN 0 ELSE (l + i) - (l + 1) + 1
        BY <4>1, FS_Interval
      <4>3. IsFiniteSet(I)
        BY <4>1, FS_Interval
      <4> HIDE DEF I
      <4> QED
        BY <1>1, <4>2, <4>3
    <3> HIDE DEF A, I
    <3>4. Cardinality(A \cup I) = Cardinality(A) + Cardinality(I) - Cardinality(A \cap I)
      BY <1>2, <3>3, FS_Union
    <3>5. Cardinality(A \cap I) = 0
      BY <3>2, FS_EmptySet
    <3> HIDE DEF X
    <3>6. Cardinality(X) = Cardinality(A) + i
      <4>1. PICK x \in Nat : x = Cardinality(A)
        BY <1>2
      <4>2. Cardinality(X) = x + i - 0
        BY <3>1, <3>3, <3>4, <3>5, <4>1
      <4>3. x + i - 0 = x + i
        BY <1>1
      <4> QED
        BY <4>1, <4>2, <4>3
    <3> QED
      BY <2>3, <3>6 DEF CpuCount, X
  <2> QED
    BY <2>2, <2>3
<1> QED
  BY <1>2, <1>3, <1>4 DEF CpuCount, t, l

-----------------------------------------------------------------------------
(* The records of the execution, batch by batch. *)

Run == FlattenSeq(Batches)

\* How many of them are in the first n batches.
RunBefore(n) == Len(FlattenSeq(SubSeq(Batches, 1, n)))

\* Batch n + 1 is the next ones.
LEMMA RunParts ==
  ASSUME NEW n \in 0 .. NumBatches - 1
  PROVE  LET b == Batches[n + 1]
         IN  /\ RunBefore(n) \in Nat /\ RunBefore(n + 1) = RunBefore(n) + Len(b)
             /\ \A i \in 1 .. Len(b) : /\ RunBefore(n) + i \in DOMAIN Run
                                       /\ Run[RunBefore(n) + i] = b[i]
<1> DEFINE T == Seq(Record)
<1>1. PICK s : s = Batches
  OBVIOUS
<1>2. /\ s \in Seq(T) /\ Len(s) \in Nat /\ n \in Nat /\ n + 1 \in Nat /\ n <= n + 1
      /\ n + 1 <= Len(s) /\ n <= Len(s) /\ n + 1 \in 1 .. Len(s)
  <2>1. s \in Seq(T)
    BY <1>1, PipelineAssumption
  <2>2. Len(s) \in Nat /\ NumBatches = Len(s)
    BY <1>1, <2>1 DEF NumBatches
  <2> QED
    BY <2>1, <2>2
<1> DEFINE b == s[n + 1]
           p == SubSeq(s, 1, n)
           q == SubSeq(s, n + 1, n + 1)
           pq == SubSeq(s, 1, n + 1)
           z == SubSeq(s, (n + 1) + 1, Len(s))
<1>3. p \o q = pq /\ p \in Seq(T) /\ q \in Seq(T)
  <2> HIDE DEF T
  <2> QED
    BY <1>2, Pieces
<1>4. pq \o z = s /\ pq \in Seq(T) /\ z \in Seq(T)
  <2> HIDE DEF T
  <2>1. /\ SubSeq(s, 1, n + 1) \o SubSeq(s, (n + 1) + 1, Len(s)) = SubSeq(s, 1, Len(s))
        /\ SubSeq(s, (n + 1) + 1, Len(s)) \in Seq(T) /\ SubSeq(s, 1, n + 1) \in Seq(T)
        /\ SubSeq(s, 1, Len(s)) = s
    <3>1. ASSUME NEW k \in Nat, NEW l \in Nat, k <= l, l <= Len(s)
          PROVE  /\ SubSeq(s, 1, k) \o SubSeq(s, k + 1, l) = SubSeq(s, 1, l)
                 /\ SubSeq(s, k + 1, l) \in Seq(T) /\ SubSeq(s, 1, k) \in Seq(T)
      BY <1>2, <3>1, Pieces
    <3>2. SubSeq(s, 1, Len(s)) = s
      BY <1>2, Pieces
    <3>3. Len(s) <= Len(s)
      BY <1>2
    <3> QED
      BY <1>2, <3>1, <3>2, <3>3
  <2> QED
    BY <2>1
<1>5. b \in T /\ FlattenSeq(q) = b
  <2>1. b \in T
    BY <1>2
  <2>2. Len(q) = 1 /\ q[1] = b
    <3> HIDE DEF T
    <3> QED
      BY <1>2
  <2> HIDE DEF q, b
  <2>3. FlattenSeq(q) = q[1]
    <3>1. 1 \in 1 .. Len(q) /\ \A i \in 1 .. Len(q) : i # 1 => q[i] = <<>>
      BY <2>2
    <3> QED
      BY <1>3, <3>1, FlattenOnly
  <2> QED
    BY <2>1, <2>2, <2>3
<1> HIDE DEF T, b, p, q, pq, z
<1>6. FlattenSeq(pq) = FlattenSeq(p) \o b /\ FlattenSeq(s) = FlattenSeq(pq) \o FlattenSeq(z)
  BY <1>3, <1>4, <1>5, FlattenConcat DEF T
<1>7. /\ FlattenSeq(p) \in T /\ FlattenSeq(pq) \in T /\ FlattenSeq(z) \in T
  BY <1>3, <1>4, FlattenType DEF T
<1> DEFINE e == FlattenSeq(p)
           g == FlattenSeq(pq)
           r == FlattenSeq(z)
           run == FlattenSeq(s)
<1> HIDE DEF e, g, r, run
<1>8. /\ e \in Seq(Record) /\ b \in Seq(Record) /\ g \in Seq(Record) /\ r \in Seq(Record)
      /\ g = e \o b /\ run = g \o r
  BY <1>5, <1>6, <1>7 DEF e, g, r, run, T
<1>9. /\ IsSeq(e) /\ IsSeq(b) /\ IsSeq(g) /\ IsSeq(r)
  BY <1>8, SeqIsSeq
<1>10. Len(g) = Len(e) + Len(b) /\ Len(e) \in Nat /\ Len(b) \in Nat
  BY <1>8
<1>11. ASSUME NEW i \in 1 .. Len(b) PROVE Len(e) + i \in DOMAIN run /\ run[Len(e) + i] = b[i]
  <2>1. Len(e) + i \in 1 .. Len(g)
    BY <1>10
  <2>2. g[Len(e) + i] = b[i]
    BY <1>8, <1>9, ConcatParts
  <2>3. run[Len(e) + i] = g[Len(e) + i] /\ DOMAIN run = 1 .. Len(g) + Len(r) /\ Len(r) \in Nat
        /\ Len(g) \in Nat
    BY <1>8, <1>9, <2>1, ConcatParts
  <2> QED
    BY <2>1, <2>2, <2>3
<1>12. RunBefore(n) = Len(e) /\ RunBefore(n + 1) = Len(g) /\ Run = run /\ Batches[n + 1] = b
  BY <1>1 DEF RunBefore, Run, e, g, run, p, pq, b
<1> QED
  BY <1>10, <1>11, <1>12

\* Before the first batch, and after the last.
LEMMA RunEnds ==
  /\ RunBefore(0) = 0 /\ RunBefore(NumBatches) = Len(Run) /\ Run \in Seq(Record)
  /\ Len(Run) \in Nat /\ DOMAIN Run = 1 .. Len(Run)
<1> DEFINE T == Seq(Record)
<1>1. PICK s : s = Batches
  OBVIOUS
<1>2. s \in Seq(T) /\ Len(s) \in Nat /\ NumBatches = Len(s)
  <2>1. s \in Seq(T)
    BY <1>1, PipelineAssumption
  <2> QED
    BY <1>1, <2>1 DEF NumBatches
<1>3. FlattenSeq(s) \in T
  BY <1>2, FlattenType
<1> HIDE DEF T
<1>4. SubSeq(s, 1, Len(s)) = s
  BY <1>2, Pieces
<1>5. SubSeq(s, 1, 0) = <<>>
  BY <1>2
<1>6. Len(FlattenSeq(SubSeq(s, 1, 0))) = 0
  <2>1. Len(<<>>) = 0
    OBVIOUS
  <2> QED
    BY <1>5, <2>1, FlattenNothing
<1>7. RunBefore(0) = 0 /\ RunBefore(NumBatches) = Len(Run) /\ Run \in Seq(Record)
  BY <1>1, <1>2, <1>3, <1>4, <1>6 DEF RunBefore, Run, T
<1> QED
  BY <1>7

-----------------------------------------------------------------------------
(* One iteration of the loop. *)

\* Where the execution is after k records, as public values show it.
Reached(p, k) ==
    IF k = 0
    THEN /\ p.next_pc = PcStart
         /\ p.committed_value_digest = 0 /\ p.deferred_proofs_digest = 0
    ELSE /\ p.next_pc = Run[k].pv.next_pc
         /\ p.committed_value_digest = Run[k].pv.committed_value_digest
         /\ p.deferred_proofs_digest = Run[k].pv.deferred_proofs_digest

\* No memory address was initialized or finalized yet.
NoAddress(p) == p.last_init_addr_bits = ZeroBits /\ p.last_finalize_addr_bits = ZeroBits

\* The public values p show those of record q.
Shows(p, q) ==
    /\ p.execution_shard = q.execution_shard
    /\ p.start_pc = q.start_pc /\ p.next_pc = q.next_pc
    /\ p.committed_value_digest = q.committed_value_digest
    /\ p.deferred_proofs_digest = q.deferred_proofs_digest

\* The shard of record j may come after that of record j - 1.
LEMMA RecordLinked ==
  ASSUME WellExecuted, NEW j \in DOMAIN Run, NEW q, Reached(q, j - 1), NoAddress(q), NEW r,
         r.cpu = TRUE, MemoryBits(r), Shows(r.pv, Run[j].pv), r.pv.exit_code = 0,
         r.pv.previous_init_addr_bits = ZeroBits, r.pv.previous_finalize_addr_bits = ZeroBits
  PROVE  Linked(q, r) /\ Reached(r.pv, j) /\ r.pv.execution_shard = j
<1> DEFINE S(x, y) == x # 0 => y = x
<1>1. /\ Run[j].pv.execution_shard = j
      /\ Run[j].pv.start_pc # 0
      /\ Run[j].pv.start_pc = IF j = 1 THEN PcStart ELSE Run[j - 1].pv.next_pc
      /\ j # 1 => /\ S(Run[j - 1].pv.committed_value_digest, Run[j].pv.committed_value_digest)
                  /\ S(Run[j - 1].pv.deferred_proofs_digest, Run[j].pv.deferred_proofs_digest)
  BY Zenon DEF WellExecuted, Run
<1>2. j \in Nat /\ j # 0
  BY RunEnds
<1>3. Reached(r.pv, j) /\ r.pv.execution_shard = j
  BY <1>1, <1>2 DEF Reached, Shows
<1>4. BitsFollow(q, r)
  BY DEF BitsFollow, NoAddress
<1> DEFINE c == r.pv.committed_value_digest
           d == r.pv.deferred_proofs_digest
<1>5. c = Run[j].pv.committed_value_digest /\ d = Run[j].pv.deferred_proofs_digest
      /\ r.pv.start_pc = Run[j].pv.start_pc
  BY DEF Shows
<1>6. CASE j = 1
  <2>1. q.next_pc = PcStart /\ q.committed_value_digest = 0 /\ q.deferred_proofs_digest = 0
    BY <1>6 DEF Reached
  <2>2. DigestFollows(r.cpu, q.committed_value_digest, c)
        /\ DigestFollows(r.cpu, q.deferred_proofs_digest, d)
    BY <2>1 DEF DigestFollows
  <2> QED
    BY <1>1, <1>3, <1>4, <1>5, <1>6, <2>1, <2>2 DEF Linked
<1>7. CASE j # 1
  <2>1. j - 1 # 0
    BY <1>2, <1>7
  <2>2. /\ q.next_pc = Run[j - 1].pv.next_pc
        /\ q.committed_value_digest = Run[j - 1].pv.committed_value_digest
        /\ q.deferred_proofs_digest = Run[j - 1].pv.deferred_proofs_digest
    BY <2>1 DEF Reached
  <2>3. DigestFollows(r.cpu, q.committed_value_digest, c)
        /\ DigestFollows(r.cpu, q.deferred_proofs_digest, d)
    BY <1>1, <1>5, <1>7, <2>2 DEF DigestFollows
  <2> QED
    BY <1>1, <1>3, <1>4, <1>5, <1>7, <2>2, <2>3 DEF Linked
<1> QED
  BY <1>6, <1>7

\* The CPU shards C of batch n + 1: records with the values of the state s and of the batch,
\* the last of which may have the memory events.
CpuBlock(s, b, C) ==
    /\ IsSeq(C) /\ Len(C) = Len(b)
    /\ \A i \in 1 .. Len(b) :
          /\ C[i].cpu = TRUE /\ MemoryBits(C[i])
          /\ SameButLast(C[i].pv, CpuPv(s, b[i].pv, i))
          /\ i # Len(b) => NoAddress(C[i].pv)

\* The state after some batches, when there are more.
Ready(s, m) == IsPv(s) /\ s.shard = m /\ s.exit_code = 0 /\ ZeroAddresses(s)

\* CPU shards that are numbered from k + 1.
CpuFrom(C, k) == \A i \in DOMAIN C : C[i].cpu = TRUE /\ C[i].pv.execution_shard = k + i

\* They continue the shards before.
LEMMA CpuBlockChains ==
  ASSUME WellExecuted, NEW n \in 0 .. NumBatches - 1, NEW m \in Nat, NEW s, Ready(s, m),
         NEW p, Reached(p, RunBefore(n)), NoAddress(p), NEW C, CpuBlock(s, Batches[n + 1], C)
  PROVE  /\ Chain(p, m, C) /\ Reached(Ends(p, C), RunBefore(n + 1))
         /\ CpuFrom(C, RunBefore(n))
<1> DEFINE b == Batches[n + 1]
           K == RunBefore(n)
           L == Len(b)
<1>1. /\ K \in Nat /\ RunBefore(n + 1) = K + L
      /\ \A i \in 1 .. L : K + i \in DOMAIN Run /\ Run[K + i] = b[i]
  BY RunParts
<1>2. L \in Nat
  <2>1. n + 1 \in 1 .. NumBatches
    BY PipelineAssumption DEF NumBatches
  <2>2. b \in Seq(Record)
    BY <2>1, BatchesCarry
  <2> HIDE DEF b
  <2> QED
    BY <2>2
<1>3. /\ IsSeq(C) /\ Len(C) = L
      /\ \A i \in 1 .. L : /\ C[i].cpu = TRUE /\ MemoryBits(C[i])
                           /\ SameButLast(C[i].pv, CpuPv(s, b[i].pv, i))
                           /\ i # L => NoAddress(C[i].pv)
  BY DEF CpuBlock
<1> HIDE DEF b, K, L
<1>4. ASSUME NEW i \in 1 .. L
      PROVE  /\ Shows(C[i].pv, Run[K + i].pv) /\ C[i].pv.exit_code = 0 /\ C[i].pv.shard = m + i
             /\ C[i].pv.previous_init_addr_bits = ZeroBits
             /\ C[i].pv.previous_finalize_addr_bits = ZeroBits
  <2>1. PICK v, q : v = CpuPv(s, q, i) /\ q = b[i].pv
    OBVIOUS
  <2>2. SameButLast(C[i].pv, v) /\ q = Run[K + i].pv
    BY <1>1, <1>3, <2>1
  <2>3. /\ v.shard = s.shard + i /\ v.execution_shard = q.execution_shard
        /\ v.start_pc = q.start_pc /\ v.next_pc = q.next_pc /\ v.exit_code = s.exit_code
        /\ v.committed_value_digest = q.committed_value_digest
        /\ v.deferred_proofs_digest = q.deferred_proofs_digest
        /\ v.previous_init_addr_bits = s.previous_init_addr_bits
        /\ v.previous_finalize_addr_bits = s.previous_finalize_addr_bits
    BY <2>1 DEF CpuPv
  <2>4. /\ s.shard = m /\ s.exit_code = 0
        /\ s.previous_init_addr_bits = ZeroBits /\ s.previous_finalize_addr_bits = ZeroBits
    BY DEF Ready, ZeroAddresses
  <2>5. PICK w : w = C[i].pv
    OBVIOUS
  <2>6. /\ w.exit_code = 0 /\ w.shard = m + i
        /\ w.previous_init_addr_bits = ZeroBits /\ w.previous_finalize_addr_bits = ZeroBits
    BY <2>2, <2>3, <2>4, <2>5 DEF SameButLast
  <2>7. Shows(w, q)
    BY <2>2, <2>3, <2>5 DEF Shows, SameButLast
  <2> QED
    BY <2>2, <2>5, <2>6, <2>7
<1>5. ASSUME NEW i \in 1 .. L, NEW q, Reached(q, (K + i) - 1), NoAddress(q)
      PROVE  Linked(q, C[i]) /\ Reached(C[i].pv, K + i) /\ C[i].pv.execution_shard = K + i
  BY <1>1, <1>3, <1>4, <1>5, RecordLinked
<1> DEFINE G == {i \in Nat : i \in 1 .. L =>
                    /\ Linked(Before(p, C, i), C[i]) /\ Reached(C[i].pv, K + i)
                    /\ C[i].pv.execution_shard = K + i}
<1>6. 0 \in G
  OBVIOUS
<1>7. ASSUME NEW i \in Nat, i \in G PROVE i + 1 \in G
  <2>1. SUFFICES ASSUME i + 1 \in 1 .. L
                 PROVE  /\ Linked(Before(p, C, i + 1), C[i + 1])
                        /\ Reached(C[i + 1].pv, K + (i + 1))
                        /\ C[i + 1].pv.execution_shard = K + (i + 1)
    BY <1>7
  <2>2. (K + (i + 1)) - 1 = K + i
    BY <1>1
  <2>3. CASE i = 0
    <3>1. Before(p, C, i + 1) = p /\ K + i = K
      BY <1>1, <2>3 DEF Before
    <3>2. Reached(p, K)
      BY DEF K
    <3> QED
      BY <1>5, <2>1, <2>2, <3>1, <3>2
  <2>4. CASE i # 0
    <3>1. i \in 1 .. L /\ i # L /\ (i + 1) - 1 = i /\ i + 1 # 1
      BY <1>2, <2>1, <2>4
    <3>2. Before(p, C, i + 1) = C[i].pv
      BY <3>1 DEF Before
    <3>3. Reached(C[i].pv, K + i) /\ NoAddress(C[i].pv)
      BY <1>3, <1>7, <3>1
    <3> QED
      BY <1>5, <2>1, <2>2, <3>2, <3>3
  <2> QED
    BY <2>3, <2>4
<1> HIDE DEF G
<1>8. \A i \in Nat : i \in G
  BY <1>6, <1>7, Induction
<1>9. ASSUME NEW i \in 1 .. L
      PROVE  /\ Linked(Before(p, C, i), C[i]) /\ Reached(C[i].pv, K + i)
             /\ C[i].pv.execution_shard = K + i
  BY <1>8 DEF G
<1>10. DOMAIN C = 1 .. L
  BY <1>3 DEF IsSeq
<1>11. Chain(p, m, C)
  BY <1>3, <1>4, <1>9, <1>10 DEF Chain
<1>12. Reached(Ends(p, C), K + L)
  <2>1. CASE L = 0
    <3>1. Ends(p, C) = p /\ K + L = K
      BY <1>1, <1>3, <2>1 DEF Ends
    <3> QED
      BY <3>1 DEF K
  <2>2. CASE L # 0
    <3>1. L \in 1 .. L
      BY <1>2, <2>2
    <3>2. Ends(p, C) = C[L].pv
      BY <1>3, <2>2 DEF Ends
    <3> QED
      BY <1>9, <3>1, <3>2
  <2> QED
    BY <2>1, <2>2
<1> QED
  BY <1>1, <1>3, <1>9, <1>10, <1>11, <1>12 DEF K, CpuFrom

\* p and q show the same point of the execution.
SamePoint(p, q) ==
    /\ p.next_pc = q.next_pc
    /\ p.committed_value_digest = q.committed_value_digest
    /\ p.deferred_proofs_digest = q.deferred_proofs_digest

\* A shard without CPU events, numbered.
NumberedShard(f, x, i) == [x EXCEPT !.pv = DeferredPv(f, x.pv, i)]

\* It may come after one that ends at the point f shows.
LinkedShard(f, x, i, p, r) ==
    /\ IsRecord(r) /\ r.cpu = FALSE /\ r.pv = DeferredPv(f, x.pv, i) /\ r.init = x.init
    /\ r.finalize = x.finalize /\ r.precompile = x.precompile
    /\ Linked(p, r) /\ SamePoint(f, r.pv)
    /\ r.pv.last_init_addr_bits = x.pv.last_init_addr_bits
    /\ r.pv.last_finalize_addr_bits = x.pv.last_finalize_addr_bits

\* It may, when its address bits do.
LEMMA DeferredLinked ==
  ASSUME NEW x, IsRecord(x), x.cpu = FALSE, MemoryBits(x), NEW f, f.exit_code = 0,
         NEW i, NEW p, SamePoint(f, p), BitsFollow(p, x)
  PROVE  LinkedShard(f, x, i, p, NumberedShard(f, x, i))
<1>1. PICK r : r = NumberedShard(f, x, i)
  OBVIOUS
<1>2. PICK v, q : v = DeferredPv(f, q, i) /\ q = x.pv
  OBVIOUS
<1>3. r = [cpu |-> x.cpu, precompile |-> x.precompile, init |-> x.init,
           finalize |-> x.finalize, pv |-> v]
  <2>1. r = [x EXCEPT !.pv = v]
    BY <1>1, <1>2, Zenon DEF NumberedShard
  <2> QED
    BY <2>1 DEF IsRecord
<1>4. /\ IsRecord(r) /\ r.cpu = FALSE /\ r.pv = v /\ r.init = x.init
      /\ r.finalize = x.finalize /\ r.precompile = x.precompile
  BY <1>3 DEF IsRecord
<1>5. /\ v.start_pc = f.next_pc /\ v.next_pc = f.next_pc /\ v.exit_code = f.exit_code
      /\ v.committed_value_digest = f.committed_value_digest
      /\ v.deferred_proofs_digest = f.deferred_proofs_digest
      /\ v.previous_init_addr_bits = q.previous_init_addr_bits
      /\ v.last_init_addr_bits = q.last_init_addr_bits
      /\ v.previous_finalize_addr_bits = q.previous_finalize_addr_bits
      /\ v.last_finalize_addr_bits = q.last_finalize_addr_bits
  BY <1>2 DEF DeferredPv
<1>6. SamePoint(f, v)
  BY <1>5 DEF SamePoint
<1>7. MemoryBits(r) /\ BitsFollow(p, r)
  BY <1>2, <1>4, <1>5 DEF MemoryBits, BitsOk, BitsFollow
<1>8. /\ DigestFollows(r.cpu, p.committed_value_digest, v.committed_value_digest)
      /\ DigestFollows(r.cpu, p.deferred_proofs_digest, v.deferred_proofs_digest)
      /\ v.start_pc = p.next_pc
  BY <1>5 DEF DigestFollows, SamePoint
<1>9. Linked(p, r)
  BY <1>4, <1>5, <1>7, <1>8 DEF Linked
<1> QED
  BY <1>1, <1>2, <1>4, <1>5, <1>6, <1>9 DEF LinkedShard

\* Many of them, numbered.
NumberedShards(f, ss) == [i \in DOMAIN ss |-> NumberedShard(f, ss[i], i)]
NoCpu(R) == \A i \in DOMAIN R : R[i].cpu = FALSE
NoMemory(ss) == \A i \in DOMAIN ss : ss[i].pv = PublicValuesDefault

\* The shards split made, numbered, continue the shards before.
LEMMA DeferredBlockChains ==
  ASSUME NEW ss, SplitChain(ss), NEW m \in Nat, NEW f, f.exit_code = 0, f.shard = m,
         NEW p, NoAddress(p), SamePoint(f, p), NEW R,
         R = NumberedShards(f, ss)
  PROVE  /\ Chain(p, m, R) /\ Len(R) = Len(ss) /\ SamePoint(f, Ends(p, R))
         /\ NoCpu(R) /\ (NoMemory(ss) => NoAddress(Ends(p, R)))
<1>1. /\ IsSeq(ss) /\ Len(ss) \in Nat /\ DOMAIN ss = 1 .. Len(ss)
  <2>1. IsSeq(ss)
    BY DEF SplitChain
  <2> QED
    BY <2>1 DEF IsSeq
<1>2. IsSeq(R) /\ DOMAIN R = DOMAIN ss /\ Len(R) = Len(ss)
  <2>1. R = [i \in DOMAIN ss |-> R[i]]
    BY DEF NumberedShards
  <2> QED
    BY <1>1, <2>1, SameDomain
<1>3. ASSUME NEW i \in DOMAIN ss
      PROVE  /\ IsRecord(ss[i]) /\ ss[i].cpu = FALSE /\ MemoryBits(ss[i])
             /\ BitsFollow(IF i = 1 THEN PublicValuesDefault ELSE ss[i - 1].pv, ss[i])
  BY DEF SplitChain
<1>4. ASSUME NEW i \in DOMAIN ss
      PROVE  R[i] = NumberedShard(f, ss[i], i)
  BY DEF NumberedShards
<1>5. ASSUME NEW i \in DOMAIN ss, NEW q, SamePoint(f, q), BitsFollow(q, ss[i])
      PROVE  /\ R[i].cpu = FALSE /\ R[i].pv = DeferredPv(f, ss[i].pv, i)
             /\ Linked(q, R[i]) /\ SamePoint(f, R[i].pv)
             /\ R[i].pv.last_init_addr_bits = ss[i].pv.last_init_addr_bits
             /\ R[i].pv.last_finalize_addr_bits = ss[i].pv.last_finalize_addr_bits
  <2>1. PICK x, r : x = ss[i] /\ r = R[i] /\ r = NumberedShard(f, x, i)
    BY <1>4
  <2>2. IsRecord(x) /\ x.cpu = FALSE /\ MemoryBits(x) /\ BitsFollow(q, x)
    BY <1>3, <1>5, <2>1
  <2>3. LinkedShard(f, x, i, q, NumberedShard(f, x, i))
    BY <1>5, <2>2, DeferredLinked
  <2>4. LinkedShard(f, x, i, q, r)
    BY <2>1, <2>3
  <2> QED
    BY <2>1, <2>4 DEF LinkedShard
<1> DEFINE F(i) == /\ Linked(Before(p, R, i), R[i]) /\ SamePoint(f, R[i].pv) /\ R[i].cpu = FALSE
                   /\ R[i].pv = DeferredPv(f, ss[i].pv, i)
                   /\ R[i].pv.last_init_addr_bits = ss[i].pv.last_init_addr_bits
                   /\ R[i].pv.last_finalize_addr_bits = ss[i].pv.last_finalize_addr_bits
           G == {i \in Nat : i \in DOMAIN ss => F(i)}
<1>6. 0 \in G
  BY <1>1
<1>7. ASSUME NEW i \in Nat, i \in G PROVE i + 1 \in G
  <2>1. SUFFICES ASSUME i + 1 \in DOMAIN ss PROVE F(i + 1)
    <3> HIDE DEF F
    <3> QED
      BY <1>7
  <2>2. /\ SamePoint(f, Before(p, R, i + 1)) /\ BitsFollow(Before(p, R, i + 1), ss[i + 1])
    <3>1. BitsFollow(IF i + 1 = 1 THEN PublicValuesDefault ELSE ss[(i + 1) - 1].pv, ss[i + 1])
      BY <1>3, <2>1
    <3>2. CASE i = 0
      <4>1. Before(p, R, i + 1) = p
        BY <3>2 DEF Before
      <4>2. BitsFollow(PublicValuesDefault, ss[i + 1])
        BY <3>1, <3>2
      <4>3. BitsFollow(p, ss[i + 1])
        BY <4>2, DefaultIs DEF BitsFollow, NoAddress
      <4> QED
        BY <4>1, <4>3
    <3>3. CASE i # 0
      <4>1. i \in DOMAIN ss /\ (i + 1) - 1 = i /\ i + 1 # 1
        BY <1>1, <2>1, <3>3
      <4>2. Before(p, R, i + 1) = R[i].pv /\ BitsFollow(ss[i].pv, ss[i + 1])
        BY <3>1, <4>1 DEF Before
      <4>3. F(i)
        <5> HIDE DEF F
        <5> QED
          BY <1>7, <4>1
      <4>4. BitsFollow(R[i].pv, ss[i + 1])
        BY <4>2, <4>3 DEF BitsFollow
      <4> QED
        BY <4>2, <4>3, <4>4
    <3> QED
      BY <3>2, <3>3
  <2> QED
    BY <1>5, <2>1, <2>2
<1> HIDE DEF G
<1>8. \A i \in Nat : i \in G
  BY <1>6, <1>7, Induction
<1>9. ASSUME NEW i \in DOMAIN ss PROVE F(i)
  <2> HIDE DEF F
  <2> QED
    BY <1>1, <1>8 DEF G
<1>10. ASSUME NEW i \in DOMAIN ss PROVE R[i].pv.shard = m + i
  <2>1. R[i].pv = DeferredPv(f, ss[i].pv, i)
    BY <1>9
  <2>2. DeferredPv(f, ss[i].pv, i).shard = f.shard + i
    BY DEF DeferredPv
  <2> QED
    BY <2>1, <2>2
<1>11. Chain(p, m, R)
  BY <1>2, <1>9, <1>10 DEF Chain
<1>12. CASE Len(ss) = 0
  <2>1. Ends(p, R) = p
    BY <1>2, <1>12 DEF Ends
  <2> QED
    BY <1>2, <1>9, <1>11, <2>1 DEF NoCpu
<1>13. CASE Len(ss) # 0
  <2>1. Len(ss) \in DOMAIN ss /\ Ends(p, R) = R[Len(ss)].pv
    BY <1>1, <1>2, <1>13 DEF Ends
  <2>2. F(Len(ss))
    BY <1>9, <2>1
  <2>3. ss[Len(ss)].pv = PublicValuesDefault => NoAddress(R[Len(ss)].pv)
    BY <2>2, DefaultIs DEF NoAddress
  <2> QED
    BY <1>2, <1>9, <1>11, <2>1, <2>2, <2>3 DEF NoCpu, NoMemory
<1> QED
  BY <1>12, <1>13

\* The records of a batch with their public values, without the deferred events.
LEMMA CpuShardsIs ==
  ASSUME NEW o, NEW m \in Nat, Ready(o.state, m), NEW n \in 0 .. NumBatches - 1
  PROVE  LET b == Batches[n + 1]
             cs == CpuShards(o, n)
         IN  /\ IsSeq(cs) /\ Len(cs) = Len(b) /\ DOMAIN cs = 1 .. Len(b)
             /\ \A i \in 1 .. Len(b) :
                   cs[i] = [cpu |-> b[i].cpu, precompile |-> NoEvents, init |-> <<>>,
                            finalize |-> <<>>, pv |-> CpuPv(o.state, b[i].pv, i)]
             /\ Numbered(o, n).state =
                   IF Len(b) = 0 THEN o.state ELSE CpuPv(o.state, b[Len(b)].pv, Len(b))
<1> DEFINE b == Batches[n + 1]
           s == o.state
           r == NumberCpuRecords(s, b).records
           cs == CpuShards(o, n)
           P(i) == CpuPv(s, b[i].pv, i)
<1>1. b \in Seq(Record)
  <2>1. n + 1 \in 1 .. NumBatches
    BY PipelineAssumption DEF NumBatches
  <2> QED
    BY <2>1, BatchesCarry
<1>2. /\ r = NumberCpuRecords(s, b).records /\ Numbered(o, n).records = r
      /\ Numbered(o, n).state = NumberCpuRecords(s, b).state
  BY DEF Numbered
<1>3. cs = [i \in DOMAIN r |-> AfterDefer(r[i])]
  BY <1>2 DEF CpuShards
<1> HIDE DEF b, s, r, cs
<1>4. IsSeq(b) /\ Len(b) \in Nat /\ DOMAIN b = 1 .. Len(b) /\ \A i \in 1 .. Len(b) : b[i] \in Record
  BY <1>1, SeqIsSeq
<1>5. IsPv(s) /\ s.shard \in Nat
  BY DEF Ready, s
<1>6. /\ NumberCpuRecords(s, b).state = IF Len(b) = 0 THEN s ELSE CpuPv(s, b[Len(b)].pv, Len(b))
      /\ r = [i \in DOMAIN b |-> [b[i] EXCEPT !.pv = P(i)]]
  BY <1>2, <1>4, <1>5, NumberCpuIs
<1>7. DOMAIN r = DOMAIN b
  BY <1>6
<1>8. IsSeq(cs) /\ Len(cs) = Len(b) /\ DOMAIN cs = 1 .. Len(b)
  <2>1. cs = [i \in DOMAIN b |-> cs[i]]
    BY <1>3, <1>7
  <2> QED
    BY <1>4, <2>1, SameDomain
<1>9. ASSUME NEW i \in 1 .. Len(b)
      PROVE  cs[i] = [cpu |-> b[i].cpu, precompile |-> NoEvents, init |-> <<>>,
                      finalize |-> <<>>, pv |-> P(i)]
  <2>1. PICK x, v : x = b[i] /\ v = P(i)
    OBVIOUS
  <2>2. PICK y : y = [x EXCEPT !.pv = v]
    OBVIOUS
  <2>3. y = [cpu |-> x.cpu, precompile |-> x.precompile, init |-> x.init,
             finalize |-> x.finalize, pv |-> v]
    <3>1. x \in Record
      BY <1>4, <2>1
    <3>2. IsRecord(x)
      BY <3>1 DEF Record, IsRecord
    <3> QED
      BY <2>2, <3>2 DEF IsRecord
  <2>4. cs[i] = AfterDefer(y)
    <3>1. i \in DOMAIN b /\ i \in DOMAIN r
      BY <1>4, <1>7
    <3>2. r[i] = y
      BY <1>6, <2>1, <2>2, <3>1
    <3> QED
      BY <1>3, <3>1, <3>2
  <2>5. PICK y1 : y1 = [y EXCEPT !.precompile = NoEvents]
    OBVIOUS
  <2>6. PICK y2 : y2 = [y1 EXCEPT !.init = <<>>]
    OBVIOUS
  <2>7. PICK y3 : y3 = [y2 EXCEPT !.finalize = <<>>]
    OBVIOUS
  <2>8. y1 = [cpu |-> x.cpu, precompile |-> NoEvents, init |-> x.init,
              finalize |-> x.finalize, pv |-> v]
    BY <2>3, <2>5
  <2>9. y2 = [cpu |-> x.cpu, precompile |-> NoEvents, init |-> <<>>,
              finalize |-> x.finalize, pv |-> v]
    BY <2>6, <2>8
  <2>10. y3 = [cpu |-> x.cpu, precompile |-> NoEvents, init |-> <<>>, finalize |-> <<>>, pv |-> v]
    BY <2>7, <2>9
  <2>11. AfterDefer(y) = y3
    BY <2>5, <2>6, <2>7, Zenon DEF AfterDefer
  <2> QED
    BY <2>1, <2>4, <2>10, <2>11
<1> QED
  BY <1>2, <1>6, <1>8, <1>9 DEF b, s, cs

\* The last element of a sequence replaced.
LEMMA FrontLast ==
  ASSUME NEW s, IsSeq(s), Len(s) # 0, NEW x
  PROVE  LET t == Front(s) \o <<x>>
         IN  /\ IsSeq(t) /\ Len(t) = Len(s)
             /\ \A i \in 1 .. Len(s) : t[i] = IF i = Len(s) THEN x ELSE s[i]
<1> DEFINE f == Front(s)
           e == <<x>>
           t == f \o e
<1>1. Len(s) \in Nat /\ DOMAIN s = 1 .. Len(s) /\ s \in Seq(Range(s))
  BY DEF IsSeq
<1>2. Len(s) - 1 \in Nat /\ Len(s) - 1 <= Len(s)
  BY <1>1
<1>3. IsSeq(f) /\ Len(f) = Len(s) - 1 /\ \A i \in 1 .. Len(s) - 1 : f[i] = s[i]
  <2>1. IsSeq(f)
    BY FrontIsSeq
  <2>2. PICK k \in Nat : k = Len(s) - 1 /\ k <= Len(s)
    BY <1>2
  <2>3. Len(SubSeq(s, 1, k)) = k /\ \A i \in 1 .. k : SubSeq(s, 1, k)[i] = s[i]
    BY <1>1, <2>2
  <2> QED
    BY <2>1, <2>2, <2>3 DEF Front
<1>4. IsSeq(e) /\ Len(e) = 1 /\ e[1] = x
  <2>1. e \in Seq({x}) /\ Len(e) = 1 /\ e[1] = x
    OBVIOUS
  <2> QED
    BY <2>1, SeqIsSeq
<1> HIDE DEF f, e
<1>5. IsSeq(t) /\ Len(t) = (Len(s) - 1) + 1
  BY <1>3, <1>4, ConcatIsSeq
<1>6. /\ \A i \in 1 .. Len(s) - 1 : t[i] = f[i]
      /\ \A i \in 1 .. 1 : t[(Len(s) - 1) + i] = e[i]
  BY <1>3, <1>4, ConcatParts
<1> HIDE DEF t
<1>7. ASSUME NEW i \in 1 .. Len(s) PROVE t[i] = IF i = Len(s) THEN x ELSE s[i]
  <2>1. CASE i = Len(s)
    <3>1. (Len(s) - 1) + 1 = i /\ 1 \in 1 .. 1
      BY <1>1, <2>1
    <3> QED
      BY <1>4, <1>6, <2>1, <3>1
  <2>2. CASE i # Len(s)
    <3>1. i \in 1 .. Len(s) - 1
      <4>1. PICK l \in Nat : l = Len(s)
        BY <1>1
      <4>2. i \in 1 .. l /\ i # l
        BY <2>2, <4>1
      <4>3. i \in 1 .. l - 1
        BY <4>2
      <4> QED
        BY <4>1, <4>3
    <3> QED
      BY <1>3, <1>6, <2>2, <3>1
  <2> QED
    BY <2>1, <2>2
<1>8. Len(t) = Len(s)
  <2>1. PICK l \in Nat : l = Len(s)
    BY <1>1
  <2>2. (l - 1) + 1 = l
    OBVIOUS
  <2> QED
    BY <1>5, <2>1, <2>2
<1> QED
  BY <1>5, <1>7, <1>8 DEF t, f, e

\* The CPU shards of a batch, before anything is packed into the last one.
LEMMA CpuShardsBlock ==
  ASSUME WellExecuted, NEW o, NEW m \in Nat, Ready(o.state, m), NEW n \in 0 .. NumBatches - 1
  PROVE  /\ CpuBlock(o.state, Batches[n + 1], CpuShards(o, n))
         /\ Len(Batches[n + 1]) \in Nat \ {0}
         /\ \A i \in 1 .. Len(Batches[n + 1]) :
               LET r == CpuShards(o, n)[i]
               IN  /\ IsRecord(r) /\ IsPv(r.pv) /\ ZeroAddresses(r.pv) /\ r.cpu = TRUE
                   /\ r.precompile = NoEvents /\ r.init = <<>> /\ r.finalize = <<>>
                   /\ r.pv = CpuPv(o.state, Batches[n + 1][i].pv, i)
<1> DEFINE b == Batches[n + 1]
           cs == CpuShards(o, n)
           s == o.state
           P(i) == CpuPv(s, b[i].pv, i)
<1>1. /\ IsSeq(cs) /\ Len(cs) = Len(b)
      /\ \A i \in 1 .. Len(b) :
            cs[i] = [cpu |-> b[i].cpu, precompile |-> NoEvents, init |-> <<>>,
                     finalize |-> <<>>, pv |-> P(i)]
  BY CpuShardsIs
<1>2. Len(b) \in Nat \ {0}
  <2>1. n + 1 \in 1 .. NumBatches
    BY PipelineAssumption DEF NumBatches
  <2>2. b \in Seq(Record)
    BY <2>1, BatchesCarry
  <2>3. DOMAIN Batches = 1 .. NumBatches
    BY PipelineAssumption DEF NumBatches
  <2>4. b # <<>>
    BY <2>1, <2>3, Zenon DEF WellExecuted
  <2> HIDE DEF b
  <2> QED
    BY <2>2, <2>4, EmptySeq
<1>3. ASSUME NEW i \in 1 .. Len(b) PROVE b[i].cpu = TRUE
  <2>1. PICK j \in DOMAIN Run : Run[j] = b[i]
    BY RunParts
  <2>2. Run[j].cpu
    BY Zenon DEF WellExecuted, Run
  <2>3. Run[j] \in Record
    BY RunEnds
  <2>4. Run[j].cpu \in BOOLEAN
    BY <2>3 DEF Record
  <2> QED
    BY <2>1, <2>2, <2>4
<1> HIDE DEF b, cs
<1>4. ASSUME NEW i \in 1 .. Len(b)
      PROVE  /\ IsRecord(cs[i]) /\ IsPv(cs[i].pv) /\ ZeroAddresses(cs[i].pv)
             /\ cs[i].cpu = TRUE /\ cs[i].precompile = NoEvents
             /\ cs[i].init = <<>> /\ cs[i].finalize = <<>> /\ cs[i].pv = P(i)
  <2>1. PICK r, p, q : r = cs[i] /\ p = P(i) /\ q = b[i].pv
    OBVIOUS
  <2>2. r = [cpu |-> TRUE, precompile |-> NoEvents, init |-> <<>>, finalize |-> <<>>, pv |-> p]
    BY <1>1, <1>3, <2>1
  <2>3. /\ IsRecord(r) /\ r.cpu = TRUE /\ r.precompile = NoEvents
        /\ r.init = <<>> /\ r.finalize = <<>> /\ r.pv = p
    BY <2>2 DEF IsRecord
  <2>4. IsPv(p)
    BY <2>1, CpuPvIs
  <2>5. /\ p.previous_init_addr_bits = s.previous_init_addr_bits
        /\ p.last_init_addr_bits = s.last_init_addr_bits
        /\ p.previous_finalize_addr_bits = s.previous_finalize_addr_bits
        /\ p.last_finalize_addr_bits = s.last_finalize_addr_bits
    BY <2>1 DEF CpuPv
  <2>6. ZeroAddresses(p)
    BY <2>5 DEF ZeroAddresses, Ready
  <2> QED
    BY <2>1, <2>3, <2>4, <2>6
<1>5. ASSUME NEW i \in 1 .. Len(b)
      PROVE  /\ MemoryBits(cs[i]) /\ SameButLast(cs[i].pv, P(i)) /\ NoAddress(cs[i].pv)
  <2>1. PICK r, p : r = cs[i] /\ p = P(i) /\ r.pv = p /\ ZeroAddresses(p)
                    /\ r.init = <<>> /\ r.finalize = <<>>
    BY <1>4
  <2>2. MemoryBits(r) /\ SameButLast(p, p) /\ NoAddress(p)
    BY <2>1 DEF MemoryBits, BitsOk, SameButLast, NoAddress, ZeroAddresses
  <2> QED
    BY <2>1, <2>2
<1>6. CpuBlock(s, b, cs)
  BY <1>1, <1>4, <1>5 DEF CpuBlock
<1> QED
  BY <1>2, <1>4, <1>6 DEF b, cs

\* The shards of an iteration: CPU shards C, and shards ss of deferred events.
Parts(o, n, o2, C, ss) ==
    LET numbered == NumberDeferredRecords(Numbered(o, n).state, Done(n), ss)
    IN  /\ CpuBlock(o.state, Batches[n + 1], C) /\ SplitChain(ss)
        /\ ~Done(n) => NoMemory(ss)
        /\ ~Done(n) \/ ss # <<>> => \A i \in DOMAIN C : NoAddress(C[i].pv)
        /\ o2.shards = o.shards \o (C \o numbered.records)
        /\ o2.state = numbered.state

\* Every iteration has such parts.
LEMMA IterationParts ==
  ASSUME WellExecuted, NEW o, Sound(o), NEW m \in Nat, Ready(o.state, m),
         NEW n \in 0 .. NumBatches - 1, NEW o2 \in BatchOutcomes(o, n)
  PROVE  \E C, ss : Parts(o, n, o2, C, ss)
<1> DEFINE cs == CpuShards(o, n)
           d == AllDeferred(o, n)
           b == Batches[n + 1]
           L == Len(b)
           Sp(l, order) == Split(d, Done(n), l, order)
<1>1. d \in DeferredRecord /\ Done(n) \in BOOLEAN
  BY CpuType DEF Sound, Done
<1>2. /\ CpuBlock(o.state, b, cs) /\ L \in Nat \ {0}
      /\ \A i \in 1 .. L :
            /\ IsRecord(cs[i]) /\ IsPv(cs[i].pv) /\ ZeroAddresses(cs[i].pv) /\ cs[i].cpu = TRUE
            /\ cs[i].init = <<>> /\ cs[i].finalize = <<>>
            /\ cs[i].pv = CpuPv(o.state, b[i].pv, i)
  BY CpuShardsBlock
<1>3. \/ \E order \in IterationOrders : o2 = WithSplit(o, n, cs, <<>>, order)
      \/ /\ MayPack(o, n)
         /\ \E order \in IterationOrders : o2 = WithSplit(o, n, Front(cs), <<Last(cs)>>, order)
  BY Zenon DEF BatchOutcomes
<1>4. ASSUME NEW cpu, NEW l, NEW order, o2 = WithSplit(o, n, cpu, l, order)
      PROVE  LET sp == Sp(l, order)
                 numbered == NumberDeferredRecords(Numbered(o, n).state, Done(n), sp.shards)
             IN  /\ o2.shards = o.shards \o ((cpu \o sp.lastRecord) \o numbered.records)
                 /\ o2.state = numbered.state
  BY <1>4 DEF WithSplit
<1>5. ASSUME NEW l, NEW order \in IterationOrders
      PROVE  LET sp == Sp(l, order)
                 inits == MemoryChunks(d.init)
                 finalizes == MemoryChunks(d.finalize)
             IN  /\ SplitChain(sp.shards)
                 /\ ~Done(n) => NoMemory(sp.shards)
                 /\ \/ sp.lastRecord = l
                    \/ /\ Done(n) /\ l # <<>> /\ sp.shards = <<>>
                       /\ sp.lastRecord = <<PackMemory(l[1], inits, finalizes,
                                                       NumMemoryChunks(inits, finalizes))>>
  <2> HIDE DEF d
  <2> QED
    BY <1>1, SplitShards DEF NoMemory
<1> HIDE DEF cs, d, b, L, Sp
<1>6. /\ IsSeq(cs) /\ Len(cs) = L /\ DOMAIN cs = 1 .. L /\ cs \o <<>> = cs
      /\ \A i \in DOMAIN cs : NoAddress(cs[i].pv)
  <2>1. IsSeq(cs) /\ Len(cs) = L
    BY <1>2 DEF CpuBlock, L
  <2>2. DOMAIN cs = 1 .. L /\ cs \o <<>> = cs
    BY <2>1, ConcatIsSeq, SeqIsSeq DEF IsSeq
  <2> QED
    BY <1>2, <2>1, <2>2 DEF NoAddress, ZeroAddresses
<1>7. ASSUME NEW sp, SplitChain(sp.shards), NEW cpu, cpu \o sp.lastRecord = cs,
             ~Done(n) => NoMemory(sp.shards),
             LET numbered == NumberDeferredRecords(Numbered(o, n).state, Done(n), sp.shards)
             IN  /\ o2.shards = o.shards \o ((cpu \o sp.lastRecord) \o numbered.records)
                 /\ o2.state = numbered.state
      PROVE  \E C, ss : Parts(o, n, o2, C, ss)
  <2>1. Parts(o, n, o2, cs, sp.shards)
    BY <1>2, <1>6, <1>7 DEF Parts, b
  <2> QED
    BY <2>1
<1>8. CASE \E order \in IterationOrders : o2 = WithSplit(o, n, cs, <<>>, order)
  <2>1. PICK order \in IterationOrders : o2 = WithSplit(o, n, cs, <<>>, order)
    BY <1>8
  <2>2. PICK sp : sp = Sp(<<>>, order)
    OBVIOUS
  <2>3. /\ SplitChain(sp.shards) /\ sp.lastRecord = <<>>
        /\ ~Done(n) => NoMemory(sp.shards)
    BY <1>5, <2>2
  <2>4. LET numbered == NumberDeferredRecords(Numbered(o, n).state, Done(n), sp.shards)
        IN  /\ o2.shards = o.shards \o ((cs \o sp.lastRecord) \o numbered.records)
            /\ o2.state = numbered.state
    BY <1>4, <2>1, <2>2
  <2> QED
    BY <1>6, <1>7, <2>3, <2>4
<1>9. CASE /\ MayPack(o, n)
           /\ \E order \in IterationOrders : o2 = WithSplit(o, n, Front(cs), <<Last(cs)>>, order)
  <2>1. PICK order \in IterationOrders : o2 = WithSplit(o, n, Front(cs), <<Last(cs)>>, order)
    BY <1>9
  <2> DEFINE x == Last(cs)
             l == <<x>>
             inits == MemoryChunks(d.init)
             finalizes == MemoryChunks(d.finalize)
             y == PackMemory(x, inits, finalizes, NumMemoryChunks(inits, finalizes))
  <2>2. PICK sp : sp = Sp(l, order)
    OBVIOUS
  <2>3. /\ SplitChain(sp.shards)
        /\ ~Done(n) => NoMemory(sp.shards)
        /\ \/ sp.lastRecord = l
           \/ Done(n) /\ sp.shards = <<>> /\ sp.lastRecord = <<y>>
    <3>1. l[1] = x /\ l # <<>>
      OBVIOUS
    <3> HIDE DEF l, x
    <3> QED
      BY <1>5, <2>2, <3>1
  <2>4. LET numbered == NumberDeferredRecords(Numbered(o, n).state, Done(n), sp.shards)
        IN  /\ o2.shards = o.shards \o ((Front(cs) \o sp.lastRecord) \o numbered.records)
            /\ o2.state = numbered.state
    BY <1>4, <2>1, <2>2
  <2>5. x = cs[L] /\ L \in 1 .. L
    BY <1>2, <1>6 DEF Last
  <2> HIDE DEF x, y, inits, finalizes
  <2>6. CASE sp.lastRecord = l
    <3> DEFINE t == Front(cs) \o l
    <3>1. IsSeq(t) /\ Len(t) = L /\ \A i \in 1 .. L : t[i] = IF i = L THEN x ELSE cs[i]
      BY <1>2, <1>6, FrontLast
    <3> HIDE DEF t
    <3>2. \A i \in 1 .. L : t[i] = cs[i]
      BY <2>5, <3>1
    <3>3. t = cs
      <4>1. DOMAIN t = 1 .. L /\ t \in Seq(Range(t)) /\ cs \in Seq(Range(cs))
        BY <1>6, <3>1 DEF IsSeq
      <4>2. t = [i \in 1 .. L |-> t[i]] /\ cs = [i \in 1 .. L |-> cs[i]]
        BY <1>6, <4>1
      <4> QED
        BY <3>2, <4>2
    <3>4. Front(cs) \o sp.lastRecord = cs
      BY <2>6, <3>3 DEF t
    <3> QED
      BY <1>7, <2>3, <2>4, <3>4
  <2>7. CASE Done(n) /\ sp.shards = <<>> /\ sp.lastRecord = <<y>>
    <3> DEFINE C == Front(cs) \o <<y>>
    <3>1. IsSeq(C) /\ Len(C) = L /\ \A i \in 1 .. L : C[i] = IF i = L THEN y ELSE cs[i]
      BY <1>2, <1>6, FrontLast
    <3>2. /\ y.cpu = TRUE /\ MemoryBits(y) /\ SameButLast(y.pv, x.pv)
      <4>1. /\ IsRecord(x) /\ IsPv(x.pv) /\ ZeroAddresses(x.pv) /\ x.cpu = TRUE
            /\ x.init = <<>> /\ x.finalize = <<>>
        BY <1>2, <2>5
      <4>2. Len(d.init) \in Nat /\ Len(d.finalize) \in Nat
        BY <1>1 DEF DeferredRecord
      <4>3. Len(d.init) <= MemoryChunk /\ Len(d.finalize) <= MemoryChunk
        <5>1. Len(d.init) < CombineThreshold /\ Len(d.finalize) < CombineThreshold
          BY <1>9 DEF MayPack, d
        <5>2. CombineThreshold \in Nat /\ CombineThreshold <= MemoryChunk /\ MemoryChunk \in Nat
          BY PipelineAssumption, SplitAssumption
        <5> QED
          BY <4>2, <5>1, <5>2
      <4>4. ChunkList(inits) /\ Len(inits) <= 1 /\ ChunkList(finalizes) /\ Len(finalizes) <= 1
        BY <4>2, <4>3, MemoryChunkList DEF inits, finalizes
      <4> QED
        BY <4>1, <4>4, PackOnce DEF y
    <3> HIDE DEF C
    <3>3. ASSUME NEW i \in 1 .. L
          PROVE  /\ C[i].cpu = TRUE /\ MemoryBits(C[i])
                 /\ SameButLast(C[i].pv, CpuPv(o.state, b[i].pv, i))
                 /\ i # L => NoAddress(C[i].pv)
      <4>1. CASE i = L
        <5>1. C[i] = y
          BY <3>1, <4>1
        <5>2. x.pv = CpuPv(o.state, b[i].pv, i)
          BY <1>2, <2>5, <4>1
        <5>3. SameButLast(y.pv, CpuPv(o.state, b[i].pv, i))
          BY <3>2, <5>2
        <5> QED
          BY <3>2, <4>1, <5>1, <5>3
      <4>2. CASE i # L
        <5>1. C[i] = cs[i]
          BY <3>1, <4>2
        <5>2. /\ cs[i].cpu = TRUE /\ MemoryBits(cs[i])
              /\ SameButLast(cs[i].pv, CpuPv(o.state, b[i].pv, i))
          BY <1>2 DEF CpuBlock, L
        <5> QED
          BY <1>6, <5>1, <5>2
      <4> QED
        BY <4>1, <4>2
    <3>4. CpuBlock(o.state, b, C)
      BY <3>1, <3>3 DEF CpuBlock, L
    <3>5. Parts(o, n, o2, C, sp.shards)
      BY <2>3, <2>4, <2>7, <3>4 DEF Parts, b, C
    <3> QED
      BY <3>5
  <2> QED
    BY <2>3, <2>6, <2>7
<1> QED
  BY <1>3, <1>8, <1>9

\* Shards that are all CPU shards, with the next numbers, or none of which is.
LEMMA NumberedConcat ==
  ASSUME NEW a, IsSeq(a), CpuNumbered(a), NEW b, IsSeq(b), NEW v \in BOOLEAN,
         NEW k, k = CpuCount(a, Len(a)), \A i \in DOMAIN b : b[i].cpu = v,
         v => \A i \in DOMAIN b : b[i].pv.execution_shard = k + i
  PROVE  /\ CpuNumbered(a \o b) /\ k \in Nat
         /\ CpuCount(a \o b, Len(a) + Len(b)) = k + (IF v THEN Len(b) ELSE 0)
<1> DEFINE t == a \o b
<1>1. /\ \A i \in 0 .. Len(a) : CpuCount(t, i) = CpuCount(a, i)
      /\ k \in Nat
      /\ \A i \in 0 .. Len(b) : CpuCount(t, Len(a) + i) = k + (IF v THEN i ELSE 0)
  BY CountConcat
<1>2. /\ Len(a) \in Nat /\ Len(b) \in Nat /\ DOMAIN a = 1 .. Len(a) /\ DOMAIN b = 1 .. Len(b)
      /\ DOMAIN t = 1 .. Len(a) + Len(b)
      /\ \A i \in 1 .. Len(a) : t[i] = a[i]
      /\ \A i \in 1 .. Len(b) : t[Len(a) + i] = b[i]
  BY ConcatParts
<1> HIDE DEF t
<1>3. ASSUME NEW i \in DOMAIN t, t[i].cpu PROVE t[i].pv.execution_shard = CpuCount(t, i)
  <2>1. CASE i \in 1 .. Len(a)
    <3>1. t[i] = a[i] /\ i \in DOMAIN a /\ i \in 0 .. Len(a)
      BY <1>2, <2>1
    <3>2. CpuCount(t, i) = CpuCount(a, i)
      BY <1>1, <3>1
    <3> QED
      BY <1>3, <3>1, <3>2 DEF CpuNumbered
  <2>2. CASE i \notin 1 .. Len(a)
    <3>1. PICK j \in 1 .. Len(b) : i = Len(a) + j
      <4>1. i - Len(a) \in 1 .. Len(b) /\ i = Len(a) + (i - Len(a))
        BY <1>2, <2>2
      <4> QED
        BY <4>1
    <3>2. t[i] = b[j] /\ j \in DOMAIN b /\ j \in 0 .. Len(b)
      BY <1>2, <3>1
    <3>3. v
      BY <1>3, <3>2
    <3>4. CpuCount(t, i) = k + j
      BY <1>1, <3>1, <3>2, <3>3
    <3> QED
      BY <3>2, <3>3, <3>4
  <2> QED
    BY <2>1, <2>2
<1>4. CpuCount(t, Len(a) + Len(b)) = k + (IF v THEN Len(b) ELSE 0)
  <2>1. Len(b) \in 0 .. Len(b)
    BY <1>2
  <2> QED
    BY <1>1, <2>1
<1> QED
  BY <1>1, <1>3, <1>4 DEF CpuNumbered, t

\* The verifier starts at the entry point, with digests and addresses of zero.
StartPv == [PublicValuesDefault EXCEPT !.next_pc = PcStart]

\* What the loop has made of the first n batches will be accepted.
Accepted(o, n) ==
    LET q == Ends(StartPv, o.shards)
    IN  /\ Chain(StartPv, 0, o.shards) /\ CpuNumbered(o.shards)
        /\ CpuCount(o.shards, Len(o.shards)) = RunBefore(n)
        /\ Reached(q, RunBefore(n))
        /\ n # 0 => Len(o.shards) # 0
        /\ Len(o.shards) # 0 => o.shards[1].cpu = TRUE
        /\ n < NumBatches => Ready(o.state, Len(o.shards)) /\ NoAddress(q)

\* The values of the verifier before the first shard.
LEMMA StartPvIs ==
  /\ StartPv.next_pc = PcStart
  /\ StartPv.committed_value_digest = 0 /\ StartPv.deferred_proofs_digest = 0
  /\ NoAddress(StartPv)
BY DEF StartPv, PublicValuesDefault, NoAddress

\* The values the loop starts from.
LEMMA DefaultReady == Ready(PublicValuesDefault, 0)
BY DEF Ready, PublicValuesDefault, IsPv, ZeroAddresses

\* Nothing was made yet.
LEMMA FirstAccepted == Accepted(FirstOutcome, 0)
<1>1. FirstOutcome.shards = <<>> /\ FirstOutcome.state = PublicValuesDefault
  BY DEF FirstOutcome
<1>2. PICK t : t = <<>>
  OBVIOUS
<1>3. Len(t) = 0 /\ IsSeq(t) /\ DOMAIN t = {}
  BY <1>2, EventsNone, SeqIsSeq DEF IsSeq
<1>4. Ends(StartPv, t) = StartPv
  BY <1>3 DEF Ends
<1>5. Chain(StartPv, 0, t) /\ CpuNumbered(t)
  BY <1>3 DEF Chain, CpuNumbered
<1>6. CpuCount(t, 0) = 0
  <2>1. {j \in 1 .. 0 : t[j].cpu} = {}
    OBVIOUS
  <2> QED
    BY <2>1, FS_EmptySet DEF CpuCount
<1>7. Reached(StartPv, 0)
  BY StartPvIs DEF Reached
<1>8. RunBefore(0) = 0
  BY RunEnds
<1> QED
  BY <1>1, <1>2, <1>3, <1>4, <1>5, <1>6, <1>7, <1>8, StartPvIs, DefaultReady DEF Accepted

\* Concatenation is associative, whatever the sequences contain.
LEMMA ConcatThree ==
  ASSUME NEW a, IsSeq(a), NEW b, IsSeq(b), NEW c, IsSeq(c)
  PROVE  a \o (b \o c) = (a \o b) \o c
<1> DEFINE S == Range(a) \cup Range(b) \cup Range(c)
<1>1. a \in Seq(S) /\ b \in Seq(S) /\ c \in Seq(S)
  <2>1. a \in Seq(Range(a)) /\ b \in Seq(Range(b)) /\ c \in Seq(Range(c))
    BY DEF IsSeq
  <2> QED
    BY <2>1
<1>2. Associative(S)
  BY ConcatAssoc
<1> HIDE DEF S
<1> QED
  BY <1>1, <1>2, Zenon DEF Associative

\* Public values at the same point have reached the same record.
LEMMA ReachedSame ==
  ASSUME NEW f, NEW p, NEW q, SamePoint(f, p), SamePoint(f, q), NEW k, Reached(p, k)
  PROVE  Reached(q, k)
BY DEF SamePoint, Reached

\* Where the numbering stands after the CPU shards C of batch n + 1.
LEMMA AfterCpuShards ==
  ASSUME WellExecuted, NEW o, NEW m \in Nat, Ready(o.state, m), NEW n \in 0 .. NumBatches - 1,
         NEW C, CpuBlock(o.state, Batches[n + 1], C), NEW q, NEW f,
         f = FirstPv(Numbered(o, n).state, Done(n))
  PROVE  /\ IsPv(f) /\ f.shard = m + Len(C) /\ f.exit_code = 0 /\ ZeroAddresses(f)
         /\ SamePoint(f, Ends(q, C)) /\ Len(C) \in Nat \ {0}
         /\ IsPv(Numbered(o, n).state) /\ Numbered(o, n).state.shard \in Nat
         /\ Ends(q, C) = C[Len(C)].pv
<1> DEFINE b == Batches[n + 1]
<1>1. PICK L, v : L = Len(b) /\ v = b[L].pv
  OBVIOUS
<1>2. L \in Nat \ {0}
  BY <1>1, CpuShardsBlock
<1>3. PICK s : s = o.state
  OBVIOUS
<1>4. PICK z : z = Numbered(o, n).state
  OBVIOUS
<1>5. z = CpuPv(s, v, L)
  BY <1>1, <1>2, <1>3, <1>4, CpuShardsIs
<1>6. s.shard = m /\ s.exit_code = 0 /\ ZeroAddresses(s)
  BY <1>3 DEF Ready
<1>7. IsPv(z)
  BY <1>5, CpuPvIs
<1>8. z.shard = m + L /\ z.exit_code = 0
  BY <1>5, <1>6 DEF CpuPv
<1>9. ZeroAddresses(z)
  BY <1>5, <1>6 DEF CpuPv, ZeroAddresses
<1>10. f = FirstPv(z, Done(n))
  BY <1>4
<1>11. /\ IsPv(f) /\ f.shard = z.shard /\ f.next_pc = z.next_pc /\ f.exit_code = z.exit_code
       /\ f.committed_value_digest = z.committed_value_digest
       /\ f.deferred_proofs_digest = z.deferred_proofs_digest
       /\ f.previous_init_addr_bits = z.previous_init_addr_bits
       /\ f.last_init_addr_bits = z.last_init_addr_bits
       /\ f.previous_finalize_addr_bits = z.previous_finalize_addr_bits
       /\ f.last_finalize_addr_bits = z.last_finalize_addr_bits
  <2> USE <1>7, <1>10
  <2> QED
    BY FirstPvIs
<1>12. ZeroAddresses(f)
  BY <1>9, <1>11 DEF ZeroAddresses
<1>13. Len(C) = L /\ L \in 1 .. L /\ SameButLast(C[L].pv, z)
  BY <1>1, <1>2, <1>3, <1>5 DEF CpuBlock
<1>14. Ends(q, C) = C[L].pv
  BY <1>2, <1>13 DEF Ends
<1>15. SamePoint(f, C[L].pv)
  BY <1>11, <1>13 DEF SamePoint, SameButLast
<1> QED
  BY <1>2, <1>4, <1>7, <1>8, <1>11, <1>12, <1>13, <1>14, <1>15

\* The shards of deferred events after them, numbered.
LEMMA AfterDeferredShards ==
  ASSUME NEW ss, SplitChain(ss), NEW m \in Nat, NEW f, f.exit_code = 0, f.shard = m, IsPv(f),
         ZeroAddresses(f), NEW p, SamePoint(f, p), NEW done \in BOOLEAN,
         ~done \/ ss # <<>> => NoAddress(p),
         ~done => NoMemory(ss),
         NEW z, IsPv(z), z.shard \in Nat, f = FirstPv(z, done),
         NEW x, x = NumberDeferredRecords(z, done, ss)
  PROVE  /\ Chain(p, m, x.records) /\ SamePoint(f, Ends(p, x.records))
         /\ NoCpu(x.records)
         /\ ~done => Ready(x.state, m + Len(x.records)) /\ NoAddress(Ends(p, x.records))
<1>1. IsSeq(ss) /\ Len(ss) \in Nat /\ DOMAIN ss = 1 .. Len(ss)
  <2>1. IsSeq(ss)
    BY DEF SplitChain
  <2> QED
    BY <2>1 DEF IsSeq
<1>2. PICK R : R = x.records
  OBVIOUS
<1>3. /\ x.state = (IF Len(ss) = 0 THEN f ELSE DeferredPv(f, ss[Len(ss)].pv, Len(ss)))
      /\ R = [i \in DOMAIN ss |-> [ss[i] EXCEPT !.pv = DeferredPv(f, ss[i].pv, i)]]
  BY <1>1, <1>2, NumberDeferredIs
<1>4. R = NumberedShards(f, ss)
  BY <1>3, Zenon DEF NumberedShard, NumberedShards
<1>5. CASE NoAddress(p)
  <2>1. /\ Chain(p, m, R) /\ Len(R) = Len(ss) /\ SamePoint(f, Ends(p, R))
        /\ NoCpu(R) /\ (NoMemory(ss) => NoAddress(Ends(p, R)))
    BY <1>4, <1>5, DeferredBlockChains
  <2>2. ASSUME ~done PROVE Ready(x.state, m + Len(R))
    <3>1. CASE Len(ss) = 0
      <4>1. x.state = f /\ m + Len(R) = m
        BY <1>3, <2>1, <3>1
      <4> QED
        BY <4>1 DEF Ready
    <3>2. CASE Len(ss) # 0
      <4>1. PICK l, v : l = Len(ss) /\ v = DeferredPv(f, PublicValuesDefault, l)
        OBVIOUS
      <4>2. Len(ss) \in DOMAIN ss
        BY <1>1, <3>2
      <4>3. x.state = v
        BY <1>3, <2>2, <3>2, <4>1, <4>2 DEF NoMemory
      <4>4. IsPv(v)
        BY <4>1, DeferredPvIs
      <4>5. v.shard = m + l /\ v.exit_code = 0
        BY <4>1 DEF DeferredPv
      <4>6. ZeroAddresses(v)
        <5>1. ZeroAddresses(PublicValuesDefault)
          BY DefaultReady DEF Ready
        <5> QED
          BY <4>1, <5>1 DEF DeferredPv, ZeroAddresses
      <4> QED
        BY <2>1, <4>1, <4>3, <4>4, <4>5, <4>6 DEF Ready
    <3> QED
      BY <3>1, <3>2
  <2> QED
    BY <1>2, <2>1, <2>2
<1>6. CASE ~NoAddress(p)
  <2>1. done /\ ss = <<>>
    BY <1>6
  <2>2. DOMAIN R = {} /\ IsSeq(R) /\ Len(R) = 0
    <3>1. Len(ss) = 0 /\ DOMAIN ss = {}
      BY <2>1
    <3>2. R = [i \in DOMAIN ss |-> R[i]]
      BY <1>3
    <3> QED
      BY <1>1, <3>1, <3>2, SameDomain
  <2>3. Chain(p, m, R) /\ Ends(p, R) = p
    BY <2>2 DEF Chain, Ends
  <2> QED
    BY <1>2, <2>1, <2>2, <2>3 DEF NoCpu
<1> QED
  BY <1>5, <1>6

\* Every iteration of the loop keeps the shards acceptable.
LEMMA IterationAccepts ==
  ASSUME WellExecuted, NEW n \in 0 .. NumBatches - 1, NEW o, Sound(o), Accepted(o, n),
         NEW o2 \in BatchOutcomes(o, n)
  PROVE  Accepted(o2, n + 1)
<1>1. NumBatches \in Nat /\ n < NumBatches /\ n \in Nat
  BY PipelineAssumption DEF NumBatches
<1>2. PICK a, p, q, m : a = o.shards /\ p = StartPv /\ q = Ends(p, a) /\ m = Len(a)
  OBVIOUS
<1>3. /\ Chain(p, 0, a) /\ CpuNumbered(a) /\ CpuCount(a, m) = RunBefore(n)
      /\ Reached(q, RunBefore(n)) /\ Ready(o.state, m) /\ NoAddress(q)
      /\ m # 0 => a[1].cpu = TRUE
  BY <1>1, <1>2 DEF Accepted
<1>4. IsSeq(a) /\ m \in Nat /\ DOMAIN a = 1 .. m
  <2>1. IsSeq(a)
    BY <1>3 DEF Chain
  <2> QED
    BY <1>2, <2>1 DEF IsSeq
<1>5. \E C, ss : Parts(o, n, o2, C, ss)
  BY <1>3, <1>4, IterationParts
<1>6. PICK C, ss : Parts(o, n, o2, C, ss)
  BY <1>5
<1>7. PICK z, f, x : /\ z = Numbered(o, n).state /\ f = FirstPv(z, Done(n))
                     /\ x = NumberDeferredRecords(z, Done(n), ss)
  OBVIOUS
<1>8. PICK R : R = x.records
  OBVIOUS
<1>9. /\ CpuBlock(o.state, Batches[n + 1], C) /\ SplitChain(ss)
      /\ ~Done(n) => NoMemory(ss)
      /\ ~Done(n) \/ ss # <<>> => \A i \in DOMAIN C : NoAddress(C[i].pv)
      /\ o2.shards = a \o (C \o R)
      /\ o2.state = x.state
  BY <1>2, <1>6, <1>7, <1>8 DEF Parts
<1>10. /\ Chain(q, m, C) /\ Reached(Ends(q, C), RunBefore(n + 1))
      /\ CpuFrom(C, RunBefore(n))
  BY <1>3, <1>4, <1>9, CpuBlockChains
<1>11. PICK l, e : l = Len(C) /\ e = Ends(q, C)
  OBVIOUS
<1>12. /\ IsPv(f) /\ f.shard = m + l /\ f.exit_code = 0 /\ ZeroAddresses(f)
       /\ SamePoint(f, e) /\ l \in Nat \ {0}
       /\ IsPv(z) /\ z.shard \in Nat /\ e = C[l].pv
  BY <1>3, <1>4, <1>7, <1>9, <1>11, AfterCpuShards
<1>13. IsSeq(C) /\ DOMAIN C = 1 .. l
  <2>1. IsSeq(C)
    BY <1>10 DEF Chain
  <2> QED
    BY <1>11, <2>1 DEF IsSeq
<1>14. ~Done(n) \/ ss # <<>> => NoAddress(e)
  <2>1. l \in DOMAIN C
    BY <1>12, <1>13
  <2> QED
    BY <1>9, <1>12, <2>1
<1>15. /\ Chain(e, m + l, R) /\ SamePoint(f, Ends(e, R)) /\ NoCpu(R)
       /\ ~Done(n) => Ready(x.state, (m + l) + Len(R)) /\ NoAddress(Ends(e, R))
  <2>1. m + l \in Nat /\ Done(n) \in BOOLEAN
    BY <1>4, <1>12 DEF Done
  <2> QED
    <3>1. /\ Chain(e, m + l, x.records) /\ SamePoint(f, Ends(e, x.records))
          /\ NoCpu(x.records)
          /\ ~Done(n) => /\ Ready(x.state, (m + l) + Len(x.records))
                         /\ NoAddress(Ends(e, x.records))
      BY <1>7, <1>9, <1>12, <1>14, <2>1, AfterDeferredShards
    <3> QED
      BY <1>8, <3>1
<1>16. IsSeq(R) /\ Len(R) \in Nat
  <2>1. IsSeq(R)
    BY <1>15 DEF Chain
  <2> QED
    BY <2>1 DEF IsSeq
<1>17. PICK u, t : u = a \o C /\ t = u \o R
  OBVIOUS
<1>18. o2.shards = t
  <2>1. a \o (C \o R) = (a \o C) \o R
    BY <1>4, <1>13, <1>16, ConcatThree
  <2> QED
    BY <1>9, <1>17, <2>1
<1>19. /\ Chain(p, 0, u) /\ Ends(p, u) = e /\ Len(u) = m + l
  <2>1. Chain(Ends(p, a), 0 + Len(a), C)
    BY <1>2, <1>4, <1>10
  <2> QED
    BY <1>2, <1>3, <1>11, <1>17, <2>1, ChainConcat
<1>20. /\ Chain(p, 0, t) /\ Ends(p, t) = Ends(e, R) /\ Len(t) = (m + l) + Len(R)
  <2>1. Chain(Ends(p, u), 0 + Len(u), R)
    BY <1>4, <1>12, <1>15, <1>19
  <2>2. 0 \in Nat
    OBVIOUS
  <2> QED
    <3>1. /\ Chain(p, 0, u \o R) /\ Ends(p, u \o R) = Ends(Ends(p, u), R)
          /\ Len(u \o R) = Len(u) + Len(R)
      BY <1>19, <2>1, <2>2, ChainConcat
    <3> QED
      BY <1>17, <1>19, <3>1
<1>21. CpuNumbered(u) /\ CpuCount(u, m + l) = RunBefore(n) + l /\ IsSeq(u)
  <2>1. TRUE \in BOOLEAN
    OBVIOUS
  <2>2. IsSeq(u)
    BY <1>19 DEF Chain
  <2> QED
    <3>1. PICK k : k = CpuCount(a, Len(a))
      OBVIOUS
    <3>2. k = RunBefore(n)
      BY <1>2, <1>3, <3>1
    <3>3. \A i \in DOMAIN C : C[i].cpu = TRUE /\ C[i].pv.execution_shard = k + i
      BY <1>10, <3>2 DEF CpuFrom
    <3>4. /\ CpuNumbered(a \o C)
          /\ CpuCount(a \o C, Len(a) + Len(C)) = k + (IF TRUE THEN Len(C) ELSE 0)
      BY <1>3, <1>4, <1>13, <2>1, <3>1, <3>3, NumberedConcat
    <3> QED
      BY <1>2, <1>11, <1>17, <2>2, <3>2, <3>4
<1>22. RunBefore(n + 1) = RunBefore(n) + l
  <2>1. Len(C) = Len(Batches[n + 1])
    BY <1>9 DEF CpuBlock
  <2> QED
    BY <1>11, <2>1, RunParts
<1>23. CpuNumbered(t) /\ CpuCount(t, Len(t)) = RunBefore(n + 1)
  <2>1. FALSE \in BOOLEAN
    OBVIOUS
  <2>2. PICK k : k = CpuCount(u, Len(u))
    OBVIOUS
  <2>3. k = RunBefore(n + 1)
    BY <1>19, <1>21, <1>22, <2>2
  <2>4. CpuNumbered(t) /\ k \in Nat /\ CpuCount(t, Len(u) + Len(R)) = k + 0
    BY <1>15, <1>16, <1>17, <1>21, <2>1, <2>2, NumberedConcat DEF NoCpu
  <2>5. k + 0 = k
    BY <2>4
  <2> QED
    BY <1>19, <1>20, <2>3, <2>4, <2>5
<1>24. Reached(Ends(p, t), RunBefore(n + 1))
  BY <1>10, <1>11, <1>12, <1>15, <1>20, ReachedSame
<1>25. Len(t) # 0 /\ t[1].cpu = TRUE
  <2>1. Len(t) # 0
    BY <1>4, <1>12, <1>16, <1>20
  <2>2. 1 \in 1 .. Len(u)
    BY <1>4, <1>12, <1>19
  <2>3. t[1] = u[1]
    BY <1>16, <1>17, <1>21, <2>2, ConcatParts
  <2>4. u[1].cpu = TRUE
    <3>1. CASE m = 0
      <4>1. 1 \in 1 .. l /\ m + 1 = 1
        BY <1>12, <3>1
      <4>2. u[m + 1] = C[1]
        BY <1>2, <1>4, <1>11, <1>13, <1>17, <4>1, ConcatParts
      <4> QED
        BY <1>10, <1>13, <4>1, <4>2 DEF CpuFrom
    <3>2. CASE m # 0
      <4>1. 1 \in 1 .. m
        BY <1>4, <3>2
      <4>2. u[1] = a[1]
        BY <1>2, <1>4, <1>13, <1>17, <4>1, ConcatParts
      <4>3. a[1].cpu = TRUE
        BY <1>3, <3>2
      <4> QED
        BY <4>2, <4>3
    <3> QED
      BY <3>1, <3>2
  <2> QED
    BY <2>1, <2>3, <2>4
<1>26. n + 1 < NumBatches => Ready(o2.state, Len(t)) /\ NoAddress(Ends(p, t))
  <2>1. n + 1 < NumBatches => ~Done(n)
    BY <1>1 DEF Done
  <2> QED
    BY <1>9, <1>15, <1>20, <2>1
<1> QED
  BY <1>2, <1>18, <1>20, <1>23, <1>24, <1>25, <1>26 DEF Accepted

-----------------------------------------------------------------------------
(* The whole loop, and the verifier. *)

\* Whatever the loop makes of a good execution is acceptable.
LEMMA OutcomesAccepted ==
  ASSUME WellExecuted, NEW o \in Outcomes[NumBatches]
  PROVE  Accepted(o, NumBatches)
<1> DEFINE N == NumBatches
           G == {n \in Nat : n <= N => \A x \in Outcomes[n] : Accepted(x, n)}
<1>1. N \in Nat
  BY PipelineAssumption DEF NumBatches
<1>2. Outcomes[0] = {FirstOutcome}
  BY OutcomesSound
<1>3. ASSUME NEW n \in 0 .. N - 1, NEW o2 \in Outcomes[n + 1]
      PROVE  \E x \in Outcomes[n] : o2 \in BatchOutcomes(x, n)
  <2>1. n + 1 \in 1 .. N /\ (n + 1) - 1 = n
    BY <1>1
  <2>2. \A k \in 1 .. N : Outcomes[k] = UNION {BatchOutcomes(x, k - 1) : x \in Outcomes[k - 1]}
    BY OutcomesLoop DEF Loop
  <2>3. Outcomes[n + 1] = UNION {BatchOutcomes(x, (n + 1) - 1) : x \in Outcomes[(n + 1) - 1]}
    BY <2>1, <2>2
  <2> QED
    BY <2>1, <2>3
<1> HIDE DEF N
<1>4. 0 \in G
  BY <1>2, FirstAccepted
<1>5. ASSUME NEW n \in Nat, n \in G PROVE n + 1 \in G
  <2>1. SUFFICES ASSUME n + 1 <= N, NEW o2 \in Outcomes[n + 1] PROVE Accepted(o2, n + 1)
    OBVIOUS
  <2>2. n \in 0 .. N - 1 /\ n <= N
    BY <1>1, <2>1
  <2>3. PICK x \in Outcomes[n] : o2 \in BatchOutcomes(x, n)
    BY <1>3, <2>1, <2>2
  <2>4. Accepted(x, n) /\ Sound(x)
    BY <1>5, <2>2, OutcomesSound DEF N
  <2> QED
    BY <2>2, <2>3, <2>4, IterationAccepts DEF N
<1> HIDE DEF G
<1>6. N \in G
  BY <1>1, <1>4, <1>5, Induction
<1> QED
  BY <1>6 DEF G, N

\* The execution ends, so the program counter after the last shard is 0.
LEMMA EndsHalted ==
  ASSUME WellExecuted, NEW q, Reached(q, RunBefore(NumBatches))
  PROVE  q.next_pc = 0
<1>1. PICK N \in Nat : N = NumBatches /\ N # 0
  BY PipelineAssumption DEF NumBatches
<1>2. PICK n \in 0 .. N - 1 : n + 1 = N
  <2>1. N - 1 \in 0 .. N - 1 /\ (N - 1) + 1 = N
    BY <1>1
  <2> QED
    BY <2>1
<1>3. Len(Batches[n + 1]) \in Nat \ {0}
  <2>1. n + 1 \in 1 .. NumBatches
    BY <1>1, <1>2
  <2>2. Batches[n + 1] \in Seq(Record)
    BY <2>1, BatchesCarry
  <2>3. DOMAIN Batches = 1 .. NumBatches
    BY PipelineAssumption DEF NumBatches
  <2>4. Batches[n + 1] # <<>>
    BY <2>1, <2>3, Zenon DEF WellExecuted
  <2> QED
    BY <2>2, <2>4, EmptySeq
<1>4. PICK k : k = Len(Run)
  OBVIOUS
<1>5. k \in Nat /\ k # 0 /\ RunBefore(NumBatches) = k /\ DOMAIN Run = 1 .. k
  <2>1. RunBefore(n) \in Nat /\ RunBefore(n + 1) = RunBefore(n) + Len(Batches[n + 1])
    BY <1>1, <1>2, RunParts
  <2> QED
    BY <1>1, <1>2, <1>3, <1>4, <2>1, RunEnds
<1>6. Run[k].pv.next_pc = 0
  <2>1. k \in DOMAIN Run
    BY <1>5
  <2> QED
    BY <1>4, <2>1, Zenon DEF WellExecuted, Run
<1> QED
  BY <1>5, <1>6 DEF Reached

\* A chain of shards from the start, judged by the rules of the verifier.
LEMMA ChainAccepted ==
  ASSUME NEW t, IsSeq(t), Chain(StartPv, 0, t), CpuNumbered(t), Len(t) # 0, t[1].cpu = TRUE,
         Ends(StartPv, t).next_pc = 0, Len(t) <= 2^16, CpuLogDegree <= MaxCpuLogDegree,
         NEW proof, proof = [i \in DOMAIN t |-> ToShardProof(t[i])]
  PROVE  Verifier!Accepts(proof)
<1>1. Len(t) \in Nat /\ DOMAIN t = 1 .. Len(t)
  BY DEF IsSeq
<1>2. DOMAIN proof = 1 .. Len(t) /\ Len(proof) = Len(t)
  <2>1. proof = [i \in DOMAIN t |-> proof[i]]
    OBVIOUS
  <2> QED
    BY <1>1, <2>1, SameDomain
<1>3. ASSUME NEW i \in 1 .. Len(t)
      PROVE  /\ proof[i].cpu = t[i].cpu /\ proof[i].pv = t[i].pv
             /\ proof[i].memInit = (t[i].init # <<>>)
             /\ proof[i].memFinalize = (t[i].finalize # <<>>)
             /\ proof[i].log_degree_cpu = CpuLogDegree
  <2>1. PICK r : r = t[i]
    OBVIOUS
  <2>2. proof[i] = [cpu |-> r.cpu, memInit |-> r.init # <<>>, memFinalize |-> r.finalize # <<>>,
                    log_degree_cpu |-> CpuLogDegree, pv |-> r.pv]
    BY <1>1, <2>1 DEF ToShardProof
  <2> QED
    BY <2>1, <2>2
<1>4. ASSUME NEW i \in 1 .. Len(t)
      PROVE  t[i].pv.shard = i /\ Linked(Before(StartPv, t, i), t[i])
  <2>1. t[i].pv.shard = 0 + i /\ Linked(Before(StartPv, t, i), t[i])
    BY <1>1 DEF Chain
  <2> QED
    BY <1>1, <2>1
<1>5. ASSUME NEW i \in 1 .. Len(t), i # 1 PROVE i - 1 \in 1 .. Len(t)
  BY <1>1, <1>5
<1> HIDE DEF Verifier!Accepts
<1>6. Verifier!NotEmpty(proof) /\ Verifier!FirstHasCpu(proof)
  <2>1. 1 \in 1 .. Len(t)
    BY <1>1
  <2>2. proof[1].cpu
    BY <1>3, <2>1
  <2>3. proof # <<>>
    BY <1>1, <1>2
  <2> QED
    BY <2>2, <2>3 DEF Verifier!NotEmpty, Verifier!FirstHasCpu
<1>7. Verifier!CpuDegreesFit(proof)
  BY <1>2, <1>3 DEF Verifier!CpuDegreesFit
<1>8. Verifier!ShardsCountUp(proof)
  BY <1>2, <1>3, <1>4 DEF Verifier!ShardsCountUp
<1>9. Verifier!ExecutionShardsCountUp(proof)
  <2>1. ASSUME NEW i \in 1 .. Len(t) PROVE Verifier!CpuUpTo(proof, i) = CpuCount(t, i)
    <3>1. \A j \in 1 .. i : j \in 1 .. Len(t)
      BY <1>1
    <3>2. \A j \in 1 .. i : proof[j].cpu = t[j].cpu
      BY <1>3, <3>1
    <3>3. {j \in 1 .. i : proof[j].cpu} = {j \in 1 .. i : t[j].cpu}
      BY <3>2, Zenon
    <3> QED
      BY <3>3, Zenon DEF Verifier!CpuUpTo, CpuCount, Verifier!Cardinality, Cardinality
  <2> QED
    BY <1>1, <1>2, <1>3, <2>1 DEF Verifier!ExecutionShardsCountUp, CpuNumbered
<1>10. Verifier!ProgramCounterChain(proof)
  <2>1. ASSUME NEW i \in 1 .. Len(t)
        PROVE  /\ proof[i].pv.start_pc = IF i = 1 THEN PcStart ELSE proof[i - 1].pv.next_pc
               /\ ~proof[i].cpu => proof[i].pv.start_pc = proof[i].pv.next_pc
               /\ proof[i].cpu => proof[i].pv.start_pc # 0
               /\ i = Len(proof) => proof[i].pv.next_pc = 0
    <3>1. i = Len(t) => t[i].pv.next_pc = 0
      BY DEF Ends
    <3>2. Before(StartPv, t, i).next_pc = IF i = 1 THEN PcStart ELSE proof[i - 1].pv.next_pc
      BY <1>3, <1>5, StartPvIs DEF Before
    <3>3. /\ t[i].pv.start_pc = Before(StartPv, t, i).next_pc
          /\ t[i].cpu => t[i].pv.start_pc # 0
          /\ ~t[i].cpu => t[i].pv.start_pc = t[i].pv.next_pc
      BY <1>4 DEF Linked
    <3> QED
      BY <1>2, <1>3, <3>1, <3>2, <3>3
  <2> QED
    BY <1>2, <2>1, Zenon DEF Verifier!ProgramCounterChain
<1>11. Verifier!ExitCodesZero(proof)
  BY <1>2, <1>3, <1>4 DEF Verifier!ExitCodesZero, Linked
<1>12. Verifier!MemoryAddressChain(proof)
  <2>1. ASSUME NEW i \in 1 .. Len(t)
        PROVE  /\ proof[i].pv.previous_init_addr_bits =
                     IF i = 1 THEN ZeroBits ELSE proof[i - 1].pv.last_init_addr_bits
               /\ proof[i].pv.previous_finalize_addr_bits =
                     IF i = 1 THEN ZeroBits ELSE proof[i - 1].pv.last_finalize_addr_bits
               /\ ~proof[i].memInit =>
                     proof[i].pv.previous_init_addr_bits = proof[i].pv.last_init_addr_bits
               /\ ~proof[i].memFinalize =>
                     proof[i].pv.previous_finalize_addr_bits = proof[i].pv.last_finalize_addr_bits
    <3>1. /\ Before(StartPv, t, i).last_init_addr_bits =
                IF i = 1 THEN ZeroBits ELSE proof[i - 1].pv.last_init_addr_bits
          /\ Before(StartPv, t, i).last_finalize_addr_bits =
                IF i = 1 THEN ZeroBits ELSE proof[i - 1].pv.last_finalize_addr_bits
      BY <1>3, <1>5, StartPvIs DEF Before, NoAddress
    <3>2. PICK r, p : r = t[i] /\ p = Before(StartPv, t, i)
      OBVIOUS
    <3>3. BitsFollow(p, r) /\ MemoryBits(r)
      BY <1>4, <3>2 DEF Linked
    <3>4. /\ r.pv.previous_init_addr_bits = p.last_init_addr_bits
          /\ r.pv.previous_finalize_addr_bits = p.last_finalize_addr_bits
          /\ r.init = <<>> => r.pv.previous_init_addr_bits = r.pv.last_init_addr_bits
          /\ r.finalize = <<>> => r.pv.previous_finalize_addr_bits = r.pv.last_finalize_addr_bits
      BY <3>3 DEF BitsFollow, MemoryBits, BitsOk
    <3> QED
      BY <1>3, <3>1, <3>2, <3>4
  <2> QED
    BY <1>2, <2>1, Zenon DEF Verifier!MemoryAddressChain
<1>13. Verifier!DigestChain(proof)
  <2> DEFINE committed(j) == IF j = 0 THEN 0 ELSE proof[j].pv.committed_value_digest
             deferred1(j) == IF j = 0 THEN 0 ELSE proof[j].pv.deferred_proofs_digest
  <2>1. ASSUME NEW i \in 1 .. Len(t)
        PROVE  /\ committed(i - 1) # 0 \/ ~proof[i].cpu => committed(i) = committed(i - 1)
               /\ deferred1(i - 1) # 0 \/ ~proof[i].cpu => deferred1(i) = deferred1(i - 1)
    <3>1. PICK r, p : r = t[i] /\ p = Before(StartPv, t, i)
      OBVIOUS
    <3>2. p.committed_value_digest = committed(i - 1) /\ p.deferred_proofs_digest = deferred1(i - 1)
      <4>1. i - 1 = 0 <=> i = 1
        BY <1>1
      <4>2. CASE i = 1
        BY <3>1, <4>1, <4>2, StartPvIs DEF Before
      <4>3. CASE i # 1
        <5>1. p = t[i - 1].pv /\ i - 1 \in 1 .. Len(t)
          BY <1>5, <3>1, <4>3 DEF Before
        <5>2. proof[i - 1].pv = p
          BY <1>3, <5>1
        <5> QED
          BY <4>1, <4>3, <5>2
      <4> QED
        BY <4>2, <4>3
    <3>3. r.pv.committed_value_digest = committed(i) /\ r.pv.deferred_proofs_digest = deferred1(i)
      BY <1>1, <1>3, <3>1
    <3>4. /\ DigestFollows(r.cpu, p.committed_value_digest, r.pv.committed_value_digest)
          /\ DigestFollows(r.cpu, p.deferred_proofs_digest, r.pv.deferred_proofs_digest)
      BY <1>4, <3>1 DEF Linked
    <3>5. proof[i].cpu = r.cpu
      BY <1>3, <3>1
    <3> HIDE DEF committed, deferred1
    <3> QED
      BY <3>2, <3>3, <3>4, <3>5 DEF DigestFollows
  <2> QED
    BY <1>2, <2>1, Zenon DEF Verifier!DigestChain
<1>14. Verifier!NotTooManyShards(proof)
  BY <1>2 DEF Verifier!NotTooManyShards
<1> QED
  BY <1>6, <1>7, <1>8, <1>9, <1>10, <1>11, <1>12, <1>13, <1>14, Zenon DEF Verifier!Accepts

\* What the loop makes of a good execution is accepted.
LEMMA LoopIsAccepted ==
  ASSUME WellExecuted, FewShards, CpuLogDegree <= MaxCpuLogDegree
  PROVE  ProvesLoop => OkProofIsAccepted
<1> SUFFICES ASSUME ProvesLoop, result = "ok" PROVE Verifier!Accepts(Proof)
  BY DEF OkProofIsAccepted
<1>1. PICK o \in Outcomes[NumBatches] : RecordsOf(proved) = o.shards
  BY DEF ProvesLoop
<1>2. PICK t : t = o.shards
  OBVIOUS
<1>3. Accepted(o, NumBatches)
  BY OutcomesAccepted
<1>4. NumBatches # 0
  BY PipelineAssumption DEF NumBatches
<1>5. /\ Chain(StartPv, 0, t) /\ CpuNumbered(t) /\ Len(t) # 0 /\ t[1].cpu = TRUE
      /\ Reached(Ends(StartPv, t), RunBefore(NumBatches))
  BY <1>2, <1>3, <1>4 DEF Accepted
<1>6. IsSeq(t)
  BY <1>5 DEF Chain
<1>7. Ends(StartPv, t).next_pc = 0
  BY <1>5, EndsHalted
<1>8. Len(t) <= 2^16
  BY <1>2 DEF FewShards
<1>9. Proof = [i \in DOMAIN t |-> ToShardProof(t[i])]
  BY <1>1, <1>2 DEF Proof
<1>10. PICK proof : proof = Proof
  OBVIOUS
<1>11. Verifier!Accepts(proof)
  BY <1>5, <1>6, <1>7, <1>8, <1>9, <1>10, ChainAccepted
<1> QED
  BY <1>10, <1>11

\* A call of prove_with_context that returns Ok returns a proof that passes every check
\* ZKMProver::verify makes on public values, whatever the interleaving, the batches, the split
\* options and the failures were: shards, execution shards, program counters, exit codes,
\* address bits and digests chain across batches, across the shards of deferred events and
\* across a last record that memory events were packed into.  The executor has to give a
\* well-formed execution that fits into the number of shards the verifier allows.
THEOREM ProofIsAccepted ==
  ASSUME WellExecuted, FewShards, CpuLogDegree <= MaxCpuLogDegree
  PROVE  Spec /\ []NeverFallsBack => []OkProofIsAccepted
BY LoopIsAccepted, OkProvesLoop, PTL

\* So for every program of at least 2^21 cycles, and for every program whose records all
\* have a shape, no assumption on the run is needed.
THEOREM OkProofIsAcceptedHolds ==
  ASSUME WellExecuted, FewShards, CpuLogDegree <= MaxCpuLogDegree,
         ~SmallProgram \/ UnfitChoices = {{}}
  PROVE  Spec => []OkProofIsAccepted
<1>1. CASE ~SmallProgram
  BY <1>1, LargeNeverFallsBack, ProofIsAccepted, PTL
<1>2. CASE UnfitChoices = {{}}
  BY <1>2, FittingNeverFallsBack, ProofIsAccepted, PTL
<1> QED
  BY <1>1, <1>2

-----------------------------------------------------------------------------
(* The shards that are sent. *)

\* f[i] is the number of blocks of the first i events, up to m.
BlockSums(f, s, m) == f[0] = 0 /\ \A i \in 1 .. m : f[i] = f[i - 1] + s[i].blocks

\* Blocks is the last of them.
LEMMA BlocksLoop ==
  ASSUME NEW s \in Seq(Event)
  PROVE  \E f \in [0 .. Len(s) -> Nat] : BlockSums(f, s, Len(s)) /\ Blocks(s) = f[Len(s)]
<1> DEFINE G == {m \in Nat : m <= Len(s) => \E f \in [0 .. m -> Nat] : BlockSums(f, s, m)}
<1>1. Len(s) \in Nat /\ \A i \in 1 .. Len(s) : s[i].blocks \in Nat
  <2>1. Len(s) \in Nat /\ \A i \in 1 .. Len(s) : s[i] \in Event
    OBVIOUS
  <2>2. \A e \in Event : e.blocks \in Nat
    BY DEF Event
  <2> QED
    BY <2>1, <2>2
<1>2. 0 \in G
  <2> DEFINE f == [i \in 0 .. 0 |-> 0]
  <2>1. f \in [0 .. 0 -> Nat] /\ f[0] = 0 /\ \A i \in 1 .. 0 : FALSE
    OBVIOUS
  <2> QED
    BY <2>1 DEF BlockSums
<1>3. ASSUME NEW m \in Nat, m \in G PROVE m + 1 \in G
  <2>1. SUFFICES ASSUME m + 1 <= Len(s)
                 PROVE  \E g \in [0 .. m + 1 -> Nat] : BlockSums(g, s, m + 1)
    OBVIOUS
  <2>2. PICK f \in [0 .. m -> Nat] : BlockSums(f, s, m)
    BY <1>1, <1>3, <2>1
  <2> DEFINE x == f[m] + s[m + 1].blocks
             g == [i \in 0 .. m + 1 |-> IF i <= m THEN f[i] ELSE x]
  <2>3. f[m] \in Nat /\ s[m + 1].blocks \in Nat
    BY <1>1, <2>1
  <2>4. x \in Nat
    BY <2>3
  <2> HIDE DEF x
  <2>5. g \in [0 .. m + 1 -> Nat] /\ g[0] = f[0]
    BY <2>4
  <2>6. ASSUME NEW i \in 1 .. m + 1 PROVE g[i] = g[i - 1] + s[i].blocks
    <3>1. CASE i <= m
      <4>1. i \in 1 .. m /\ g[i] = f[i] /\ g[i - 1] = f[i - 1]
        BY <3>1
      <4> HIDE DEF g
      <4> QED
        BY <2>2, <4>1 DEF BlockSums
    <3>2. CASE ~ (i <= m)
      <4>1. i = m + 1 /\ i - 1 = m /\ m + 1 \in 0 .. m + 1 /\ m \in 0 .. m + 1
            /\ ~ (m + 1 <= m) /\ m <= m
        BY <3>2
      <4>2. g[m + 1] = x /\ g[m] = f[m]
        BY <4>1
      <4> HIDE DEF g
      <4> QED
        BY <4>1, <4>2 DEF x
    <3> QED
      BY <3>1, <3>2
  <2> HIDE DEF g
  <2> QED
    BY <2>2, <2>5, <2>6 DEF BlockSums
<1> HIDE DEF G
<1>4. Len(s) \in G
  <2>1. \A m \in Nat : m \in G
    BY <1>2, <1>3, Induction
  <2> QED
    BY <1>1, <2>1
<1>5. PICK f \in [0 .. Len(s) -> Nat] : BlockSums(f, s, Len(s))
  BY <1>1, <1>4 DEF G
<1> DEFINE Eq(g) == g = [i \in 0 .. Len(s) |-> IF i = 0 THEN 0 ELSE g[i - 1] + s[i].blocks]
           h == CHOOSE g : Eq(g)
<1>6. Eq(f)
  <2>1. ASSUME NEW i \in 0 .. Len(s) PROVE f[i] = IF i = 0 THEN 0 ELSE f[i - 1] + s[i].blocks
    <3>1. i # 0 => i \in 1 .. Len(s)
      BY <1>1
    <3> QED
      BY <1>5, <3>1 DEF BlockSums
  <2> QED
    BY <1>5, <2>1
<1>7. Eq(h)
  <2> HIDE DEF Eq
  <2> QED
    BY <1>6
<1>8. Blocks(s) = h[Len(s)]
  BY DEF Blocks
<1> HIDE DEF h
<1>9. h[0] = 0 /\ \A i \in 1 .. Len(s) : h[i] = h[i - 1] + s[i].blocks
  BY <1>1, <1>7
<1>10. DOMAIN h = 0 .. Len(s)
  BY <1>7
<1> DEFINE H == {m \in Nat : m <= Len(s) => h[m] \in Nat}
<1> HIDE DEF Eq
<1>11. 0 \in H
  BY <1>9
<1>12. ASSUME NEW m \in Nat, m \in H PROVE m + 1 \in H
  <2>1. SUFFICES ASSUME m + 1 <= Len(s) PROVE h[m + 1] \in Nat
    OBVIOUS
  <2>2. h[m] \in Nat /\ m + 1 \in 1 .. Len(s) /\ (m + 1) - 1 = m
    BY <1>1, <1>12, <2>1
  <2>3. h[m + 1] = h[m] + s[m + 1].blocks
    BY <1>9, <2>2
  <2> QED
    BY <1>1, <2>2, <2>3
<1> HIDE DEF H
<1>13. \A m \in Nat : m \in H
  BY <1>11, <1>12, Induction
<1>14. \A i \in 0 .. Len(s) : h[i] \in Nat
  BY <1>1, <1>13 DEF H
<1>15. h \in [0 .. Len(s) -> Nat]
  <2>1. h = [i \in 0 .. Len(s) |-> h[i]]
    BY <1>7 DEF Eq
  <2> QED
    BY <1>14, <2>1
<1> QED
  BY <1>8, <1>9, <1>15 DEF BlockSums

\* One more event adds its blocks.
LEMMA BlocksAppend ==
  ASSUME NEW s \in Seq(Event), NEW e \in Event
  PROVE  Blocks(Append(s, e)) = Blocks(s) + e.blocks /\ Blocks(s) \in Nat
<1> DEFINE t == Append(s, e)
<1>1. t \in Seq(Event) /\ Len(s) \in Nat
  OBVIOUS
<1>2. Len(t) = Len(s) + 1 /\ t[Len(s) + 1] = e /\ \A i \in 1 .. Len(s) : t[i] = s[i]
  OBVIOUS
<1> HIDE DEF t
<1>3. PICK f \in [0 .. Len(s) -> Nat] : BlockSums(f, s, Len(s)) /\ Blocks(s) = f[Len(s)]
  BY BlocksLoop
<1>4. PICK g \in [0 .. Len(t) -> Nat] : BlockSums(g, t, Len(t)) /\ Blocks(t) = g[Len(t)]
  BY <1>1, BlocksLoop
<1> DEFINE G == {m \in Nat : m <= Len(s) => g[m] = f[m]}
<1>5. 0 \in G
  BY <1>3, <1>4 DEF BlockSums
<1>6. ASSUME NEW m \in Nat, m \in G PROVE m + 1 \in G
  <2>1. SUFFICES ASSUME m + 1 <= Len(s) PROVE g[m + 1] = f[m + 1]
    OBVIOUS
  <2>2. m + 1 \in 1 .. Len(s) /\ m + 1 \in 1 .. Len(t) /\ (m + 1) - 1 = m /\ g[m] = f[m]
    BY <1>1, <1>2, <1>6, <2>1
  <2>3. g[m + 1] = g[m] + t[m + 1].blocks /\ f[m + 1] = f[m] + s[m + 1].blocks
    BY <1>3, <1>4, <2>2 DEF BlockSums
  <2> QED
    BY <1>2, <2>2, <2>3
<1> HIDE DEF G
<1>7. \A m \in Nat : m \in G
  BY <1>5, <1>6, Induction
<1>8. g[Len(s)] = f[Len(s)] /\ f[Len(s)] \in Nat
  BY <1>1, <1>3, <1>7 DEF G
<1>9. g[Len(s) + 1] = g[Len(s)] + e.blocks
  <2>1. Len(s) + 1 \in 1 .. Len(t) /\ (Len(s) + 1) - 1 = Len(s)
    BY <1>1, <1>2
  <2>2. g[Len(s) + 1] = g[(Len(s) + 1) - 1] + t[Len(s) + 1].blocks
    BY <1>4, <2>1 DEF BlockSums
  <2> QED
    BY <1>2, <2>1, <2>2
<1> QED
  BY <1>2, <1>3, <1>4, <1>8, <1>9 DEF t

\* No event has no blocks, and one has its own.
LEMMA BlocksFirst ==
  /\ Blocks(<<>>) = 0
  /\ \A e \in Event : Blocks(<<e>>) = e.blocks
<1>1. PICK z : z = <<>>
  OBVIOUS
<1>2. z \in Seq(Event) /\ Len(z) = 0
  BY <1>1
<1>3. PICK f \in [0 .. Len(z) -> Nat] : BlockSums(f, z, Len(z)) /\ Blocks(z) = f[Len(z)]
  BY <1>2, BlocksLoop
<1>4. Blocks(z) = 0
  BY <1>2, <1>3 DEF BlockSums
<1>5. ASSUME NEW e \in Event PROVE Blocks(<<e>>) = e.blocks
  <2>1. Append(z, e) = <<e>> /\ e.blocks \in Nat
    BY <1>1 DEF Event
  <2>2. Blocks(Append(z, e)) = Blocks(z) + e.blocks
    BY <1>2, BlocksAppend
  <2> QED
    BY <1>4, <2>1, <2>2
<1> QED
  BY <1>1, <1>4, <1>5

\* The events of code c that one shard may have.
Fitting(c) == {ev \in Seq(Event) : Weight(c, ev) <= Threshold[c] \/ Len(ev) = 1}

\* The accumulator of the keccak branch keeps to the threshold.
KeccakFits(acc) ==
    /\ acc \in KeccakShards /\ acc.full \in Seq(Fitting(KECCAK_SPONGE))
    /\ acc.rest # <<>> => acc.rest \in Fitting(KECCAK_SPONGE)
    /\ acc.len = Blocks(acc.rest)

\* A step keeps to it: an event that would exceed it starts the next shard.
LEMMA KeccakStepFits ==
  ASSUME NEW acc, KeccakFits(acc), NEW e \in Event
  PROVE  KeccakFits(KeccakStep(acc, e, Threshold[KECCAK_SPONGE]))
<1> DEFINE n == Threshold[KECCAK_SPONGE]
           b == acc.rest
           x == KeccakStep(acc, e, n)
<1>1. n \in Nat /\ e.blocks \in Nat
  BY SplitAssumption DEF Event
<1> HIDE DEF n
<1>2. b \in Seq(Event) /\ acc.len \in Nat /\ acc.len = Blocks(b) /\ acc \in KeccakShards
  BY DEF KeccakFits, KeccakShards
<1>3. x \in KeccakShards
  BY <1>2, KeccakStepType
<1>4. ASSUME NEW ev \in Seq(Event), Blocks(ev) <= n \/ Len(ev) = 1
      PROVE  ev \in Fitting(KECCAK_SPONGE)
  BY <1>4 DEF Fitting, Weight, n
<1>5. CASE acc.len + e.blocks > n /\ b # <<>>
  <2>1. x.full = Append(acc.full, b) /\ x.rest = <<e>> /\ x.len = e.blocks
    BY <1>5 DEF KeccakStep
  <2>2. <<e>> \in Seq(Event) /\ Len(<<e>>) = 1
    OBVIOUS
  <2>3. <<e>> \in Fitting(KECCAK_SPONGE)
    BY <1>4, <2>2
  <2>4. Append(acc.full, b) \in Seq(Fitting(KECCAK_SPONGE))
    <3>1. acc.full \in Seq(Fitting(KECCAK_SPONGE)) /\ b \in Fitting(KECCAK_SPONGE)
      BY <1>5 DEF KeccakFits
    <3> QED
      BY <3>1
  <2> HIDE DEF x
  <2> QED
    BY <1>3, <2>1, <2>3, <2>4, BlocksFirst DEF KeccakFits, x, n
<1>6. CASE ~(acc.len + e.blocks > n /\ b # <<>>)
  <2>1. x.full = acc.full /\ x.rest = Append(b, e) /\ x.len = acc.len + e.blocks
    BY <1>2, <1>6 DEF KeccakStep, KeccakShards
  <2>2. Blocks(Append(b, e)) = acc.len + e.blocks
    BY <1>2, BlocksAppend
  <2>3. Append(b, e) \in Seq(Event)
    BY <1>2
  <2>4. Blocks(Append(b, e)) <= n \/ Len(Append(b, e)) = 1
    <3>1. CASE b = <<>>
      <4>1. Append(b, e) = <<e>>
        BY <3>1
      <4> QED
        BY <4>1
    <3>2. CASE b # <<>>
      BY <1>1, <1>2, <1>6, <2>2, <3>2
    <3> QED
      BY <3>1, <3>2
  <2>5. Append(b, e) \in Fitting(KECCAK_SPONGE)
    BY <1>4, <2>3, <2>4
  <2>6. acc.full \in Seq(Fitting(KECCAK_SPONGE))
    BY DEF KeccakFits
  <2> HIDE DEF x
  <2> QED
    BY <1>3, <2>1, <2>2, <2>5, <2>6 DEF KeccakFits, x, n
<1> QED
  BY <1>5, <1>6

\* The keccak branch keeps to the threshold.
LEMMA KeccakChunksFit ==
  ASSUME NEW s \in Seq(Event)
  PROVE  KeccakFits(KeccakChunks(s, Threshold[KECCAK_SPONGE]))
<1> DEFINE n == Threshold[KECCAK_SPONGE]
<1>1. PICK h : Keccaks(h, s, n, Len(s)) /\ KeccakChunks(s, n) = h[Len(s)]
  BY KeccakLoop
<1>2. Len(s) \in Nat /\ \A i \in 1 .. Len(s) : s[i] \in Event
  OBVIOUS
<1> DEFINE F(m) == KeccakFits(h[m])
           H == {m \in Nat : m <= Len(s) => F(m)}
<1>3. KeccakFits(KeccakFirst)
  <2>1. PICK z : z = <<>>
    OBVIOUS
  <2>2. z \in Seq(Seq(Event)) /\ z \in Seq(Event) /\ z \in Seq(Fitting(KECCAK_SPONGE))
    BY <2>1
  <2>3. KeccakFirst = [full |-> z, rest |-> z, len |-> 0] /\ Blocks(z) = 0
    BY <2>1, BlocksFirst DEF KeccakFirst
  <2> QED
    BY <2>1, <2>2, <2>3 DEF KeccakFits, KeccakShards
<1>4. 0 \in H
  BY <1>1, <1>3 DEF Keccaks
<1>5. ASSUME NEW m \in Nat, m \in H PROVE m + 1 \in H
  <2>1. SUFFICES ASSUME m + 1 <= Len(s) PROVE F(m + 1)
    OBVIOUS
  <2>2. F(m) /\ m + 1 \in 1 .. Len(s) /\ (m + 1) - 1 = m
    BY <1>2, <1>5, <2>1
  <2>3. h[m + 1] = KeccakStep(h[m], s[m + 1], n)
    BY <1>1, <2>2 DEF Keccaks
  <2> QED
    BY <1>2, <2>2, <2>3, KeccakStepFits
<1> HIDE DEF F, H
<1>6. \A m \in Nat : m \in H
  BY <1>4, <1>5, Induction
<1> QED
  BY <1>1, <1>2, <1>6 DEF F, H

\* Pieces of n events, and what is left of them.
LEMMA ExactLengths ==
  ASSUME NEW s \in Seq(Event), NEW n \in Nat \ {0}
  PROVE  LET ch == ChunksExact(s, n)
             T == {ev \in Seq(Event) : Len(ev) <= n}
         IN  ch.full \in Seq(T) /\ ch.rest \in T
<1> DEFINE full == ChunksExact(s, n).full
           rest == ChunksExact(s, n).rest
           T == {ev \in Seq(Event) : Len(ev) <= n}
<1>1. PICK l \in Nat : l = Len(s)
  OBVIOUS
<1>2. PICK m \in Nat : m = l \div n
  BY <1>1
<1>3. full = [k \in 1 .. m |-> SubSeq(s, (k - 1) * n + 1, k * n)] /\ rest = SubSeq(s, m * n + 1, l)
  BY <1>1, <1>2 DEF ChunksExact
<1>4. m * n \in Nat /\ m * n <= l /\ l - m * n <= n
  <2>1. l = n * (l \div n) + (l % n)
    BY <1>1, DivMod
  <2>2. l % n \in Nat /\ l % n < n
    BY <1>1
  <2>3. n * m = m * n /\ m * n \in Nat
    BY <1>2
  <2> QED
    BY <1>1, <1>2, <2>1, <2>2, <2>3
<1> HIDE DEF full, rest
<1>5. ASSUME NEW x \in Nat, NEW y \in Nat, x <= y, y <= l, y - x <= n
      PROVE  SubSeq(s, x + 1, y) \in T
  <2>1. SubSeq(s, x + 1, y) \in Seq(Event)
    BY <1>1, <1>5, Pieces
  <2>2. Len(SubSeq(s, x + 1, y)) = y - x
    <3> DEFINE E == Event
    <3>1. s \in Seq(E)
      OBVIOUS
    <3> HIDE DEF E
    <3> QED
      BY <1>1, <1>5, <3>1
  <2> QED
    BY <1>5, <2>1, <2>2
<1> HIDE DEF T
<1>6. ASSUME NEW k \in 1 .. m PROVE SubSeq(s, (k - 1) * n + 1, k * n) \in T
  <2>1. k * n \in Nat /\ (k - 1) * n \in Nat /\ (k - 1) * n + n = k * n
        /\ (k < m => k * n + n <= m * n)
    BY <1>2, ChunkBounds
  <2>2. PICK x \in Nat, y \in Nat, z \in Nat : x = (k - 1) * n /\ y = k * n /\ z = m * n
    BY <1>4, <2>1
  <2>3. x <= y /\ y <= z /\ z <= l /\ y - x <= n
    <3>1. x + n = y /\ (k < m => y + n <= z) /\ (k = m => y = z) /\ z <= l
      BY <1>4, <2>1, <2>2
    <3>2. k < m \/ k = m
      OBVIOUS
    <3> QED
      BY <3>1, <3>2
  <2>4. SubSeq(s, x + 1, y) \in T
    BY <1>5, <2>3
  <2> QED
    BY <2>2, <2>4
<1>7. full \in Seq(T)
  <2>1. full \in [1 .. m -> T]
    BY <1>3, <1>6
  <2> QED
    BY <2>1, FunctionIsSeq
<1>8. rest \in T
  <2>1. PICK x \in Nat : x = m * n
    BY <1>4
  <2>2. SubSeq(s, x + 1, l) \in T
    BY <1>1, <1>4, <1>5, <2>1
  <2> QED
    BY <1>3, <2>1, <2>2
<1> QED
  BY <1>7, <1>8 DEF full, rest, T

\* Every shard that split makes for a code has as many events as it may have.
LEMMA ChunksFit ==
  ASSUME NEW c \in Codes, NEW s \in Seq(Event)
  PROVE  LET ch == ChunksOf(c, s)
         IN  ch.full \in Seq(Fitting(c)) /\ (ch.rest # <<>> => ch.rest \in Fitting(c))
<1>1. CASE c = KECCAK_SPONGE
  BY <1>1, KeccakChunksFit DEF ChunksOf, KeccakFits
<1>2. CASE c # KECCAK_SPONGE
  <2> DEFINE n == Threshold[c]
             T == {ev \in Seq(Event) : Len(ev) <= n}
             ch == ChunksExact(s, n)
  <2>1. n \in Nat \ {0}
    BY SplitAssumption
  <2>2. ChunksOf(c, s) = ch
    BY <1>2 DEF ChunksOf
  <2>3. T \subseteq Fitting(c)
    BY <1>2 DEF Fitting, Weight
  <2> HIDE DEF n
  <2>4. ch.full \in Seq(T) /\ ch.rest \in T
    BY <2>1, ExactLengths
  <2> HIDE DEF T, ch
  <2> QED
    BY <2>2, <2>3, <2>4
<1> QED
  BY <1>1, <1>2

\* A record that may be sent.
Fine(r) == IsRecord(r) /\ AddressBitsMatchEvents(r) /\ RespectsLimits(r)
AllFine(recs) == IsSeq(recs) /\ \A i \in DOMAIN recs : Fine(recs[i])

\* A record whose events are deferred.
Emptied(r) ==
    /\ IsRecord(r) /\ IsPv(r.pv) /\ r.precompile = NoEvents
    /\ r.init = <<>> /\ r.finalize = <<>>

\* A record without precompile events may be sent if its memory events fit.
LEMMA FineMemory ==
  ASSUME NEW r, IsRecord(r), r.precompile = NoEvents, AddressBitsMatchEvents(r),
         Len(r.init) <= MemoryChunk, Len(r.finalize) <= MemoryChunk
  PROVE  Fine(r)
<1>1. {c \in Codes : r.precompile[c] # <<>>} = {}
  BY DEF NoEvents
<1>2. Cardinality({}) <= 1
  BY FS_EmptySet
<1> DEFINE codes == {c \in Codes : r.precompile[c] # <<>>}
<1>3. codes = {} /\ Cardinality(codes) <= 1
  BY <1>1, <1>2
<1> HIDE DEF codes
<1> QED
  BY <1>3 DEF Fine, RespectsLimits, codes

\* A record without events may.
LEMMA FineEmptied ==
  ASSUME NEW r, Emptied(r)
  PROVE  Fine(r)
<1>1. Len(<<>>) = 0
  OBVIOUS
<1>2. Len(r.init) <= MemoryChunk /\ Len(r.finalize) <= MemoryChunk
  BY <1>1, SplitAssumption DEF Emptied
<1>3. AddressBitsMatchEvents(r)
  BY DEF AddressBitsMatchEvents, Emptied
<1> QED
  BY <1>2, <1>3, FineMemory DEF Emptied

\* A precompile shard may, if its events fit.
LEMMA FinePrecompile ==
  ASSUME NEW c \in Codes, NEW ev \in Fitting(c)
  PROVE  Fine(PrecompileShard(c, ev))
<1>1. PICK x, p : /\ x = [NoEvents EXCEPT ![c] = ev] /\ p = PublicValuesDefault
                  /\ PrecompileShard(c, ev) =
                        [cpu |-> FALSE, precompile |-> x, init |-> <<>>,
                         finalize |-> <<>>, pv |-> p]
  BY PrecompileShardIs, Zenon
<1>2. PICK r : r = PrecompileShard(c, ev)
  OBVIOUS
<1>3. /\ IsRecord(r) /\ r.cpu = FALSE /\ r.precompile = x /\ r.init = <<>> /\ r.finalize = <<>>
  BY <1>1, <1>2 DEF IsRecord
<1>4. x[c] = ev /\ \A b \in Codes : b # c => x[b] = <<>>
  BY <1>1 DEF NoEvents
<1> DEFINE codes == {b \in Codes : r.precompile[b] # <<>>}
<1>5. codes \subseteq {c}
  BY <1>3, <1>4
<1>6. Cardinality(codes) <= 1
  <2>1. IsFiniteSet({c}) /\ Cardinality({c}) = 1
    BY FS_Singleton
  <2> HIDE DEF codes
  <2>2. Cardinality(codes) <= Cardinality({c})
    BY <1>5, <2>1, FS_Subset
  <2> QED
    BY <2>1, <2>2
<1>7. \A b \in codes : Weight(b, r.precompile[b]) <= Threshold[b] \/ Len(r.precompile[b]) = 1
  BY <1>3, <1>4, <1>5 DEF Fitting
<1>8. Len(<<>>) = 0 /\ 0 <= MemoryChunk
  BY SplitAssumption
<1> HIDE DEF codes
<1>9. AddressBitsMatchEvents(r)
  BY <1>3 DEF AddressBitsMatchEvents
<1>10. RespectsLimits(r)
  <2>1. Len(r.init) <= MemoryChunk /\ Len(r.finalize) <= MemoryChunk
    BY <1>3, <1>8
  <2> QED
    BY <1>3, <1>6, <1>7, <2>1 DEF RespectsLimits, codes
<1> QED
  BY <1>2, <1>3, <1>9, <1>10 DEF Fine

\* It may whatever its number is, as long as its address bits stay.
LEMMA FineNumbered ==
  ASSUME NEW x, Fine(x), NEW pv, pv.last_init_addr_bits = x.pv.last_init_addr_bits,
         pv.last_finalize_addr_bits = x.pv.last_finalize_addr_bits
  PROVE  Fine([x EXCEPT !.pv = pv])
<1>1. PICK r : r = [x EXCEPT !.pv = pv]
  OBVIOUS
<1>2. /\ r = [cpu |-> x.cpu, precompile |-> x.precompile, init |-> x.init,
              finalize |-> x.finalize, pv |-> pv]
  BY <1>1 DEF Fine, IsRecord
<1>3. /\ IsRecord(r) /\ r.cpu = x.cpu /\ r.precompile = x.precompile /\ r.init = x.init
      /\ r.finalize = x.finalize /\ r.pv = pv
  BY <1>2 DEF IsRecord
<1>4. AddressBitsMatchEvents(r)
  BY <1>3 DEF AddressBitsMatchEvents, Fine
<1>5. RespectsLimits(r)
  <2>1. RespectsLimits(x)
    BY DEF Fine
  <2> QED
    BY <1>3, <2>1 DEF RespectsLimits
<1> QED
  BY <1>1, <1>3, <1>4, <1>5 DEF Fine

\* Records that may be sent, one after the other.
LEMMA FineConcat ==
  ASSUME NEW a, AllFine(a), NEW b, AllFine(b)
  PROVE  AllFine(a \o b)
<1>1. IsSeq(a) /\ IsSeq(b) /\ IsSeq(a \o b)
  BY ConcatIsSeq DEF AllFine
<1>2. /\ Len(a) \in Nat /\ Len(b) \in Nat /\ DOMAIN a = 1 .. Len(a) /\ DOMAIN b = 1 .. Len(b)
      /\ DOMAIN (a \o b) = 1 .. Len(a) + Len(b)
      /\ \A i \in 1 .. Len(a) : (a \o b)[i] = a[i]
      /\ \A i \in 1 .. Len(b) : (a \o b)[Len(a) + i] = b[i]
  BY <1>1, ConcatParts
<1>3. ASSUME NEW i \in DOMAIN (a \o b) PROVE Fine((a \o b)[i])
  <2>1. CASE i <= Len(a)
    <3>1. i \in 1 .. Len(a)
      BY <1>2, <2>1
    <3> QED
      BY <1>2, <3>1 DEF AllFine
  <2>2. CASE ~(i <= Len(a))
    <3>1. PICK j \in 1 .. Len(b) : i = Len(a) + j
      <4>1. i - Len(a) \in 1 .. Len(b) /\ i = Len(a) + (i - Len(a))
        BY <1>2, <2>2
      <4> QED
        BY <4>1
    <3> QED
      BY <1>2, <3>1 DEF AllFine
  <2> QED
    BY <2>1, <2>2
<1> QED
  BY <1>1, <1>3 DEF AllFine

\* Single records and none.
LEMMA FineFew ==
  /\ AllFine(<<>>)
  /\ \A r : Fine(r) => AllFine(<<r>>)
<1>1. IsSeq(<<>>) /\ DOMAIN <<>> = {}
  BY EventsNone DEF Silent
<1>2. ASSUME NEW r, Fine(r) PROVE AllFine(<<r>>)
  <2>1. <<r>> \in Seq({r}) /\ DOMAIN <<r>> = {1} /\ <<r>>[1] = r
    OBVIOUS
  <2>2. IsSeq(<<r>>)
    BY <2>1, SeqIsSeq
  <2>3. \A i \in DOMAIN <<r>> : <<r>>[i] = r
    BY <2>1
  <2> QED
    BY <1>2, <2>2, <2>3 DEF AllFine
<1>3. AllFine(<<>>)
  BY <1>1 DEF AllFine
<1> QED
  BY <1>2, <1>3

\* Numbering keeps them.
LEMMA NumberedFine ==
  ASSUME NEW z, IsPv(z), z.shard \in Nat, NEW done, NEW ss, AllFine(ss)
  PROVE  LET x == NumberDeferredRecords(z, done, ss)
         IN  AllFine(x.records) /\ IsPv(x.state) /\ x.state.shard \in Nat
<1> DEFINE f == FirstPv(z, done)
           x == NumberDeferredRecords(z, done, ss)
           recs == [i \in DOMAIN ss |-> [ss[i] EXCEPT !.pv = DeferredPv(f, ss[i].pv, i)]]
<1>1. IsSeq(ss) /\ Len(ss) \in Nat /\ DOMAIN ss = 1 .. Len(ss)
  BY SeqIsSeq DEF AllFine, IsSeq
<1>2. /\ x.state = IF Len(ss) = 0 THEN f ELSE DeferredPv(f, ss[Len(ss)].pv, Len(ss))
      /\ x.records = recs
  BY <1>1, NumberDeferredIs
<1>3. IsPv(f) /\ f.shard \in Nat
  BY FirstPvIs
<1> HIDE DEF f, x
<1>4. IsPv(x.state) /\ x.state.shard \in Nat
  <2>1. CASE Len(ss) = 0
    BY <1>2, <1>3, <2>1
  <2>2. CASE Len(ss) # 0
    <3>1. x.state = DeferredPv(f, ss[Len(ss)].pv, Len(ss))
      BY <1>2, <2>2
    <3>2. DeferredPv(f, ss[Len(ss)].pv, Len(ss)).shard = f.shard + Len(ss)
      BY DEF DeferredPv
    <3> QED
      BY <1>1, <1>3, <3>1, <3>2, DeferredPvIs
  <2> QED
    BY <2>1, <2>2
<1>5. ASSUME NEW i \in DOMAIN ss PROVE Fine(recs[i])
  <2> DEFINE p == DeferredPv(f, ss[i].pv, i)
  <2>1. /\ p.last_init_addr_bits = ss[i].pv.last_init_addr_bits
        /\ p.last_finalize_addr_bits = ss[i].pv.last_finalize_addr_bits
    BY DEF DeferredPv
  <2>2. recs[i] = [ss[i] EXCEPT !.pv = p]
    OBVIOUS
  <2> HIDE DEF p, recs
  <2> QED
    BY <2>1, <2>2, FineNumbered DEF AllFine
<1>6. recs = [i \in DOMAIN ss |-> recs[i]]
  OBVIOUS
<1> HIDE DEF recs
<1>7. IsSeq(recs) /\ DOMAIN recs = DOMAIN ss
  BY <1>1, <1>6, SameDomain
<1>8. AllFine(recs)
  BY <1>5, <1>7 DEF AllFine
<1> QED
  BY <1>2, <1>4, <1>8 DEF x

\* A deferred record, whose memory events may be sorted already.
Waiting(d) ==
    /\ IsRecord(d) /\ \A c \in Codes : d.precompile[c] \in Seq(Event)
    /\ IsSeq(d.init) /\ IsSeq(d.finalize)

\* Chunks of memory events that a shard may have.
ShortChunks(ch) == ChunkList(ch) /\ \A k \in 1 .. Len(ch) : Len(ch[k]) <= MemoryChunk

\* A chunk of such a list, or none.
LEMMA ShortChunkAt ==
  ASSUME NEW ch, ShortChunks(ch), NEW k
  PROVE  Len(ChunkAt(ch, k)) <= MemoryChunk
<1>1. Len(<<>>) = 0 /\ 0 <= MemoryChunk
  BY SplitAssumption
<1>2. CASE k \in DOMAIN ch
  BY <1>2 DEF ChunkAt, ShortChunks, ChunkList
<1>3. CASE k \notin DOMAIN ch
  BY <1>1, <1>3 DEF ChunkAt
<1> QED
  BY <1>2, <1>3

\* The address bits of a record match its events if MemoryBits says so of it.
LEMMA MemoryBitsMatch ==
  ASSUME NEW r, MemoryBits(r)
  PROVE  AddressBitsMatchEvents(r)
BY DEF MemoryBits, BitsOk, AddressBitsMatchEvents

\* A chunk of memory events put into a record without events.
LEMMA FineWithMemory ==
  ASSUME NEW r, Emptied(r), NEW inits, ShortChunks(inits), NEW finalizes, ShortChunks(finalizes),
         NEW k \in Nat \ {0}
  PROVE  Fine(WithMemory(r, inits, finalizes, k))
<1>1. PICK m : m = WithMemory(r, inits, finalizes, k)
  OBVIOUS
<1>2. IsRecord(r) /\ IsPv(r.pv) /\ r.init = <<>> /\ r.finalize = <<>> /\ r.precompile = NoEvents
      /\ ChunkList(inits) /\ ChunkList(finalizes)
  BY DEF Emptied, ShortChunks
<1>3. /\ IsRecord(m) /\ m.precompile = r.precompile
      /\ m.init = ChunkAt(inits, k) /\ m.finalize = ChunkAt(finalizes, k) /\ MemoryBits(m)
  BY <1>1, <1>2, MemoryRecord
<1>4. Len(m.init) <= MemoryChunk /\ Len(m.finalize) <= MemoryChunk
  BY <1>3, ShortChunkAt
<1> QED
  BY <1>1, <1>2, <1>3, <1>4, MemoryBitsMatch, FineMemory

\* The memory shards.
LEMMA FineMemoryShards ==
  ASSUME NEW inits, ShortChunks(inits), NEW finalizes, ShortChunks(finalizes), NEW n \in Nat
  PROVE  AllFine([k \in 1 .. n |-> WithMemory(NewRecord, inits, finalizes, k)])
<1> DEFINE ms == [k \in 1 .. n |-> WithMemory(NewRecord, inits, finalizes, k)]
<1>1. Emptied(NewRecord)
  <2>1. NewRecord.precompile = NoEvents
    BY DEF NewRecord
  <2> QED
    BY <2>1, DefaultIs DEF Emptied
<1>2. ASSUME NEW k \in 1 .. n PROVE Fine(ms[k])
  <2>1. k \in Nat \ {0} /\ ms[k] = WithMemory(NewRecord, inits, finalizes, k)
    OBVIOUS
  <2> HIDE DEF ms
  <2> QED
    BY <1>1, <2>1, FineWithMemory
<1>3. ms \in [1 .. n -> Range(ms)] /\ DOMAIN ms = 1 .. n
  BY DEF Range
<1> HIDE DEF ms
<1>4. IsSeq(ms)
  BY <1>3, FunctionIsSeq
<1> QED
  BY <1>2, <1>3, <1>4 DEF AllFine, ms

\* A record into which the memory events are packed: one chunk of them at most.
LEMMA FinePacked ==
  ASSUME NEW r, Emptied(r), NEW inits, ShortChunks(inits), Len(inits) <= 1,
         NEW finalizes, ShortChunks(finalizes), Len(finalizes) <= 1
  PROVE  Fine(PackMemory(r, inits, finalizes, NumMemoryChunks(inits, finalizes)))
<1> DEFINE n == NumMemoryChunks(inits, finalizes)
<1>1. n \in Nat /\ (n = 0 \/ n = 1)
  BY DEF NumMemoryChunks, ShortChunks, ChunkList
<1> HIDE DEF n
<1>2. PICK f : Packs(f, r, inits, finalizes, n) /\ PackMemory(r, inits, finalizes, n) = f[n]
  BY <1>1, PackMemoryLoop, SMTT(30)
<1>3. CASE n = 0
  <2>1. PackMemory(r, inits, finalizes, n) = r
    BY <1>2, <1>3 DEF Packs
  <2> QED
    BY <2>1, FineEmptied DEF n
<1>4. CASE n = 1
  <2>1. f[0] = r /\ f[1] = WithMemory(f[1 - 1], inits, finalizes, 1)
    BY <1>2, <1>4 DEF Packs
  <2>2. 1 - 1 = 0 /\ 1 \in Nat \ {0}
    OBVIOUS
  <2>3. PackMemory(r, inits, finalizes, n) = WithMemory(r, inits, finalizes, 1)
    BY <1>2, <1>4, <2>1, <2>2
  <2>4. Fine(WithMemory(r, inits, finalizes, 1))
    BY <2>2, FineWithMemory
  <2> QED
    BY <2>3, <2>4 DEF n
<1> QED
  BY <1>1, <1>3, <1>4

\* What split is given: a last record without events, if the memory events are few.
MayTake(d, lastRecord) ==
    \/ lastRecord = <<>>
    \/ /\ lastRecord = <<lastRecord[1]>> /\ Emptied(lastRecord[1])
       /\ Len(d.init) <= MemoryChunk /\ Len(d.finalize) <= MemoryChunk

\* What it returns may be sent.
SplitFine(sp, lastRecord) ==
    /\ AllFine(sp.shards) /\ AllFine(sp.lastRecord) /\ Waiting(sp.deferred)
    /\ lastRecord = <<>> => sp.lastRecord = <<>>

\* Whether it is the last call or not, packed or not.
LEMMA SplitIsFine ==
  ASSUME NEW d, Waiting(d), NEW last \in BOOLEAN, NEW lastRecord, MayTake(d, lastRecord),
         NEW order \in IterationOrders
  PROVE  SplitFine(Split(d, last, lastRecord, order), lastRecord)
<1> DEFINE pre == PrecompileShards(d, last, order)
           sorted == [d EXCEPT !.precompile = Remainders(d, last),
                               !.init = IF last THEN SortByAddr(@) ELSE @,
                               !.finalize = IF last THEN SortByAddr(@) ELSE @]
           inits == Chunks(sorted.init, MemoryChunk)
           finalizes == Chunks(sorted.finalize, MemoryChunk)
           n == IF last THEN NumMemoryChunks(inits, finalizes) ELSE 0
           mem == [k \in 1 .. n |-> WithMemory(NewRecord, inits, finalizes, k)]
           pack == last /\ lastRecord # <<>> /\ pre = <<>>
           packed == PackMemory(lastRecord[1], inits, finalizes, n)
           sp == Split(d, last, lastRecord, order)
<1>1. sp = IF pack
           THEN [shards |-> <<>>, deferred |-> sorted, lastRecord |-> <<packed>>]
           ELSE [shards |-> pre \o mem, deferred |-> sorted, lastRecord |-> lastRecord]
  BY Zenon DEF Split
<1>2. /\ \A c \in Codes : d.precompile[c] \in Seq(Event)
      /\ Len(d.init) \in Nat /\ Len(d.finalize) \in Nat
  BY SeqIsSeq DEF Waiting, IsSeq
<1>3. /\ IsRecord(sorted) /\ sorted.precompile = Remainders(d, last)
      /\ sorted.init = IF last THEN SortByAddr(d.init) ELSE d.init
      /\ sorted.finalize = IF last THEN SortByAddr(d.finalize) ELSE d.finalize
  <2>1. PICK q, x, y : /\ q = Remainders(d, last)
                       /\ x = IF last THEN SortByAddr(d.init) ELSE d.init
                       /\ y = IF last THEN SortByAddr(d.finalize) ELSE d.finalize
    OBVIOUS
  <2>2. sorted = [d EXCEPT !.precompile = q, !.init = x, !.finalize = y]
    BY <2>1 DEF Waiting, IsRecord
  <2> HIDE DEF sorted
  <2>3. sorted = [cpu |-> d.cpu, precompile |-> q, init |-> x, finalize |-> y, pv |-> d.pv]
    BY <2>2 DEF Waiting, IsRecord
  <2> QED
    BY <2>1, <2>3 DEF IsRecord
<1> HIDE DEF sorted
<1>4. Waiting(sorted)
  <2>1. ASSUME NEW c \in Codes PROVE sorted.precompile[c] \in Seq(Event)
    <3>1. ChunksOf(c, d.precompile[c]).rest \in Seq(Event)
      BY <1>2, ChunksOfType
    <3>2. <<>> \in Seq(Event)
      OBVIOUS
    <3> QED
      BY <1>3, <3>1, <3>2 DEF Remainders
  <2>2. IsSeq(SortByAddr(d.init)) /\ IsSeq(SortByAddr(d.finalize))
    BY <1>2, SortedChunks DEF IsSeq
  <2> QED
    BY <1>3, <2>1, <2>2 DEF Waiting
<1>5. last => inits = MemoryChunks(d.init) /\ finalizes = MemoryChunks(d.finalize)
  BY <1>3 DEF MemoryChunks
<1> HIDE DEF inits, finalizes
<1>6. last => ShortChunks(inits) /\ ShortChunks(finalizes)
  BY <1>2, <1>5, MemoryChunkList DEF ShortChunks
<1>7. AllFine(pre)
  <2> DEFINE E == [c \in Codes |-> Fitting(c)]
  <2>1. \A c \in Codes : LET ch == ChunksOf(c, d.precompile[c])
                         IN  ch.full \in Seq(E[c]) /\ (ch.rest # <<>> => ch.rest \in E[c])
    BY <1>2, ChunksFit
  <2>2. \A c \in Codes : E[c] = Fitting(c)
    OBVIOUS
  <2>3. pre \in Seq(ShardsIn(E))
    <3> HIDE DEF E
    <3> QED
      BY <2>1, PrecompileShardsIn
  <2> HIDE DEF E, pre
  <2>4. ASSUME NEW r \in ShardsIn(E) PROVE Fine(r)
    <3>1. \E c \in Codes : \E ev \in E[c] : r = PrecompileShard(c, ev)
      BY DEF ShardsIn
    <3>2. PICK c \in Codes : \E ev \in E[c] : r = PrecompileShard(c, ev)
      BY <3>1
    <3> QED
      BY <2>2, <3>2, FinePrecompile
  <2>5. IsSeq(pre) /\ DOMAIN pre = 1 .. Len(pre) /\ \A i \in 1 .. Len(pre) : pre[i] \in ShardsIn(E)
    BY <2>3, SeqIsSeq
  <2> QED
    BY <2>4, <2>5 DEF AllFine
<1> HIDE DEF pre
<1>8. AllFine(mem)
  <2>1. CASE ~last
    <3>1. n = 0
      BY <2>1
    <3> HIDE DEF n
    <3>2. mem \in [1 .. 0 -> {}]
      BY <3>1
    <3> HIDE DEF mem
    <3>3. mem \in Seq({}) /\ Len(mem) = 0
      BY <3>2, FunctionIsSeq
    <3>4. mem = <<>>
      BY <3>3, EmptySeq
    <3> QED
      BY <3>4, FineFew
  <2>2. CASE last
    <3>1. n \in Nat
      BY <1>6, <2>2 DEF NumMemoryChunks, ShortChunks, ChunkList
    <3> HIDE DEF n
    <3> QED
      BY <1>6, <2>2, <3>1, FineMemoryShards
  <2> QED
    BY <2>1, <2>2
<1>9. pack => Fine(packed)
  <2> SUFFICES ASSUME pack PROVE Fine(packed)
    OBVIOUS
  <2>1. /\ Emptied(lastRecord[1]) /\ Len(d.init) <= MemoryChunk /\ Len(d.finalize) <= MemoryChunk
    BY DEF MayTake
  <2>2. Len(inits) <= 1 /\ Len(finalizes) <= 1
    BY <1>2, <1>5, <2>1, MemoryChunkList
  <2>3. n = NumMemoryChunks(inits, finalizes)
    OBVIOUS
  <2> QED
    BY <1>6, <2>1, <2>2, <2>3, FinePacked
<1> HIDE DEF n, mem, packed, sp
<1>10. AllFine(pre \o mem)
  BY <1>7, <1>8, FineConcat
<1>11. AllFine(lastRecord)
  <2>1. CASE lastRecord = <<>>
    BY <2>1, FineFew
  <2>2. CASE lastRecord # <<>>
    <3>1. lastRecord = <<lastRecord[1]>> /\ Emptied(lastRecord[1])
      BY <2>2 DEF MayTake
    <3>2. PICK r : r = lastRecord[1]
      OBVIOUS
    <3>3. AllFine(<<r>>) /\ lastRecord = <<r>>
      BY <3>1, <3>2, FineEmptied, FineFew
    <3> QED
      BY <3>3
  <2> QED
    BY <2>1, <2>2
<1>12. CASE pack
  <2>1. sp.shards = <<>> /\ sp.deferred = sorted /\ sp.lastRecord = <<packed>>
    BY <1>1, <1>12
  <2> QED
    BY <1>4, <1>9, <1>12, <2>1, FineFew DEF SplitFine, sp
<1>13. CASE ~pack
  <2>1. sp.shards = pre \o mem /\ sp.deferred = sorted /\ sp.lastRecord = lastRecord
    BY <1>1, <1>13
  <2> QED
    BY <1>4, <1>10, <1>11, <2>1 DEF SplitFine, sp
<1> QED
  BY <1>12, <1>13

\* The records of a batch with their public values, and without the deferred events.
\* The last batch has records.
NumberedBatch(recs, last) ==
    \E s, b : /\ b \in Seq(Record) /\ IsPv(s) /\ s.shard \in Nat
              /\ recs = NumberCpuRecords(s, b).records
              /\ last => b # <<>>
EmptiedBatch(recs, last) ==
    /\ IsSeq(recs) /\ \A i \in DOMAIN recs : Emptied(recs[i])
    /\ last => recs # <<>>

\* The public values after a batch.
LEMMA NumberedState ==
  ASSUME NEW s, IsPv(s), s.shard \in Nat, NEW b \in Seq(Record)
  PROVE  LET z == NumberCpuRecords(s, b).state IN IsPv(z) /\ z.shard \in Nat
<1> DEFINE z == NumberCpuRecords(s, b).state
<1>1. IsSeq(b) /\ Len(b) \in Nat
  BY SeqIsSeq
<1>2. z = IF Len(b) = 0 THEN s ELSE CpuPv(s, b[Len(b)].pv, Len(b))
  BY <1>1, NumberCpuIs
<1>3. CpuPv(s, b[Len(b)].pv, Len(b)).shard = s.shard + Len(b)
  BY DEF CpuPv
<1> HIDE DEF z
<1> QED
  BY <1>1, <1>2, <1>3, CpuPvIs DEF z

\* More deferred events.
LEMMA DeferWaits ==
  ASSUME NEW d, Waiting(d), NEW recs, NEW last, NumberedBatch(recs, last)
  PROVE  Waiting(DeferAll(d, recs))
<1>1. PICK s, b : b \in Seq(Record) /\ recs = NumberCpuRecords(s, b).records
  BY DEF NumberedBatch
<1> DEFINE e == Deferred(recs)
           y == Append2(d, e)
<1>2. /\ IsSeq(recs) /\ DOMAIN recs = 1 .. Len(b) /\ Len(b) \in Nat
      /\ \A i \in 1 .. Len(b) :
            /\ recs[i].precompile = b[i].precompile
            /\ recs[i].init = b[i].init /\ recs[i].finalize = b[i].finalize
  BY <1>1, NumberCpuType
<1>3. \A i \in 1 .. Len(b) : /\ b[i].precompile \in [Codes -> Seq(Event)]
                             /\ b[i].init \in Seq(Nat) /\ b[i].finalize \in Seq(Nat)
  <2>1. \A i \in 1 .. Len(b) : b[i] \in Record
    BY <1>1
  <2> QED
    BY <2>1 DEF Record
<1>4. \A c \in Codes : PrecompileEvents(recs, c) \in Seq(Event)
  <2> TAKE c \in Codes
  <2>1. [i \in DOMAIN recs |-> recs[i].precompile[c]] \in [1 .. Len(b) -> Seq(Event)]
    BY <1>2, <1>3
  <2> QED
    BY <1>2, <2>1, FlattenFunction DEF PrecompileEvents
<1>5. InitEvents(recs) \in Seq(Nat)
  <2>1. [i \in DOMAIN recs |-> recs[i].init] \in [1 .. Len(b) -> Seq(Nat)]
    BY <1>2, <1>3
  <2> QED
    BY <1>2, <2>1, FlattenFunction DEF InitEvents
<1>6. FinalizeEvents(recs) \in Seq(Nat)
  <2>1. [i \in DOMAIN recs |-> recs[i].finalize] \in [1 .. Len(b) -> Seq(Nat)]
    BY <1>2, <1>3
  <2> QED
    BY <1>2, <2>1, FlattenFunction DEF FinalizeEvents
<1>7. /\ e.precompile = [c \in Codes |-> PrecompileEvents(recs, c)]
      /\ e.init = InitEvents(recs) /\ e.finalize = FinalizeEvents(recs)
  BY DEF Deferred, NewRecord
<1> HIDE DEF e
<1>8. \A c \in Codes : d.precompile[c] \o e.precompile[c] \in Seq(Event)
  BY <1>4, <1>7 DEF Waiting
<1>9. IsSeq(d.init \o e.init) /\ IsSeq(d.finalize \o e.finalize)
  <2>1. IsSeq(e.init) /\ IsSeq(e.finalize)
    BY <1>5, <1>6, <1>7, SeqIsSeq
  <2> QED
    BY <2>1, ConcatIsSeq DEF Waiting
<1>10. PICK q, x, z : /\ q = [c \in Codes |-> d.precompile[c] \o e.precompile[c]]
                      /\ x = d.init \o e.init /\ z = d.finalize \o e.finalize
  OBVIOUS
<1>11. y = [d EXCEPT !.precompile = q, !.init = x, !.finalize = z]
  BY <1>10, Zenon DEF Append2
<1> HIDE DEF y
<1>12. y = [cpu |-> d.cpu, precompile |-> q, init |-> x, finalize |-> z, pv |-> d.pv]
  BY <1>11 DEF Waiting, IsRecord
<1>13. IsRecord(y) /\ y.precompile = q /\ y.init = x /\ y.finalize = z
  BY <1>12 DEF IsRecord
<1>14. \A c \in Codes : q[c] \in Seq(Event)
  BY <1>8, <1>10
<1> QED
  BY <1>9, <1>10, <1>13, <1>14 DEF Waiting, DeferAll, e, y

\* What is left of the records.
LEMMA DeferEmpties ==
  ASSUME NEW recs, NEW last, NumberedBatch(recs, last)
  PROVE  EmptiedBatch([i \in DOMAIN recs |-> AfterDefer(recs[i])], last)
<1>1. PICK s, b : /\ b \in Seq(Record) /\ IsPv(s) /\ s.shard \in Nat
                  /\ recs = NumberCpuRecords(s, b).records
                  /\ last => b # <<>>
  BY DEF NumberedBatch
<1> DEFINE cs == [i \in DOMAIN recs |-> AfterDefer(recs[i])]
           P(i) == CpuPv(s, b[i].pv, i)
<1>2. IsSeq(b) /\ Len(b) \in Nat /\ DOMAIN b = 1 .. Len(b) /\ \A i \in 1 .. Len(b) : b[i] \in Record
  BY <1>1, SeqIsSeq
<1>3. recs = [i \in DOMAIN b |-> [b[i] EXCEPT !.pv = P(i)]]
  BY <1>1, <1>2, NumberCpuIs
<1>4. DOMAIN recs = DOMAIN b
  BY <1>3
<1>5. cs = [i \in DOMAIN b |-> cs[i]] /\ \A i \in DOMAIN b : cs[i] = AfterDefer(recs[i])
  BY <1>4
<1> HIDE DEF cs
<1>6. IsSeq(cs) /\ Len(cs) = Len(b) /\ DOMAIN cs = 1 .. Len(b)
  BY <1>2, <1>5, SameDomain
<1>7. ASSUME NEW i \in 1 .. Len(b) PROVE Emptied(cs[i])
  <2>1. PICK x, v : x = b[i] /\ v = P(i)
    OBVIOUS
  <2>2. PICK y : y = [x EXCEPT !.pv = v]
    OBVIOUS
  <2>3. y = [cpu |-> x.cpu, precompile |-> x.precompile, init |-> x.init,
             finalize |-> x.finalize, pv |-> v]
    <3>1. x \in Record
      BY <1>2, <2>1
    <3>2. IsRecord(x)
      BY <3>1 DEF Record, IsRecord
    <3> QED
      BY <2>2, <3>2 DEF IsRecord
  <2>4. cs[i] = AfterDefer(y)
    <3>1. i \in DOMAIN b
      BY <1>2
    <3>2. recs[i] = y
      BY <1>3, <2>1, <2>2, <3>1
    <3> QED
      BY <1>5, <3>1, <3>2
  <2>5. PICK y1 : y1 = [y EXCEPT !.precompile = NoEvents]
    OBVIOUS
  <2>6. PICK y2 : y2 = [y1 EXCEPT !.init = <<>>]
    OBVIOUS
  <2>7. PICK y3 : y3 = [y2 EXCEPT !.finalize = <<>>]
    OBVIOUS
  <2>8. y1 = [cpu |-> x.cpu, precompile |-> NoEvents, init |-> x.init,
              finalize |-> x.finalize, pv |-> v]
    BY <2>3, <2>5
  <2>9. y2 = [cpu |-> x.cpu, precompile |-> NoEvents, init |-> <<>>,
              finalize |-> x.finalize, pv |-> v]
    BY <2>6, <2>8
  <2>10. y3 = [cpu |-> x.cpu, precompile |-> NoEvents, init |-> <<>>, finalize |-> <<>>, pv |-> v]
    BY <2>7, <2>9
  <2>11. AfterDefer(y) = y3
    BY <2>5, <2>6, <2>7, Zenon DEF AfterDefer
  <2>12. IsPv(v)
    BY <2>1, CpuPvIs
  <2>13. Emptied(y3)
    BY <2>10, <2>12 DEF Emptied, IsRecord
  <2> QED
    BY <2>4, <2>11, <2>13
<1>8. last => cs # <<>>
  <2>1. last => Len(b) # 0
    BY <1>1, <1>2, EmptySeq
  <2>2. Len(<<>>) = 0
    OBVIOUS
  <2> QED
    BY <1>6, <2>1, <2>2
<1> QED
  BY <1>6, <1>7, <1>8 DEF EmptiedBatch, cs

\* The emptied records of a batch may be sent, also without the last one.
LEMMA EmptiedFine ==
  ASSUME NEW recs, NEW last, EmptiedBatch(recs, last)
  PROVE  /\ AllFine(recs)
         /\ last => AllFine(Front(recs)) /\ Emptied(Last(recs))
<1>1. AllFine(recs)
  BY FineEmptied DEF AllFine, EmptiedBatch
<1>2. ASSUME last PROVE AllFine(Front(recs)) /\ Emptied(Last(recs))
  <2>1. IsSeq(recs) /\ recs # <<>> /\ \A i \in DOMAIN recs : Emptied(recs[i])
    BY <1>2 DEF EmptiedBatch
  <2>2. Len(recs) \in Nat /\ DOMAIN recs = 1 .. Len(recs) /\ Len(recs) # 0
    BY <2>1, SeqIsSeq, EmptySeq DEF IsSeq
  <2>3. IsSeq(Front(recs)) /\ DOMAIN Front(recs) \subseteq DOMAIN recs
        /\ \A i \in DOMAIN Front(recs) : Front(recs)[i] = recs[i]
    <3>1. IsSeq(Front(recs))
      BY <2>1, FrontIsSeq
    <3>2. PICK l \in Nat : l = Len(recs) /\ l # 0
      BY <2>2
    <3> DEFINE S == Range(recs)
    <3>3. recs \in Seq(S) /\ Front(recs) = SubSeq(recs, 1, l - 1)
      BY <2>1, <3>2 DEF IsSeq, Front
    <3> HIDE DEF S
    <3>4. DOMAIN SubSeq(recs, 1, l - 1) = 1 .. l - 1
          /\ \A i \in 1 .. l - 1 : SubSeq(recs, 1, l - 1)[i] = recs[i]
      BY <3>2, <3>3
    <3>5. 1 .. l - 1 \subseteq DOMAIN recs
      BY <2>2, <3>2
    <3> QED
      BY <3>1, <3>3, <3>4, <3>5
  <2>4. AllFine(Front(recs))
    BY <2>1, <2>3, FineEmptied DEF AllFine
  <2>5. Emptied(Last(recs))
    BY <2>1, <2>2 DEF Last
  <2> QED
    BY <2>4, <2>5
<1> QED
  BY <1>1, <1>2

\* Lists of such records, as they are cut and sent.
ListsFine(ch) == IsSeq(ch) /\ \A k \in DOMAIN ch : AllFine(ch[k])

\* The chunks in which the records of a batch are sent.
LEMMA CutFine ==
  ASSUME NEW recs, AllFine(recs), NEW n \in Nat \ {0}
  PROVE  ListsFine(Chunks(recs, n))
<1> DEFINE S == {r \in Range(recs) : Fine(r)}
           ch == Chunks(recs, n)
<1>1. recs \in Seq(S)
  <2>1. Len(recs) \in Nat /\ DOMAIN recs = 1 .. Len(recs) /\ recs \in Seq(Range(recs))
    BY SeqIsSeq DEF AllFine, IsSeq
  <2>2. \A i \in 1 .. Len(recs) : recs[i] \in Range(recs) /\ Fine(recs[i])
    BY <2>1 DEF AllFine
  <2> QED
    BY <2>1, <2>2
<1>2. \A r \in S : Fine(r)
  OBVIOUS
<1> HIDE DEF S
<1>3. ch \in Seq(Seq(S))
  BY <1>1, ChunksFlatten
<1> HIDE DEF ch
<1>4. IsSeq(ch) /\ DOMAIN ch = 1 .. Len(ch) /\ \A k \in 1 .. Len(ch) : ch[k] \in Seq(S)
  BY <1>3, SeqIsSeq
<1>5. ASSUME NEW k \in DOMAIN ch PROVE AllFine(ch[k])
  <2>1. PICK t \in Seq(S) : t = ch[k]
    BY <1>4
  <2>2. IsSeq(t) /\ DOMAIN t = 1 .. Len(t) /\ \A i \in 1 .. Len(t) : t[i] \in S
    BY SeqIsSeq
  <2> QED
    BY <1>2, <2>1, <2>2 DEF AllFine
<1> QED
  BY <1>4, <1>5 DEF ListsFine, ch

\* What a worker has at label p.
Held(p, recs, cl, last) ==
    /\ p = "defer" => NumberedBatch(recs, last)
    /\ p \in {"split", "splitPlain", "dependencies1", "shape1"} => EmptiedBatch(recs, last)
    /\ p \in {"dependencies1", "shape1"} => AllFine(cl)
    /\ p \in {"dependencies2", "shape2", "traces", "waitTrace"} => AllFine(recs)

SentFine(out) == IsSeq(out) /\ \A i \in DOMAIN out : AllFine(out[i].records)

SharedFine(s, d) == IsPv(s) /\ s.shard \in Nat /\ Waiting(d)

\* The inductive invariant: what is shared, what the workers have and what is sent.
WInv ==
    /\ SharedFine(state, deferred) /\ SentFine(output) /\ DOMAIN chunks = Workers
    /\ \A w \in Workers : /\ Held(pc[w], records[w], clone[w], Done(index[w]))
                          /\ ListsFine(chunks[w])

\* A step of one worker.
LEMMA HeldStep ==
  ASSUME IInv, WInv, NEW w \in Workers, NEW x, pc' = [pc EXCEPT ![w] = x],
         \A v \in Workers : v # w => /\ records'[v] = records[v] /\ clone'[v] = clone[v]
                                     /\ index'[v] = index[v] /\ chunks'[v] = chunks[v],
         Held(x, records'[w], clone'[w], Done(index'[w])), ListsFine(chunks'[w]),
         DOMAIN chunks' = Workers, SharedFine(state', deferred'), SentFine(output')
  PROVE  WInv'
<1>1. pc'[w] = x /\ \A v \in Workers : v # w => pc'[v] = pc[v]
  BY DEF IInv, TypeOK
<1>2. ASSUME NEW v \in Workers
      PROVE  Held(pc'[v], records'[v], clone'[v], Done(index'[v])) /\ ListsFine(chunks'[v])
  <2>1. CASE v = w
    BY <1>1, <2>1
  <2>2. CASE v # w
    <3>1. /\ records'[v] = records[v] /\ clone'[v] = clone[v] /\ pc'[v] = pc[v]
          /\ index'[v] = index[v] /\ chunks'[v] = chunks[v]
      BY <1>1, <2>2
    <3>2. Held(pc[v], records[v], clone[v], Done(index[v])) /\ ListsFine(chunks[v])
      BY DEF WInv
    <3> QED
      BY <3>1, <3>2
  <2> QED
    BY <2>1, <2>2
<1>3. \A v \in Workers : /\ Held(pc'[v], records'[v], clone'[v], Done(index'[v]))
                         /\ ListsFine(chunks'[v])
  BY <1>2
<1>4. \A v \in Workers : Done(index[v])' <=> Done(index'[v])
  BY DEF Done, NumBatches
<1> QED
  BY <1>3, <1>4 DEF WInv, Held, SharedFine, Waiting

\* Nothing is held at most labels.
LEMMA HeldNothing ==
  ASSUME NEW x \in {"recv", "waitRecord", "number", "send", "dropGuards"} \cup Ended,
         NEW recs, NEW cl, NEW last
  PROVE  Held(x, recs, cl, last)
BY DEF Held, Ended

\* A worker that only moves on.
LEMMA HeldMoves ==
  ASSUME IInv, WInv, NEW w \in Workers, NEW x, pc' = [pc EXCEPT ![w] = x],
         Held(x, records[w], clone[w], Done(index[w])),
         UNCHANGED <<records, clone, index, chunks, state, deferred, output>>
  PROVE  WInv'
<1>1. /\ records' = records /\ clone' = clone /\ index' = index /\ chunks' = chunks
      /\ state' = state /\ deferred' = deferred /\ output' = output
  OBVIOUS
<1>2. ListsFine(chunks[w]) /\ DOMAIN chunks = Workers /\ SharedFine(state, deferred)
      /\ SentFine(output)
  BY DEF WInv
<1>3. Held(x, records'[w], clone'[w], Done(index'[w]))
  BY <1>1
<1> QED
  BY <1>1, <1>2, <1>3, HeldStep

\* A worker keeps the invariant, also one that fails.
LEMMA WorkerWInv ==
  ASSUME IInv, Fresh, WInv, NEW w \in Workers, WorkerStep(w) \/ WorkerFails(w)
  PROVE  WInv'
<1>1. /\ pc \in [Workers -> PCs] /\ index \in [Workers -> 0 .. NumBatches - 1]
      /\ DOMAIN records = Workers /\ DOMAIN clone = Workers /\ DOMAIN chunks = Workers
  BY DEF IInv, TypeOK, Fresh, WInv
<1>2. Held(pc[w], records[w], clone[w], Done(index[w])) /\ ListsFine(chunks[w])
      /\ SharedFine(state, deferred) /\ SentFine(output)
  BY DEF WInv
<1>3. CASE ReceiveDisconnected(w) \/ WaitForRecordTurn(w) \/ NumberPanics(w)
           \/ FixShapesPanics(w) \/ SendPanics(w) \/ AdvanceTraceTurn(w) \/ DropGuards(w)
           \/ WorkerFails(w)
  <2>1. /\ \E x \in {"recv", "number", "dropGuards", "ok", "err", "panic"} :
              pc' = [pc EXCEPT ![w] = x]
        /\ UNCHANGED <<records, clone, index, chunks, state, deferred, output>>
    BY <1>3 DEF ReceiveDisconnected, WaitForRecordTurn, NumberPanics, FixShapesPanics,
                SendPanics, AdvanceTraceTurn, DropGuards, WorkerFails, Goto, shared, proving
  <2>2. PICK x \in {"recv", "number", "dropGuards", "ok", "err", "panic"} :
              pc' = [pc EXCEPT ![w] = x]
    BY <2>1
  <2>3. Held(x, records[w], clone[w], Done(index[w]))
    <3>1. x \in {"recv", "waitRecord", "number", "send", "dropGuards"} \cup Ended
      BY DEF Ended
    <3> QED
      BY <3>1, HeldNothing
  <2> QED
    BY <2>1, <2>2, <2>3, HeldMoves
<1>4. CASE SkipCombined(w) \/ GenerateDependencies(w) \/ FixShapesPlain(w) \/ GenerateTraces(w)
  <2>1. /\ \E x \in {"splitPlain", "shape1", "shape2", "traces", "waitTrace"} :
              /\ pc' = [pc EXCEPT ![w] = x]
              /\ x = "splitPlain" => pc[w] = "split"
              /\ x = "shape1" => pc[w] = "dependencies1"
              /\ x = "shape2" => pc[w] = "dependencies2"
              /\ x = "traces" => pc[w] = "shape2"
              /\ x = "waitTrace" => pc[w] = "traces"
        /\ UNCHANGED <<records, clone, index, chunks, state, deferred, output>>
    BY <1>4 DEF SkipCombined, GenerateDependencies, FixShapesPlain, GenerateTraces, Goto,
                shared, proving
  <2>2. PICK x \in {"splitPlain", "shape1", "shape2", "traces", "waitTrace"} :
              /\ pc' = [pc EXCEPT ![w] = x]
              /\ x = "splitPlain" => pc[w] = "split"
              /\ x = "shape1" => pc[w] = "dependencies1"
              /\ x = "shape2" => pc[w] = "dependencies2"
              /\ x = "traces" => pc[w] = "shape2"
              /\ x = "waitTrace" => pc[w] = "traces"
    BY <2>1
  <2>3. Held(x, records[w], clone[w], Done(index[w]))
    BY <1>2, <2>2 DEF Held
  <2> QED
    BY <2>1, <2>2, <2>3, HeldMoves
<1>5. CASE Receive(w)
  <2>1. /\ index' = [index EXCEPT ![w] = Head(checkpoints)]
        /\ records' = [records EXCEPT ![w] = Batches[Head(checkpoints) + 1]]
        /\ pc' = [pc EXCEPT ![w] = "waitRecord"]
        /\ clone' = clone /\ chunks' = chunks
        /\ state' = state /\ deferred' = deferred /\ output' = output
    BY <1>5 DEF Receive, Goto, shared, proving
  <2>2. \A v \in Workers : v # w => records'[v] = records[v] /\ index'[v] = index[v]
    BY <1>1, <2>1
  <2>3. Held("waitRecord", records'[w], clone'[w], Done(index'[w]))
    BY HeldNothing
  <2> QED
    BY <1>1, <1>2, <2>1, <2>2, <2>3, HeldStep
<1>6. CASE NumberRecords(w)
  <2> DEFINE b == records[w]
             z == NumberCpuRecords(state, b)
  <2>1. /\ pc[w] = "number" /\ state' = z.state
        /\ records' = [records EXCEPT ![w] = z.records]
        /\ pc' = [pc EXCEPT ![w] = "defer"]
        /\ clone' = clone /\ chunks' = chunks /\ index' = index
        /\ deferred' = deferred /\ output' = output
    BY <1>6 DEF NumberRecords, Goto, proving
  <2>2. b \in Seq(Record) /\ (Done(index[w]) => b # <<>>)
    <3>1. b = Batches[index[w] + 1]
      BY <2>1 DEF Fresh
    <3>2. index[w] + 1 \in 1 .. NumBatches /\ NumBatches = Len(Batches)
      BY <1>1, PipelineAssumption DEF NumBatches
    <3>3. b \in Seq(Record)
      BY <3>1, <3>2, BatchesCarry
    <3>4. Done(index[w]) => b = Last(Batches)
      BY <1>1, <3>1, <3>2, PipelineAssumption DEF Done, Last, NumBatches
    <3> QED
      BY <3>3, <3>4, PipelineAssumption
  <2>3. IsPv(state) /\ state.shard \in Nat /\ Waiting(deferred)
    BY <1>2 DEF SharedFine
  <2>4. IsPv(z.state) /\ z.state.shard \in Nat
    BY <2>2, <2>3, NumberedState
  <2>5. NumberedBatch(z.records, Done(index[w]))
    <3>1. PICK s, c, r : s = state /\ c = b /\ r = NumberCpuRecords(s, c).records /\ r = z.records
      OBVIOUS
    <3>2. NumberedBatch(r, Done(index[w]))
      BY <2>2, <2>3, <3>1 DEF NumberedBatch
    <3> QED
      BY <3>1, <3>2
  <2> HIDE DEF z
  <2>6. records'[w] = z.records /\ \A v \in Workers : v # w => records'[v] = records[v]
    BY <1>1, <2>1
  <2>7. Held("defer", records'[w], clone'[w], Done(index'[w]))
    BY <2>1, <2>5, <2>6 DEF Held
  <2>8. SharedFine(state', deferred')
    BY <2>1, <2>3, <2>4 DEF SharedFine
  <2> QED
    BY <1>1, <1>2, <2>1, <2>6, <2>7, <2>8, HeldStep
<1>7. CASE DeferEvents(w)
  <2> DEFINE r == records[w]
             e == [i \in DOMAIN r |-> AfterDefer(r[i])]
  <2>1. /\ pc[w] = "defer" /\ deferred' = DeferAll(deferred, r)
        /\ pc' = [pc EXCEPT ![w] = "split"]
        /\ clone' = clone /\ chunks' = chunks /\ index' = index
        /\ state' = state /\ output' = output
    BY <1>7 DEF DeferEvents, Goto, proving
  <2>2. records' = [records EXCEPT ![w] = e]
    BY <1>7, Zenon DEF DeferEvents
  <2>3. NumberedBatch(r, Done(index[w]))
    BY <1>2, <2>1 DEF Held
  <2>4. EmptiedBatch(e, Done(index[w]))
    BY <2>3, DeferEmpties
  <2> HIDE DEF e
  <2>5. records'[w] = e /\ \A v \in Workers : v # w => records'[v] = records[v]
    BY <1>1, <2>2
  <2>6. Held("split", records'[w], clone'[w], Done(index'[w]))
    BY <2>1, <2>4, <2>5 DEF Held
  <2>7. SharedFine(state', deferred')
    BY <1>2, <2>1, <2>3, DeferWaits DEF SharedFine
  <2> QED
    BY <1>1, <1>2, <2>1, <2>5, <2>6, <2>7, HeldStep
<1>8. CASE SplitCombined(w)
  <2> DEFINE r == records[w]
             l == <<Last(r)>>
             Sp(order) == Split(deferred, TRUE, l, order)
             Z(order) == NumberDeferredRecords(state, Done(index[w]), Sp(order).shards)
             C(order) == Front(r) \o Sp(order).lastRecord \o Z(order).records
  <2>1. /\ pc[w] = "split" /\ Combine(index[w])
        /\ pc' = [pc EXCEPT ![w] = "dependencies1"]
        /\ records' = records /\ chunks' = chunks /\ index' = index /\ output' = output
    BY <1>8 DEF SplitCombined, Goto, proving
  <2>2. PICK order \in IterationOrders :
            /\ deferred' = Sp(order).deferred /\ state' = Z(order).state
            /\ clone' = [clone EXCEPT ![w] = C(order)]
    BY <1>8, Zenon DEF SplitCombined
  <2>3. /\ Done(index[w]) /\ Len(deferred.init) < CombineThreshold
        /\ Len(deferred.finalize) < CombineThreshold
    BY <2>1 DEF Combine
  <2>4. EmptiedBatch(r, Done(index[w]))
    BY <1>2, <2>1 DEF Held
  <2>5. AllFine(Front(r)) /\ Emptied(Last(r))
    BY <2>3, <2>4, EmptiedFine
  <2>6. MayTake(deferred, l)
    <3>1. Len(deferred.init) \in Nat /\ Len(deferred.finalize) \in Nat
      BY <1>2, SeqIsSeq DEF SharedFine, Waiting, IsSeq
    <3>2. Len(deferred.init) <= MemoryChunk /\ Len(deferred.finalize) <= MemoryChunk
      BY <2>3, <3>1, PipelineAssumption, SplitAssumption
    <3>3. PICK y : y = Last(r)
      OBVIOUS
    <3>4. <<y>>[1] = y
      OBVIOUS
    <3> QED
      BY <2>5, <3>2, <3>3, <3>4 DEF MayTake
  <2> HIDE DEF r, l
  <2>7. SplitFine(Sp(order), l)
    BY <1>2, <2>6, SplitIsFine DEF SharedFine
  <2>8. PICK sp : sp = Sp(order)
    OBVIOUS
  <2>9. PICK z : z = NumberDeferredRecords(state, Done(index[w]), sp.shards) /\ z = Z(order)
    BY <2>8
  <2>10. AllFine(sp.shards) /\ AllFine(sp.lastRecord) /\ Waiting(sp.deferred)
    BY <2>7, <2>8 DEF SplitFine
  <2>11. AllFine(z.records) /\ IsPv(z.state) /\ z.state.shard \in Nat
    BY <1>2, <2>9, <2>10, NumberedFine DEF SharedFine
  <2>12. PICK cl : cl = C(order) /\ cl = Front(r) \o sp.lastRecord \o z.records
    BY <2>8, <2>9
  <2>13. AllFine(cl)
    BY <2>5, <2>10, <2>11, <2>12, FineConcat
  <2>14. deferred' = sp.deferred /\ state' = z.state /\ clone' = [clone EXCEPT ![w] = cl]
    BY <2>2, <2>8, <2>9, <2>12
  <2> HIDE DEF Sp, Z, C
  <2>15. clone'[w] = cl /\ \A v \in Workers : v # w => clone'[v] = clone[v]
    BY <1>1, <2>14
  <2>16. Held("dependencies1", records'[w], clone'[w], Done(index'[w]))
    BY <2>1, <2>4, <2>13, <2>15 DEF Held, r
  <2>17. SharedFine(state', deferred')
    BY <2>10, <2>11, <2>14 DEF SharedFine
  <2> QED
    BY <1>1, <1>2, <2>1, <2>15, <2>16, <2>17, HeldStep
<1>9. CASE SplitPlain(w)
  <2> DEFINE r == records[w]
             Sp(order) == Split(deferred, Done(index[w]), <<>>, order)
             Z(order) == NumberDeferredRecords(state, Done(index[w]), Sp(order).shards)
  <2>1. /\ pc[w] = "splitPlain" /\ pc' = [pc EXCEPT ![w] = "dependencies2"]
        /\ clone' = clone /\ chunks' = chunks /\ index' = index /\ output' = output
    BY <1>9 DEF SplitPlain, Goto, proving
  <2>2. PICK order \in IterationOrders :
            /\ deferred' = Sp(order).deferred /\ state' = Z(order).state
            /\ records' = [records EXCEPT ![w] = r \o Z(order).records]
    BY <1>9, Zenon DEF SplitPlain
  <2>3. EmptiedBatch(r, Done(index[w]))
    BY <1>2, <2>1 DEF Held
  <2>4. AllFine(r)
    BY <2>3, EmptiedFine
  <2>5. MayTake(deferred, <<>>) /\ Done(index[w]) \in BOOLEAN
    BY DEF MayTake, Done
  <2>6. SplitFine(Sp(order), <<>>)
    BY <1>2, <2>5, SplitIsFine DEF SharedFine
  <2>7. PICK sp : sp = Sp(order)
    OBVIOUS
  <2>8. PICK z : z = NumberDeferredRecords(state, Done(index[w]), sp.shards) /\ z = Z(order)
    BY <2>7
  <2>9. AllFine(sp.shards) /\ Waiting(sp.deferred)
    BY <2>6, <2>7 DEF SplitFine
  <2>10. AllFine(z.records) /\ IsPv(z.state) /\ z.state.shard \in Nat
    BY <1>2, <2>8, <2>9, NumberedFine DEF SharedFine
  <2>11. AllFine(r \o z.records)
    BY <2>4, <2>10, FineConcat
  <2>12. /\ deferred' = sp.deferred /\ state' = z.state
         /\ records' = [records EXCEPT ![w] = r \o z.records]
    BY <2>2, <2>7, <2>8
  <2> HIDE DEF Sp, Z
  <2>13. records'[w] = r \o z.records /\ \A v \in Workers : v # w => records'[v] = records[v]
    BY <1>1, <2>12
  <2>14. Held("dependencies2", records'[w], clone'[w], Done(index'[w]))
    BY <2>11, <2>13 DEF Held
  <2>15. SharedFine(state', deferred')
    BY <2>9, <2>10, <2>12 DEF SharedFine
  <2> QED
    BY <1>1, <1>2, <2>1, <2>13, <2>14, <2>15, HeldStep
<1>10. CASE FixShapesCombined(w)
  <2>1. /\ pc[w] = "shape1" /\ clone' = [clone EXCEPT ![w] = <<>>]
        /\ chunks' = chunks /\ index' = index /\ output' = output
        /\ state' = state /\ deferred' = deferred
    BY <1>10 DEF FixShapesCombined, shared, proving
  <2>2. \/ pc' = [pc EXCEPT ![w] = "traces"] /\ records' = [records EXCEPT ![w] = clone[w]]
        \/ pc' = [pc EXCEPT ![w] = "splitPlain"] /\ records' = records
    BY <1>10 DEF FixShapesCombined, Goto
  <2>3. EmptiedBatch(records[w], Done(index[w])) /\ AllFine(clone[w])
    BY <1>2, <2>1 DEF Held
  <2>4. \A v \in Workers : v # w => clone'[v] = clone[v] /\ records'[v] = records[v]
    BY <1>1, <2>1, <2>2
  <2>5. CASE pc' = [pc EXCEPT ![w] = "traces"] /\ records' = [records EXCEPT ![w] = clone[w]]
    <3>1. records'[w] = clone[w]
      BY <1>1, <2>5
    <3>2. Held("traces", records'[w], clone'[w], Done(index'[w]))
      BY <2>3, <3>1 DEF Held
    <3> QED
      BY <1>1, <1>2, <2>1, <2>4, <2>5, <3>2, HeldStep
  <2>6. CASE pc' = [pc EXCEPT ![w] = "splitPlain"] /\ records' = records
    <3>1. Held("splitPlain", records'[w], clone'[w], Done(index'[w]))
      BY <2>1, <2>3, <2>6 DEF Held
    <3> QED
      BY <1>1, <1>2, <2>1, <2>4, <2>6, <3>1, HeldStep
  <2> QED
    BY <2>2, <2>5, <2>6
<1>11. CASE WaitForTraceTurn(w)
  <2> DEFINE ch == Chunks(records[w], ShardBatchSize)
  <2>1. /\ pc[w] = "waitTrace" /\ chunks' = [chunks EXCEPT ![w] = ch]
        /\ records' = [records EXCEPT ![w] = <<>>] /\ pc' = [pc EXCEPT ![w] = "send"]
        /\ clone' = clone /\ index' = index /\ output' = output
        /\ state' = state /\ deferred' = deferred
    BY <1>11 DEF WaitForTraceTurn, Goto, shared, proving
  <2>2. AllFine(records[w])
    BY <1>2, <2>1 DEF Held
  <2>3. ListsFine(ch)
    BY <2>2, CutFine, PipelineAssumption
  <2> HIDE DEF ch
  <2>4. /\ chunks'[w] = ch /\ DOMAIN chunks' = Workers
        /\ \A v \in Workers : v # w => chunks'[v] = chunks[v] /\ records'[v] = records[v]
    BY <1>1, <2>1
  <2>5. Held("send", records'[w], clone'[w], Done(index'[w]))
    BY HeldNothing
  <2> QED
    BY <1>2, <2>1, <2>3, <2>4, <2>5, HeldStep
<1>12. CASE SendChunk(w)
  <2> DEFINE m == [batch |-> index[w], records |-> Head(chunks[w])]
  <2>1. /\ pc[w] = "send" /\ chunks[w] # <<>> /\ output' = Append(output, m)
        /\ chunks' = [chunks EXCEPT ![w] = Tail(chunks[w])] /\ pc' = pc
        /\ records' = records /\ clone' = clone /\ index' = index
        /\ state' = state /\ deferred' = deferred
    BY <1>12 DEF SendChunk, shared
  <2>2. PICK ch : ch = chunks[w]
    OBVIOUS
  <2>3. IsSeq(ch) /\ ch # <<>> /\ \A k \in DOMAIN ch : AllFine(ch[k])
    BY <1>2, <2>1, <2>2 DEF ListsFine
  <2>4. AllFine(Head(ch)) /\ ListsFine(Tail(ch))
    <3> DEFINE S == Range(ch)
    <3>1. ch \in Seq(S)
      BY <2>3 DEF IsSeq
    <3> HIDE DEF S
    <3>2. PICK n \in Nat : n = Len(ch) /\ n # 0 /\ DOMAIN ch = 1 .. n
      BY <2>3, <3>1, EmptySeq
    <3>3. Head(ch) = ch[1] /\ Tail(ch) \in Seq(S) /\ DOMAIN Tail(ch) = 1 .. n - 1
          /\ \A k \in 1 .. n - 1 : Tail(ch)[k] = ch[k + 1] /\ k + 1 \in 1 .. n
      BY <2>3, <3>1, <3>2
    <3>4. IsSeq(Tail(ch))
      BY <3>3, SeqIsSeq
    <3> QED
      BY <2>3, <3>2, <3>3, <3>4 DEF ListsFine
  <2>5. m.records = Head(ch)
    BY <2>2
  <2> HIDE DEF m
  <2>6. SentFine(output')
    <3> DEFINE S == Range(output) \cup {m}
    <3>1. output \in Seq(S) /\ \A i \in DOMAIN output : AllFine(output[i].records)
      BY <1>2 DEF SentFine, IsSeq
    <3> HIDE DEF S
    <3>2. PICK n \in Nat : n = Len(output) /\ DOMAIN output = 1 .. n
      BY <3>1
    <3>3. m \in S
      BY DEF S
    <3>4. Append(output, m) \in Seq(S) /\ DOMAIN Append(output, m) = 1 .. n + 1
          /\ Append(output, m)[n + 1] = m
          /\ \A i \in 1 .. n : Append(output, m)[i] = output[i]
      BY <3>1, <3>2, <3>3
    <3>5. ASSUME NEW i \in 1 .. n + 1 PROVE AllFine(Append(output, m)[i].records)
      <4>1. CASE i = n + 1
        BY <2>4, <2>5, <3>4, <4>1
      <4>2. CASE i # n + 1
        <5>1. i \in 1 .. n
          BY <4>2
        <5> QED
          BY <3>1, <3>2, <3>4, <5>1
      <4> QED
        BY <4>1, <4>2
    <3>6. IsSeq(Append(output, m))
      BY <3>4, SeqIsSeq
    <3> QED
      BY <2>1, <3>4, <3>5, <3>6 DEF SentFine
  <2>7. /\ chunks'[w] = Tail(ch) /\ DOMAIN chunks' = Workers
        /\ \A v \in Workers : v # w => chunks'[v] = chunks[v]
    BY <1>1, <2>1, <2>2
  <2>8. pc' = [pc EXCEPT ![w] = "send"]
    BY <1>1, <2>1
  <2>9. Held("send", records'[w], clone'[w], Done(index'[w]))
    BY HeldNothing
  <2> QED
    BY <1>2, <2>1, <2>4, <2>6, <2>7, <2>8, <2>9, HeldStep
<1> QED
  BY <1>3, <1>4, <1>5, <1>6, <1>7, <1>8, <1>9, <1>10, <1>11, <1>12 DEF WorkerStep

\* So does every step.
LEMMA NextWInv ==
  ASSUME IInv, Fresh, WInv, [Next]_vars
  PROVE  WInv'
<1>1. ASSUME NEW w \in Workers, WorkerStep(w) \/ WorkerFails(w)
      PROVE  WInv'
  BY <1>1, WorkerWInv
<1>2. ASSUME UNCHANGED <<pc, index, records, clone, chunks, state, deferred>>, SentFine(output')
      PROVE  WInv'
  BY <1>2 DEF WInv, Held, SharedFine, Waiting, Done, NumBatches
<1>3. CASE ProveChunk
  <2>1. /\ UNCHANGED <<pc, index, records, clone, chunks, state, deferred>>
        /\ output # <<>> /\ output' = Tail(output)
    BY <1>3 DEF ProveChunk, locals, shared
  <2>2. SentFine(output')
    <3> DEFINE S == Range(output)
    <3>1. output \in Seq(S) /\ \A i \in DOMAIN output : AllFine(output[i].records)
      BY DEF WInv, SentFine, IsSeq
    <3> HIDE DEF S
    <3>2. PICK n \in Nat : n = Len(output) /\ n # 0 /\ DOMAIN output = 1 .. n
      BY <2>1, <3>1, EmptySeq
    <3>3. Tail(output) \in Seq(S) /\ DOMAIN Tail(output) = 1 .. n - 1
          /\ \A k \in 1 .. n - 1 : Tail(output)[k] = output[k + 1] /\ k + 1 \in 1 .. n
      BY <2>1, <3>1, <3>2
    <3>4. IsSeq(Tail(output))
      BY <3>3, SeqIsSeq
    <3> QED
      BY <2>1, <3>1, <3>2, <3>3, <3>4 DEF SentFine
  <2> QED
    BY <1>2, <2>1, <2>2
<1>4. CASE \/ GenerateCheckpoint \/ GeneratorFails \/ ProverEnds \/ ProverPanics
           \/ Return \/ Returned \/ UNCHANGED vars
  <2>1. UNCHANGED <<pc, index, records, clone, chunks, state, deferred, output>>
    BY <1>4 DEF GenerateCheckpoint, GeneratorFails, ProverEnds, ProverPanics, Return,
                Returned, vars, locals, shared, proving
  <2> QED
    BY <1>2, <2>1 DEF WInv
<1> QED
  BY <1>1, <1>3, <1>4 DEF Next, ProverStep

\* And it holds at the start.
LEMMA InitWInv == Init => WInv
<1> SUFFICES ASSUME Init PROVE WInv
  OBVIOUS
<1>1. SharedFine(state, deferred)
  <2>1. state = PublicValuesDefault /\ deferred = NewRecord
    BY DEF Init
  <2>2. IsPv(PublicValuesDefault) /\ PublicValuesDefault.shard = 0
        /\ IsRecord(NewRecord) /\ NewRecord.init = <<>> /\ NewRecord.finalize = <<>>
    BY DefaultIs
  <2>3. IsSeq(<<>>)
    BY EventsNone DEF Silent
  <2>4. \A c \in Codes : NewRecord.precompile[c] \in Seq(Event)
    <3>1. \A c \in Codes : NewRecord.precompile[c] = <<>>
      BY DEF NewRecord, NoEvents
    <3>2. <<>> \in Seq(Event)
      OBVIOUS
    <3> QED
      BY <3>1, <3>2
  <2> QED
    BY <2>1, <2>2, <2>3, <2>4 DEF SharedFine, Waiting
<1>2. IsSeq(<<>>) /\ DOMAIN <<>> = {}
  BY EventsNone DEF Silent
<1>3. SentFine(output)
  BY <1>2 DEF SentFine, Init
<1>4. DOMAIN chunks = Workers /\ \A w \in Workers : pc[w] = "recv" /\ chunks[w] = <<>>
  BY DEF Init
<1>5. ListsFine(<<>>)
  BY <1>2 DEF ListsFine
<1>6. \A w \in Workers : Held("recv", records[w], clone[w], Done(index[w]))
  BY HeldNothing
<1> QED
  BY <1>1, <1>3, <1>4, <1>5, <1>6 DEF WInv

\* What is sent is well formed.
LEMMA SentWellFormed == WInv => ShardsAreWellFormed
<1> SUFFICES ASSUME WInv PROVE ShardsAreWellFormed
  OBVIOUS
<1>1. IsSeq(output) /\ \A i \in DOMAIN output : AllFine(output[i].records)
  BY DEF WInv, SentFine
<1>2. Len(output) \in Nat /\ DOMAIN output = 1 .. Len(output)
  BY <1>1, SeqIsSeq DEF IsSeq
<1> DEFINE S == {r \in UNION {Range(output[i].records) : i \in DOMAIN output} : Fine(r)}
           f == [i \in DOMAIN output |-> output[i].records]
<1>3. ASSUME NEW i \in DOMAIN output PROVE output[i].records \in Seq(S)
  <2>1. PICK t : t = output[i].records
    OBVIOUS
  <2>2. IsSeq(t) /\ \A j \in DOMAIN t : Fine(t[j])
    BY <1>1, <2>1 DEF AllFine
  <2>3. t \in Seq(Range(t)) /\ DOMAIN t = 1 .. Len(t) /\ \A j \in 1 .. Len(t) : t[j] \in Range(t)
    BY <2>2, SeqIsSeq DEF IsSeq
  <2>4. Range(t) \subseteq UNION {Range(output[k].records) : k \in DOMAIN output}
    BY <2>1
  <2>5. \A j \in 1 .. Len(t) : t[j] \in S
    BY <2>2, <2>3, <2>4
  <2> HIDE DEF S
  <2> QED
    BY <2>1, <2>3, <2>5
<1>4. \A r \in S : Fine(r)
  OBVIOUS
<1> HIDE DEF S
<1>5. f \in [1 .. Len(output) -> Seq(S)]
  BY <1>2, <1>3
<1>6. RecordsOf(output) = FlattenSeq(f)
  BY DEF RecordsOf
<1> HIDE DEF f
<1>7. RecordsOf(output) \in Seq(S)
  BY <1>2, <1>5, <1>6, FlattenFunction
<1>8. PICK recs \in Seq(S) : recs = RecordsOf(output)
  BY <1>7
<1>9. \A i \in DOMAIN recs : Fine(recs[i])
  BY <1>4
<1> QED
  BY <1>8, <1>9, Zenon DEF ShardsAreWellFormed, Fine

\* Every shard that the pipeline sends to the prover respects the limits its chips rely on:
\* events of one kind only, no more of them than the split options allow, and address bits
\* that are those of its last memory event.  This holds of whatever is executed, for any
\* number of workers, any interleaving and any failures, and also when a combined attempt
\* falls back to the plain split, whose memory events are already sorted then.
THEOREM ShardsAreWellFormedHolds == Spec => []ShardsAreWellFormed
<1>1. Init => Fresh /\ WInv
  BY InitLInv, InitWInv DEF LInv
<1>2. IInv /\ Fresh /\ WInv /\ [Next]_vars => Fresh' /\ WInv'
  BY FreshNext, NextWInv
<1>3. WInv => ShardsAreWellFormed
  BY SentWellFormed
<1> QED
  BY Invariance, <1>1, <1>2, <1>3, PTL DEF Spec
=============================================================================
