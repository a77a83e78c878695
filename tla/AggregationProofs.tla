------------------------- MODULE AggregationProofs -------------------------
(***************************************************************************)
(* Aggregation, for every number of shards, batch size, list of deferred   *)
(* proofs, number of deviations and order in which neighbours are          *)
(* compressed.                                                             *)
(*                                                                         *)
(* The inductive invariant is TreeInvariant: the proofs that are still to  *)
(* be compressed divide the shards and the deferred proofs among them, in  *)
(* order (Divides), and the public values of each are those of its range   *)
(* (Covers).  What a recursion program adds up is stated without the shape *)
(* of the tree: a sum over a range is a difference of two totals, a        *)
(* deferred digest is that of a prefix, an execution shard is a count of   *)
(* CPU shards.  So a compress step has only to join two ranges at their    *)
(* common end (Merge).                                                     *)
(*                                                                         *)
(* Soundness follows at the root, whose range is everything                *)
(* (CompleteProof).  Completeness needs a second invariant: while the core *)
(* proof is one that verify accepts (Good), no program has refused         *)
(* (AcceptedInvariant, with GoodLayer, GoodCompress and GoodRoot).  Two    *)
(* proofs that are not neighbours do not fit since the ranges move         *)
(* forward (Forward), and the values of a proof are those of one batch     *)
(* since its range determines them (CoversDetermines).  The last two need  *)
(* that the hash chain over the deferred proofs repeats no digest          *)
(* (DigestsDiffer in AggregationAssumption).                               *)
(***************************************************************************)
EXTENDS Aggregation, SequenceLemmas, FiniteSetTheorems

-----------------------------------------------------------------------------
(* Numbers, sums and hash chains. *)

\* A set of numbers that is bounded and not empty has a least and a greatest element.
LEMMA MinMax ==
  ASSUME NEW n \in Nat, NEW S \in SUBSET (1 .. n), S # {}
  PROVE  /\ Min(S) \in S /\ \A x \in S : Min(S) <= x
         /\ Max(S) \in S /\ \A x \in S : x <= Max(S)
<1>1. \E x \in S : \A y \in S : x <= y
  <2>1. S \in SUBSET Nat
    OBVIOUS
  <2> QED
    BY <2>1, LeastNumber
<1>2. \E x \in S : \A y \in S : x >= y
  <2> DEFINE T == {n - x : x \in S}
  <2>1. T \in SUBSET Nat /\ T # {}
    <3>1. \A x \in S : n - x \in Nat
      OBVIOUS
    <3> QED
      BY <3>1
  <2>2. PICK t \in T : \A y \in T : t <= y
    BY <2>1, LeastNumber
  <2>3. PICK x \in S : t = n - x
    OBVIOUS
  <2>4. ASSUME NEW y \in S PROVE x >= y
    <3>1. n - y \in T
      OBVIOUS
    <3>2. n - x <= n - y
      BY <2>2, <2>3, <3>1
    <3> QED
      BY <3>2
  <2> QED
    BY <2>4
<1>3. Min(S) \in S /\ \A x \in S : Min(S) <= x
  BY <1>1 DEF Min
<1>4. Max(S) \in S /\ \A x \in S : Max(S) >= x
  BY <1>2 DEF Max
<1> QED
  BY <1>3, <1>4

\* f runs through the sums of the beginnings of s, from any start.
SumsTo(f, s, m) == f[0] = 0 /\ \A i \in 1 .. m : f[i] = f[i - 1] + s[i]
SumSteps(f, s) == \A i \in 1 .. Len(s) : f[i] = f[i - 1] + s[i]

\* A list of numbers has its sums.
LEMMA SumLoop ==
  ASSUME NEW s \in Seq(Int)
  PROVE  \E f \in [0 .. Len(s) -> Int] : f[0] = 0 /\ SumSteps(f, s) /\ SumOf(s) = f[Len(s)]
<1> DEFINE G == {m \in Nat : m <= Len(s) => \E f \in [0 .. m -> Int] : SumsTo(f, s, m)}
<1>1. Len(s) \in Nat /\ \A i \in 1 .. Len(s) : s[i] \in Int
  OBVIOUS
<1>2. 0 \in G
  <2> DEFINE f == [i \in 0 .. 0 |-> 0]
  <2>1. f \in [0 .. 0 -> Int] /\ f[0] = 0 /\ \A i \in 1 .. 0 : FALSE
    OBVIOUS
  <2> QED
    BY <2>1 DEF SumsTo
<1>3. ASSUME NEW m \in Nat, m \in G PROVE m + 1 \in G
  <2>1. SUFFICES ASSUME m + 1 <= Len(s) PROVE \E g \in [0 .. m + 1 -> Int] : SumsTo(g, s, m + 1)
    OBVIOUS
  <2>2. PICK f \in [0 .. m -> Int] : SumsTo(f, s, m)
    BY <1>1, <1>3, <2>1
  <2> DEFINE x == f[m] + s[m + 1]
             g == [i \in 0 .. m + 1 |-> IF i <= m THEN f[i] ELSE x]
  <2>3. x \in Int
    BY <1>1, <2>1
  <2> HIDE DEF x
  <2>4. g \in [0 .. m + 1 -> Int] /\ g[0] = f[0]
    BY <2>3
  <2>5. ASSUME NEW i \in 1 .. m + 1 PROVE g[i] = g[i - 1] + s[i]
    <3>1. CASE i <= m
      <4>1. i \in 1 .. m /\ g[i] = f[i] /\ g[i - 1] = f[i - 1]
        BY <3>1
      <4> HIDE DEF g
      <4> QED
        BY <2>2, <4>1 DEF SumsTo
    <3>2. CASE ~ (i <= m)
      <4>1. i = m + 1 /\ i - 1 = m /\ m + 1 \in 0 .. m + 1 /\ m \in 0 .. m + 1
            /\ ~ (m + 1 <= m) /\ m <= m
        BY <3>2
      <4>2. g[m + 1] = x /\ g[m] = f[m]
        BY <4>1
      <4> HIDE DEF g
      <4> QED
        BY <4>1, <4>2 DEF x
    <3> QED
      BY <3>1, <3>2
  <2> HIDE DEF g
  <2> QED
    BY <2>2, <2>4, <2>5 DEF SumsTo
<1> HIDE DEF G
<1>4. Len(s) \in G
  <2>1. \A m \in Nat : m \in G
    BY <1>2, <1>3, Induction
  <2> QED
    BY <1>1, <2>1
<1>5. PICK f \in [0 .. Len(s) -> Int] : SumsTo(f, s, Len(s))
  BY <1>1, <1>4 DEF G
<1> DEFINE Eq(g) == g = [i \in 0 .. Len(s) |-> IF i = 0 THEN 0 ELSE g[i - 1] + s[i]]
           h == CHOOSE g : Eq(g)
<1>6. Eq(f)
  <2>1. ASSUME NEW i \in 0 .. Len(s) PROVE f[i] = IF i = 0 THEN 0 ELSE f[i - 1] + s[i]
    <3>1. i # 0 => i \in 1 .. Len(s)
      BY <1>1
    <3> QED
      BY <1>5, <3>1 DEF SumsTo
  <2> QED
    BY <1>5, <2>1
<1>7. Eq(h)
  BY <1>6
<1>8. SumOf(s) = h[Len(s)]
  BY DEF SumOf
<1> HIDE DEF h
<1>9. ASSUME NEW m \in 0 .. Len(s)
      PROVE  h[m] = IF m = 0 THEN 0 ELSE h[m - 1] + s[m]
  BY <1>7
<1> DEFINE H == {m \in Nat : m <= Len(s) => h[m] = f[m]}
<1>10. 0 \in H
  BY <1>1, <1>5, <1>9 DEF SumsTo
<1>11. ASSUME NEW m \in Nat, m \in H PROVE m + 1 \in H
  <2>1. SUFFICES ASSUME m + 1 <= Len(s) PROVE h[m + 1] = f[m + 1]
    OBVIOUS
  <2>2. m + 1 \in 1 .. Len(s) /\ m + 1 \in 0 .. Len(s) /\ (m + 1) - 1 = m /\ h[m] = f[m]
        /\ m + 1 # 0
    BY <1>1, <1>11, <2>1
  <2>3. h[m + 1] = h[m] + s[m + 1] /\ f[m + 1] = f[m] + s[m + 1]
    BY <1>5, <1>9, <2>2 DEF SumsTo
  <2> QED
    BY <2>2, <2>3
<1> HIDE DEF H
<1>12. \A m \in Nat : m \in H
  BY <1>10, <1>11, Induction
<1>13. h[Len(s)] = f[Len(s)]
  BY <1>1, <1>12 DEF H
<1> QED
  BY <1>5, <1>8, <1>13 DEF SumSteps, SumsTo

\* Running sums from any start end in the sum of the list.
LEMMA SumUnique ==
  ASSUME NEW s \in Seq(Int), NEW g \in [0 .. Len(s) -> Int], SumSteps(g, s)
  PROVE  SumOf(s) = g[Len(s)] - g[0] /\ SumOf(s) \in Int
<1>1. Len(s) \in Nat /\ \A i \in 1 .. Len(s) : s[i] \in Int
  OBVIOUS
<1>2. PICK f \in [0 .. Len(s) -> Int] : f[0] = 0 /\ SumSteps(f, s) /\ SumOf(s) = f[Len(s)]
  BY SumLoop
<1> DEFINE G == {m \in Nat : m <= Len(s) => f[m] = g[m] - g[0]}
<1>3. 0 \in G
  <2>1. 0 \in 0 .. Len(s)
    BY <1>1
  <2>2. g[0] \in Int
    BY <2>1
  <2> QED
    BY <1>2, <2>2
<1>4. ASSUME NEW m \in Nat, m \in G PROVE m + 1 \in G
  <2>1. SUFFICES ASSUME m + 1 <= Len(s) PROVE f[m + 1] = g[m + 1] - g[0]
    OBVIOUS
  <2>2. m + 1 \in 1 .. Len(s) /\ (m + 1) - 1 = m /\ f[m] = g[m] - g[0]
        /\ m \in 0 .. Len(s) /\ 0 \in 0 .. Len(s)
    BY <1>1, <1>4, <2>1
  <2>3. f[m + 1] = f[m] + s[m + 1] /\ g[m + 1] = g[m] + s[m + 1]
    BY <1>2, <2>2 DEF SumSteps
  <2>4. g[m] \in Int /\ g[0] \in Int /\ s[m + 1] \in Int
    BY <1>1, <2>2
  <2> QED
    BY <2>2, <2>3, <2>4
<1> HIDE DEF G
<1>5. \A m \in Nat : m \in G
  BY <1>3, <1>4, Induction
<1>6. f[Len(s)] = g[Len(s)] - g[0]
  BY <1>1, <1>5 DEF G
<1>7. f[Len(s)] \in Int
  BY <1>1
<1> QED
  BY <1>2, <1>6, <1>7

\* f runs through the digests of the beginnings of s.
HashStep(d, p) == Hash(d, p.pv.zkm_vk_digest, p.pv.committed_value_digest)
HashesTo(f, d, s, m) == f[0] = d /\ \A i \in 1 .. m : f[i] = HashStep(f[i - 1], s[i])

\* A list of deferred proofs has its digests.
LEMMA HashLoop ==
  ASSUME NEW d, NEW s, Len(s) \in Nat
  PROVE  \E f : HashesTo(f, d, s, Len(s)) /\ HashDeferredProofs(d, s) = f[Len(s)]
<1> DEFINE G == {m \in Nat : m <= Len(s) =>
                    \E f : DOMAIN f = 0 .. m /\ f = [i \in 0 .. m |-> f[i]] /\ HashesTo(f, d, s, m)}
<1>1. 0 \in G
  <2> DEFINE f == [i \in 0 .. 0 |-> d]
  <2>1. DOMAIN f = 0 .. 0 /\ f = [i \in 0 .. 0 |-> f[i]] /\ f[0] = d /\ \A i \in 1 .. 0 : FALSE
    OBVIOUS
  <2> HIDE DEF f
  <2> QED
    BY <2>1 DEF HashesTo
<1>2. ASSUME NEW m \in Nat, m \in G PROVE m + 1 \in G
  <2>1. SUFFICES ASSUME m + 1 <= Len(s)
                 PROVE  \E g : DOMAIN g = 0 .. m + 1 /\ g = [i \in 0 .. m + 1 |-> g[i]]
                              /\ HashesTo(g, d, s, m + 1)
    OBVIOUS
  <2>2. PICK f : DOMAIN f = 0 .. m /\ f = [i \in 0 .. m |-> f[i]] /\ HashesTo(f, d, s, m)
    BY <1>2, <2>1
  <2> DEFINE x == HashStep(f[m], s[m + 1])
             g == [i \in 0 .. m + 1 |-> IF i <= m THEN f[i] ELSE x]
  <2> HIDE DEF x
  <2>3. DOMAIN g = 0 .. m + 1 /\ g = [i \in 0 .. m + 1 |-> g[i]] /\ g[0] = f[0]
    OBVIOUS
  <2>4. ASSUME NEW i \in 1 .. m + 1 PROVE g[i] = HashStep(g[i - 1], s[i])
    <3>1. CASE i <= m
      <4>1. i \in 1 .. m /\ g[i] = f[i] /\ g[i - 1] = f[i - 1]
        BY <3>1
      <4> HIDE DEF g
      <4> QED
        BY <2>2, <4>1 DEF HashesTo
    <3>2. CASE ~ (i <= m)
      <4>1. i = m + 1 /\ i - 1 = m /\ m + 1 \in 0 .. m + 1 /\ m \in 0 .. m + 1
            /\ ~ (m + 1 <= m) /\ m <= m
        BY <3>2
      <4>2. g[m + 1] = x /\ g[m] = f[m]
        BY <4>1
      <4> HIDE DEF g
      <4> QED
        BY <4>1, <4>2 DEF x
    <3> QED
      BY <3>1, <3>2
  <2> HIDE DEF g
  <2> QED
    BY <2>2, <2>3, <2>4 DEF HashesTo
<1> HIDE DEF G
<1>3. Len(s) \in G
  <2>1. \A m \in Nat : m \in G
    BY <1>1, <1>2, Induction
  <2> QED
    BY <2>1
<1>4. PICK f : f = [i \in 0 .. Len(s) |-> f[i]] /\ HashesTo(f, d, s, Len(s))
  BY <1>3 DEF G
<1> DEFINE Step(g, i) == Hash(g[i - 1], s[i].pv.zkm_vk_digest, s[i].pv.committed_value_digest)
           Eq(g) == g = [i \in 0 .. Len(s) |-> IF i = 0 THEN d ELSE Step(g, i)]
           h == CHOOSE g : Eq(g)
<1>5. Eq(f)
  <2>1. ASSUME NEW i \in 0 .. Len(s) PROVE f[i] = IF i = 0 THEN d ELSE Step(f, i)
    <3>1. i # 0 => i \in 1 .. Len(s)
      OBVIOUS
    <3> QED
      BY <1>4, <3>1 DEF HashesTo, HashStep
  <2> HIDE DEF Step
  <2> QED
    BY <1>4, <2>1
<1>6. Eq(h)
  BY <1>5
<1>7. HashDeferredProofs(d, s) = h[Len(s)]
  BY DEF HashDeferredProofs
<1> HIDE DEF h
<1>8. ASSUME NEW m \in 0 .. Len(s) PROVE h[m] = IF m = 0 THEN d ELSE Step(h, m)
  <2> HIDE DEF Step
  <2> QED
    BY <1>6
<1> QED
  <2>1. HashesTo(h, d, s, Len(s))
    <3>1. h[0] = d
      BY <1>8
    <3>2. ASSUME NEW i \in 1 .. Len(s) PROVE h[i] = HashStep(h[i - 1], s[i])
      <4>1. i \in 0 .. Len(s) /\ i # 0
        OBVIOUS
      <4> QED
        BY <1>8, <4>1 DEF HashStep
    <3> QED
      BY <3>1, <3>2 DEF HashesTo
  <2> QED
    BY <2>1, <1>7

\* Running digests end in the digest of the list.
LEMMA HashUnique ==
  ASSUME NEW d, NEW s, Len(s) \in Nat, NEW g, HashesTo(g, d, s, Len(s))
  PROVE  HashDeferredProofs(d, s) = g[Len(s)]
<1>1. PICK f : HashesTo(f, d, s, Len(s)) /\ HashDeferredProofs(d, s) = f[Len(s)]
  BY HashLoop
<1> DEFINE G == {m \in Nat : m <= Len(s) => f[m] = g[m]}
<1>2. 0 \in G
  BY <1>1 DEF HashesTo
<1>3. ASSUME NEW m \in Nat, m \in G PROVE m + 1 \in G
  <2>1. SUFFICES ASSUME m + 1 <= Len(s) PROVE f[m + 1] = g[m + 1]
    OBVIOUS
  <2>2. m + 1 \in 1 .. Len(s) /\ (m + 1) - 1 = m /\ f[m] = g[m]
    BY <1>3, <2>1
  <2>3. f[m + 1] = HashStep(f[m], s[m + 1]) /\ g[m + 1] = HashStep(g[m], s[m + 1])
    BY <1>1, <2>2 DEF HashesTo
  <2> QED
    BY <2>2, <2>3
<1> HIDE DEF G
<1>4. \A m \in Nat : m \in G
  BY <1>2, <1>3, Induction
<1> QED
  BY <1>1, <1>4 DEF G

-----------------------------------------------------------------------------
(* Pieces of a core proof. *)

\* What the proofs below need of the shard proofs' numbers.
Shards(s) ==
    /\ IsSeq(s)
    /\ \A i \in 1 .. Len(s) : s[i].sum \in Int /\ s[i].pv.execution_shard \in Int

\* The sum of the first i shards, and the digest of the first i deferred proofs.
TotalTo(s, i) == SumOf([j \in 1 .. i |-> s[j].sum])
DigestTo(s, i) == HashDeferredProofs(0, SubSeq(s, 1, i))

\* A piece of a sequence.
LEMMA Piece ==
  ASSUME NEW s, IsSeq(s), NEW a \in 0 .. Len(s), NEW b \in a .. Len(s)
  PROVE  /\ Len(s) \in Nat /\ a \in Nat /\ b \in Nat /\ b - a \in Nat
         /\ Len(SubSeq(s, a + 1, b)) = b - a
         /\ DOMAIN SubSeq(s, a + 1, b) = 1 .. (b - a)
         /\ \A i \in 1 .. (b - a) : SubSeq(s, a + 1, b)[i] = s[a + i]
         /\ IsSeq(SubSeq(s, a + 1, b))
<1>1. PICK S : S = Range(s)
  OBVIOUS
<1>2. s \in Seq(S)
  BY <1>1 DEF IsSeq
<1>3. Len(s) \in Nat
  BY <1>2
<1>4. a \in Nat /\ b \in Nat /\ b - a \in Nat /\ a + 1 \in 1 .. Len(s) + 1
      /\ b \in a + 1 - 1 .. Len(s)
  BY <1>3
<1> DEFINE t == SubSeq(s, a + 1, b)
<1>5. t \in Seq(S) /\ Len(t) = b - a /\ \A i \in 1 .. (b - a) : t[i] = s[a + i]
  <2>1. t = [i \in 1 .. (b - a) |-> s[i + a]]
    BY <1>2, <1>4
  <2>2. \A i \in 1 .. (b - a) : i + a \in 1 .. Len(s) /\ i + a = a + i
    BY <1>3, <1>4
  <2>3. \A i \in 1 .. (b - a) : s[i + a] \in S
    BY <1>2, <2>2
  <2> HIDE DEF t
  <2>4. t \in [1 .. (b - a) -> S]
    BY <2>1, <2>3
  <2>5. t \in Seq(S) /\ Len(t) = b - a
    BY <1>4, <2>4, FunctionIsSeq
  <2> QED
    BY <2>1, <2>2, <2>5
<1>6. IsSeq(t) /\ DOMAIN t = 1 .. Len(t)
  BY <1>5, SeqIsSeq
<1> HIDE DEF t
<1> QED
  BY <1>3, <1>4, <1>5, <1>6 DEF t

\* The sum over a piece of a core proof is a difference of totals.
LEMMA PieceSum ==
  ASSUME NEW s, Shards(s), NEW a \in 0 .. Len(s), NEW b \in a .. Len(s)
  PROVE  /\ TotalTo(s, a) \in Int /\ TotalTo(s, b) \in Int /\ TotalTo(s, 0) = 0
         /\ SumOf([i \in DOMAIN SubSeq(s, a + 1, b) |-> SubSeq(s, a + 1, b)[i].sum])
              = TotalTo(s, b) - TotalTo(s, a)
         /\ SumOf([i \in DOMAIN s |-> s[i].sum]) = TotalTo(s, Len(s))
<1> DEFINE n == Len(s)
           w == [i \in 1 .. n |-> s[i].sum]
<1>1. n \in Nat /\ DOMAIN s = 1 .. n /\ IsSeq(s) /\ \A i \in 1 .. n : s[i].sum \in Int
  <2>1. IsSeq(s)
    BY DEF Shards
  <2> QED
    BY <2>1, SeqIsSeq DEF IsSeq, Shards
<1>2. w \in Seq(Int) /\ Len(w) = n
  <2>1. w \in [1 .. n -> Int]
    BY <1>1
  <2> HIDE DEF w, n
  <2> QED
    BY <1>1, <2>1, FunctionIsSeq
<1>3. PICK f \in [0 .. n -> Int] : f[0] = 0 /\ SumSteps(f, w)
  <2> HIDE DEF w, n
  <2> QED
    BY <1>2, SumLoop
<1>4. ASSUME NEW c \in 0 .. n, NEW d \in c .. n
      PROVE  SumOf([j \in 1 .. (d - c) |-> s[c + j].sum]) = f[d] - f[c]
  <2> DEFINE k == d - c
             u == [j \in 1 .. k |-> s[c + j].sum]
             g == [j \in 0 .. k |-> f[c + j]]
  <2>1. k \in Nat /\ c \in Nat /\ d \in Nat /\ c + k = d /\ c + 0 = c
        /\ \A j \in 1 .. k : c + j \in 1 .. n
    BY <1>1
  <2> HIDE DEF n
  <2>2. u \in Seq(Int) /\ Len(u) = k
    <3>1. u \in [1 .. k -> Int]
      BY <1>1, <2>1
    <3> HIDE DEF u, k
    <3> QED
      BY <2>1, <3>1, FunctionIsSeq
  <2>3. \A j \in 0 .. k : c + j \in 0 .. n
    BY <2>1, <1>1
  <2>4. g \in [0 .. Len(u) -> Int]
    <3>1. \A j \in 0 .. k : f[c + j] \in Int
      BY <2>3, <1>3
    <3> HIDE DEF u, k
    <3> QED
      BY <3>1, <2>2
  <2>5. SumSteps(g, u)
    <3> SUFFICES ASSUME NEW j \in 1 .. k PROVE g[j] = g[j - 1] + u[j]
      <4> HIDE DEF g, u, k
      <4> QED
        BY <2>2 DEF SumSteps
    <3>1. j \in 0 .. k /\ j - 1 \in 0 .. k /\ c + j \in 1 .. n /\ c + (j - 1) = (c + j) - 1
      BY <2>1
    <3> HIDE DEF k
    <3>2. g[j] = f[c + j] /\ g[j - 1] = f[(c + j) - 1] /\ u[j] = s[c + j].sum
      BY <3>1
    <3>3. w[c + j] = s[c + j].sum
      BY <3>1
    <3>4. f[c + j] = f[(c + j) - 1] + w[c + j]
      <4> HIDE DEF w
      <4> QED
        BY <1>2, <1>3, <3>1 DEF SumSteps
    <3> QED
      BY <3>2, <3>3, <3>4
  <2>6. g[k] = f[d] /\ g[0] = f[c]
    <3>1. k \in 0 .. k /\ 0 \in 0 .. k
      BY <2>1
    <3> HIDE DEF k
    <3> QED
      BY <2>1, <3>1
  <2>7. SumOf(u) = g[Len(u)] - g[0]
    <3> HIDE DEF u, g
    <3> QED
      BY <2>2, <2>4, <2>5, SumUnique
  <2> HIDE DEF g
  <2> QED
    BY <2>2, <2>6, <2>7
<1>5. ASSUME NEW d \in 0 .. n PROVE TotalTo(s, d) = f[d] /\ f[d] \in Int
  <2>1. 0 \in 0 .. n /\ d \in 0 .. n /\ d - 0 = d /\ f[d] \in Int /\ f[d] - 0 = f[d]
        /\ \A j \in 1 .. d : 0 + j = j
    BY <1>1, <1>3
  <2> HIDE DEF n
  <2>2. SumOf([j \in 1 .. d |-> s[0 + j].sum]) = f[d] - f[0]
    BY <1>4, <2>1
  <2>3. [j \in 1 .. d |-> s[0 + j].sum] = [j \in 1 .. d |-> s[j].sum]
    BY <2>1
  <2> QED
    BY <1>3, <2>1, <2>2, <2>3 DEF TotalTo
<1>6. SumOf([i \in DOMAIN SubSeq(s, a + 1, b) |-> SubSeq(s, a + 1, b)[i].sum]) = f[b] - f[a]
  <2>1. /\ DOMAIN SubSeq(s, a + 1, b) = 1 .. (b - a)
        /\ \A i \in 1 .. (b - a) : SubSeq(s, a + 1, b)[i] = s[a + i]
    BY <1>1, Piece
  <2>2. [i \in DOMAIN SubSeq(s, a + 1, b) |-> SubSeq(s, a + 1, b)[i].sum]
          = [j \in 1 .. (b - a) |-> s[a + j].sum]
    BY <2>1
  <2> QED
    BY <1>4, <2>2
<1>7. SumOf([i \in DOMAIN s |-> s[i].sum]) = TotalTo(s, n)
  BY <1>1 DEF TotalTo
<1>8. a \in 0 .. n /\ b \in 0 .. n /\ 0 \in 0 .. n
  BY <1>1
<1> HIDE DEF n, w
<1> QED
  BY <1>3, <1>5, <1>6, <1>7, <1>8 DEF n

\* A batch of deferred proofs takes the digest from its first to its last proof.
LEMMA PieceDigest ==
  ASSUME NEW s, IsSeq(s), NEW a \in 0 .. Len(s), NEW b \in a .. Len(s)
  PROVE  /\ DigestTo(s, 0) = 0
         /\ HashDeferredProofs(DigestTo(s, a), SubSeq(s, a + 1, b)) = DigestTo(s, b)
         /\ DigestTo(s, Len(s)) = HashDeferredProofs(0, s)
<1>1. Len(s) \in Nat
  BY Piece
<1>2. PICK f : HashesTo(f, 0, s, Len(s)) /\ HashDeferredProofs(0, s) = f[Len(s)]
  BY <1>1, HashLoop
<1>3. ASSUME NEW c \in 0 .. Len(s), NEW d \in c .. Len(s)
      PROVE  HashDeferredProofs(f[c], SubSeq(s, c + 1, d)) = f[d]
  <2> DEFINE k == d - c
             u == SubSeq(s, c + 1, d)
             g == [j \in 0 .. k |-> f[c + j]]
  <2>1. Len(u) = k /\ k \in Nat /\ c \in Nat /\ d \in Nat /\ \A j \in 1 .. k : u[j] = s[c + j]
    BY Piece
  <2>2. c + k = d /\ c + 0 = c /\ 0 \in 0 .. k /\ k \in 0 .. k
        /\ \A j \in 1 .. k : j \in 0 .. k /\ j - 1 \in 0 .. k
                             /\ c + j \in 1 .. Len(s) /\ c + (j - 1) = (c + j) - 1
    BY <1>1, <2>1
  <2> HIDE DEF k, u
  <2>3. ASSUME NEW j \in 1 .. k PROVE g[j] = HashStep(g[j - 1], u[j])
    <3>1. g[j] = f[c + j] /\ g[j - 1] = f[(c + j) - 1] /\ u[j] = s[c + j]
      BY <2>1, <2>2
    <3>2. f[c + j] = HashStep(f[(c + j) - 1], s[c + j])
      BY <1>2, <2>2 DEF HashesTo
    <3> QED
      BY <3>1, <3>2
  <2>4. g[0] = f[c] /\ g[k] = f[d]
    BY <2>2
  <2> HIDE DEF g
  <2>5. HashesTo(g, f[c], u, Len(u))
    BY <2>1, <2>3, <2>4 DEF HashesTo
  <2>6. HashDeferredProofs(f[c], u) = g[Len(u)]
    BY <2>1, <2>5, HashUnique
  <2> QED
    BY <2>1, <2>4, <2>6 DEF u
<1>4. ASSUME NEW d \in 0 .. Len(s) PROVE DigestTo(s, d) = f[d]
  <2>1. 0 \in 0 .. Len(s) /\ d \in 0 .. Len(s) /\ 0 + 1 = 1 /\ f[0] = 0
    BY <1>1, <1>2 DEF HashesTo
  <2> QED
    BY <1>3, <2>1 DEF DigestTo
<1>5. 0 \in 0 .. Len(s) /\ b \in 0 .. Len(s) /\ Len(s) \in 0 .. Len(s) /\ f[0] = 0
  BY <1>1, <1>2 DEF HashesTo
<1> QED
  BY <1>2, <1>3, <1>4, <1>5

\* The CPU shards among the first ones, counted one by one.
LEMMA CpuStep ==
  ASSUME NEW s, NEW i \in Nat
  PROVE  /\ CpuUpTo(s, i) \in Nat /\ CpuUpTo(s, 0) = 0
         /\ CpuUpTo(s, i + 1) = CpuUpTo(s, i) + (IF s[i + 1].cpu THEN 1 ELSE 0)
<1> DEFINE S(k) == {j \in 1 .. k : s[j].cpu}
<1>1. IsFiniteSet(S(i)) /\ Cardinality(S(i)) \in Nat
  <2>1. IsFiniteSet(1 .. i)
    BY FS_Interval
  <2>2. S(i) \subseteq 1 .. i
    OBVIOUS
  <2> HIDE DEF S
  <2>3. IsFiniteSet(S(i))
    BY <2>1, <2>2, FS_Subset
  <2> QED
    BY <2>3, FS_CardinalityType
<1>2. S(0) = {}
  OBVIOUS
<1>3. S(i + 1) = IF s[i + 1].cpu THEN S(i) \cup {i + 1} ELSE S(i)
  OBVIOUS
<1>4. i + 1 \notin S(i)
  OBVIOUS
<1> HIDE DEF S
<1>5. Cardinality(S(0)) = 0
  BY <1>2, FS_EmptySet
<1>6. Cardinality(S(i + 1)) = Cardinality(S(i)) + (IF s[i + 1].cpu THEN 1 ELSE 0)
  <2>1. Cardinality(S(i) \cup {i + 1}) = Cardinality(S(i)) + 1
    BY <1>1, <1>4, FS_AddElement
  <2> QED
    BY <1>1, <1>3, <2>1
<1> QED
  BY <1>1, <1>5, <1>6 DEF S, CpuUpTo

-----------------------------------------------------------------------------
(* What a proof in the tree says of the shards and deferred proofs it covers. *)

\* The execution shards of the shards after a and up to b, as the public values v
\* of a proof give them: the CPU shards are numbered from start_execution_shard on.
Executes(s, v, a, b) ==
    /\ v.start_execution_shard \in Int
    /\ v.contains_execution_shard <=> \E i \in a + 1 .. b : s[i].cpu
    /\ \A i \in a + 1 .. b : s[i].cpu =>
         s[i].pv.execution_shard
           = v.start_execution_shard + CpuUpTo(s, i) - CpuUpTo(s, a) - 1
    /\ v.contains_execution_shard =>
         v.next_execution_shard = v.start_execution_shard + CpuUpTo(s, b) - CpuUpTo(s, a)
    /\ ~v.contains_execution_shard => CpuUpTo(s, b) = CpuUpTo(s, a)

\* The members of c up to m are numbered one by one: X has their numbers, C counts them.
Upto(c, m) == {j \in c : j < m + 1}
Numbered(X, C, c, m) ==
    /\ Upto(c, m) # {} => X[Max(Upto(c, m))] = X[Min(c)] + C[m] - C[0] - 1
    /\ Upto(c, m) = {} => C[m] = C[0]

\* X grows by one from each member of c to the next, and C counts the members.
OneByOne(X, C, c, k) ==
    /\ \A i \in c : X[i] \in Int
    /\ C \in [0 .. k -> Nat]
    /\ \A i \in 1 .. k : C[i] = C[i - 1] + (IF i \in c THEN 1 ELSE 0)
    /\ \A i \in c : {j \in c : j < i} # {} => X[i] = X[Max({j \in c : j < i})] + 1

\* Then the number of a member follows from the first number and the count.
FromFirst(X, C, c, k) ==
    /\ \A i \in c : X[i] = X[Min(c)] + C[i] - C[0] - 1
    /\ c # {} => X[Max(c)] = X[Min(c)] + C[k] - C[0] - 1
    /\ c = {} => C[k] = C[0]

\* Numbers that grow by one from each member of a set to the next.
LEMMA Numbering ==
  ASSUME NEW k \in Nat, NEW c \in SUBSET (1 .. k), NEW X, NEW C, OneByOne(X, C, c, k)
  PROVE  FromFirst(X, C, c, k)
<1>1. c # {} => /\ Min(c) \in c /\ \A x \in c : Min(c) <= x
                /\ Max(c) \in c /\ \A x \in c : x <= Max(c)
  BY MinMax
<1>2. \A i \in 0 .. k : C[i] \in Nat
  BY DEF OneByOne
<1>3. \A j \in c : j \in 1 .. k /\ j \in Nat
  OBVIOUS
<1>4. ASSUME NEW m \in Nat
      PROVE  /\ Upto(c, m) \in SUBSET (1 .. k)
             /\ \A j \in c : j \in Upto(c, m) <=> j <= m
             /\ \A j \in Upto(c, m) : j \in c /\ j \in 1 .. m
  <2>1. \A j \in c : j < m + 1 <=> j <= m
    BY <1>3
  <2>2. \A j \in c : j <= m => j \in 1 .. m
    BY <1>3
  <2>3. \A j : j \in Upto(c, m) <=> j \in c /\ j < m + 1
    BY DEF Upto
  <2>4. Upto(c, m) \subseteq 1 .. k
    BY <1>3, <2>3
  <2> QED
    BY <2>1, <2>2, <2>3, <2>4
<1>5. ASSUME NEW m \in c PROVE m \in Nat /\ Max(Upto(c, m)) = m /\ Upto(c, m) # {}
  <2>1. m \in Nat /\ m \in Upto(c, m) /\ \A x \in Upto(c, m) : x \in 1 .. m
    BY <1>4
  <2>2. Max(Upto(c, m)) \in Upto(c, m) /\ \A x \in Upto(c, m) : x <= Max(Upto(c, m))
    BY <1>4, <2>1, MinMax
  <2>3. PICK y : y = Max(Upto(c, m))
    OBVIOUS
  <2>4. y \in 1 .. m /\ m <= y
    BY <2>1, <2>2, <2>3
  <2> QED
    BY <2>1, <2>3, <2>4
<1> DEFINE G == {m \in Nat : m <= k => Numbered(X, C, c, m)}
<1>6. 0 \in G
  <2>1. Upto(c, 0) = {}
    BY <1>4
  <2> QED
    BY <2>1 DEF Numbered
<1>7. ASSUME NEW m \in Nat, m \in G PROVE m + 1 \in G
  <2> SUFFICES ASSUME m + 1 <= k PROVE Numbered(X, C, c, m + 1)
    OBVIOUS
  <2>1. Numbered(X, C, c, m)
    BY <1>7
  <2>2. m + 1 \in 1 .. k /\ m \in 0 .. k /\ m + 1 \in 0 .. k /\ 0 \in 0 .. k /\ (m + 1) - 1 = m
    OBVIOUS
  <2>3. C[m] \in Nat /\ C[0] \in Nat
        /\ C[m + 1] = C[m] + (IF m + 1 \in c THEN 1 ELSE 0)
    BY <1>2, <2>2 DEF OneByOne
  <2>4. CASE m + 1 \in c
    <3>1. Max(Upto(c, m + 1)) = m + 1 /\ Upto(c, m + 1) # {} /\ X[m + 1] \in Int
          /\ Min(c) \in c
      BY <1>1, <1>5, <2>4 DEF OneByOne
    <3>2. X[Min(c)] \in Int
      BY <3>1 DEF OneByOne
    <3>3. CASE Upto(c, m) = {}
      <4>1. C[m] = C[0]
        BY <2>1, <3>3 DEF Numbered
      <4>2. PICK y : y = Min(c)
        OBVIOUS
      <4>3. y \in c /\ y \in 1 .. k /\ y <= m + 1 /\ ~ (y <= m)
        BY <1>1, <1>4, <2>4, <3>3, <4>2
      <4>4. y = m + 1
        BY <4>3
      <4>5. Min(c) = m + 1
        BY <4>2, <4>4
      <4> QED
        BY <2>3, <2>4, <3>1, <3>2, <4>1, <4>5 DEF Numbered
    <3>4. CASE Upto(c, m) # {}
      <4>1. X[Max(Upto(c, m))] = X[Min(c)] + C[m] - C[0] - 1
        BY <2>1, <3>4 DEF Numbered
      <4>2. X[m + 1] = X[Max(Upto(c, m))] + 1
        <5>1. Upto(c, m) = {j \in c : j < m + 1}
          BY DEF Upto
        <5> QED
          BY <2>4, <3>4, <5>1 DEF OneByOne
      <4>3. X[m + 1] = X[Min(c)] + C[m + 1] - C[0] - 1
        BY <2>3, <2>4, <3>2, <4>1, <4>2
      <4> QED
        BY <3>1, <4>3 DEF Numbered
    <3> QED
      BY <3>3, <3>4
  <2>5. CASE m + 1 \notin c
    <3>1. Upto(c, m + 1) = Upto(c, m)
      <4>1. \A j \in c : j < m + 1 + 1 <=> j < m + 1
        BY <1>3, <2>5
      <4> QED
        BY <4>1 DEF Upto
    <3>2. C[m + 1] = C[m]
      BY <2>3, <2>5
    <3> QED
      BY <2>1, <3>1, <3>2 DEF Numbered
  <2> QED
    BY <2>4, <2>5
<1> HIDE DEF G
<1>8. \A m \in Nat : m \in G
  BY <1>6, <1>7, Induction
<1>9. \A m \in 0 .. k : Numbered(X, C, c, m)
  BY <1>8 DEF G
<1>10. ASSUME NEW i \in c PROVE X[i] = X[Min(c)] + C[i] - C[0] - 1
  <2>1. i \in 0 .. k
    BY <1>3
  <2>2. Numbered(X, C, c, i)
    BY <1>9, <2>1
  <2> QED
    BY <1>5, <2>2 DEF Numbered
<1>11. Upto(c, k) = c
  <2>1. \A j \in c : j < k + 1
    BY <1>3
  <2> QED
    BY <2>1 DEF Upto
<1>12. Numbered(X, C, c, k)
  BY <1>9
<1> QED
  BY <1>10, <1>11, <1>12 DEF Numbered, FromFirst

\* CPU shards that follow each other in a batch are numbered one by one.
LEMMA BatchExecutes ==
  ASSUME NEW s, Shards(s), NEW a \in 0 .. Len(s), NEW b \in a .. Len(s), a < b,
         NEW t, t = SubSeq(s, a + 1, b), ExecutionShardRules(t),
         NEW v, v.contains_execution_shard <=> CpuShards(t) # {},
         v.start_execution_shard =
            (IF CpuShards(t) = {} THEN t[1].pv.execution_shard
                                  ELSE t[Min(CpuShards(t))].pv.execution_shard),
         CpuShards(t) # {} =>
            v.next_execution_shard = t[Max(CpuShards(t))].pv.execution_shard + 1
  PROVE  Executes(s, v, a, b)
<1> DEFINE k == b - a
           c == CpuShards(t)
           start == v.start_execution_shard
           X == [i \in 1 .. k |-> t[i].pv.execution_shard]
           C == [i \in 0 .. k |-> CpuUpTo(s, a + i)]
<1>1. /\ Len(s) \in Nat /\ a \in Nat /\ b \in Nat /\ k \in Nat
      /\ DOMAIN t = 1 .. k /\ \A i \in 1 .. k : t[i] = s[a + i]
  BY Piece DEF Shards
<1>2. /\ a + k = b /\ a + 0 = a /\ 1 \in 1 .. k /\ 0 \in 0 .. k /\ k \in 0 .. k
      /\ \A i \in 1 .. k : /\ i - 1 \in 0 .. k /\ i \in 0 .. k /\ a + i \in 1 .. Len(s)
                            /\ (a + (i - 1)) + 1 = a + i /\ a + i \in a + 1 .. b
      /\ \A i \in 0 .. k : a + i \in Nat
      /\ \A i \in a + 1 .. b : i - a \in 1 .. k /\ a + (i - a) = i
  BY <1>1
<1>3. c \in SUBSET (1 .. k) /\ \A i \in 1 .. k : i \in c <=> s[a + i].cpu
  BY <1>1 DEF CpuShards
<1>4. \A i \in 1 .. k : X[i] = t[i].pv.execution_shard /\ X[i] = s[a + i].pv.execution_shard
                        /\ X[i] \in Int
  BY <1>1, <1>2 DEF Shards
<1>5. \A i \in 0 .. k : CpuUpTo(s, a + i) \in Nat
  BY <1>2, CpuStep
<1>6. C \in [0 .. k -> Nat] /\ C[0] = CpuUpTo(s, a) /\ C[k] = CpuUpTo(s, b)
      /\ \A i \in 1 .. k : C[i] = CpuUpTo(s, a + i) /\ C[i - 1] = CpuUpTo(s, a + (i - 1))
  <2> HIDE DEF k
  <2> QED
    BY <1>2, <1>5
<1>7. ASSUME NEW i \in 1 .. k PROVE C[i] = C[i - 1] + (IF i \in c THEN 1 ELSE 0)
  <2>1. a + (i - 1) \in Nat
    BY <1>2
  <2>2. CpuUpTo(s, (a + (i - 1)) + 1)
          = CpuUpTo(s, a + (i - 1)) + (IF s[(a + (i - 1)) + 1].cpu THEN 1 ELSE 0)
    BY <2>1, CpuStep
  <2> HIDE DEF C, c
  <2> QED
    BY <1>2, <1>3, <1>6, <2>2
<1>8. ASSUME NEW i \in c, {j \in c : j < i} # {} PROVE X[i] = X[Max({j \in c : j < i})] + 1
  <2>1. t[i].pv.execution_shard = t[Max({j \in c : j < i})].pv.execution_shard + 1
    BY <1>8 DEF ExecutionShardRules
  <2>2. {j \in c : j < i} \in SUBSET (1 .. k)
    BY <1>3
  <2>3. Max({j \in c : j < i}) \in {j \in c : j < i}
    BY <1>1, <1>8, <2>2, MinMax
  <2>4. Max({j \in c : j < i}) \in 1 .. k /\ i \in 1 .. k
    BY <1>3, <2>2, <2>3
  <2> HIDE DEF X
  <2> QED
    BY <1>4, <2>1, <2>4
<1>9. c # {} => Min(c) \in c /\ Max(c) \in c
  BY <1>1, <1>3, MinMax
<1>10. /\ start = IF c = {} THEN X[1] ELSE X[Min(c)]
       /\ start \in Int
       /\ c # {} => v.next_execution_shard = X[Max(c)] + 1
  <2> HIDE DEF X
  <2> QED
    BY <1>2, <1>3, <1>4, <1>9
<1>11. /\ v.contains_execution_shard <=> c # {}
  OBVIOUS
<1> HIDE DEF X, C, c, start, k
<1>12. /\ \A i \in c : X[i] = X[Min(c)] + C[i] - C[0] - 1
       /\ c # {} => X[Max(c)] = X[Min(c)] + C[k] - C[0] - 1
       /\ c = {} => C[k] = C[0]
  <2>1. \A i \in c : X[i] \in Int
    BY <1>3, <1>4
  <2>2. OneByOne(X, C, c, k)
    BY <1>6, <1>7, <1>8, <2>1 DEF OneByOne
  <2>3. FromFirst(X, C, c, k)
    BY <1>1, <1>3, <2>2, Numbering
  <2> QED
    BY <2>3 DEF FromFirst
<1>13. ASSUME NEW i \in a + 1 .. b, s[i].cpu
       PROVE  s[i].pv.execution_shard = start + CpuUpTo(s, i) - CpuUpTo(s, a) - 1
  <2>1. PICK m \in 1 .. k : i = a + m
    BY <1>2
  <2>2. m \in c /\ c # {}
    BY <1>3, <1>13, <2>1
  <2> QED
    BY <1>4, <1>6, <1>10, <1>12, <2>1, <2>2
<1>14. c # {} <=> \E i \in a + 1 .. b : s[i].cpu
  <2>1. ASSUME NEW j \in c PROVE \E i \in a + 1 .. b : s[i].cpu
    BY <1>2, <1>3
  <2>2. ASSUME NEW i \in a + 1 .. b, s[i].cpu PROVE c # {}
    <3>1. i - a \in c
      BY <1>2, <1>3, <2>2
    <3> QED
      BY <3>1
  <2> QED
    BY <2>1, <2>2
<1>15. c # {} => v.next_execution_shard = start + CpuUpTo(s, b) - CpuUpTo(s, a)
  <2> SUFFICES ASSUME c # {} PROVE v.next_execution_shard = start + C[k] - C[0]
    BY <1>6
  <2>1. PICK x \in Int : x = start
    BY <1>10
  <2>2. PICK p \in Nat, q \in Nat : p = C[k] /\ q = C[0]
    BY <1>2, <1>6
  <2>3. X[Max(c)] = x + p - q - 1 /\ v.next_execution_shard = X[Max(c)] + 1
    BY <1>10, <1>12, <2>1, <2>2
  <2>4. v.next_execution_shard = x + p - q
    BY <2>3
  <2> QED
    BY <2>1, <2>2, <2>4
<1>16. c = {} => CpuUpTo(s, b) = CpuUpTo(s, a)
  BY <1>6, <1>12
<1> QED
  BY <1>10, <1>11, <1>13, <1>14, <1>15, <1>16 DEF Executes, start

\* The four fields in which a shard must continue the one before it.
Continues(p, q) ==
    /\ q.shard = p.shard + 1
    /\ q.start_pc = p.next_pc
    /\ q.previous_init_addr_bits = p.last_init_addr_bits
    /\ q.previous_finalize_addr_bits = p.last_finalize_addr_bits

\* The shards after a and up to b follow each other.
Linked(s, a, b) == \A i \in a + 2 .. b : Continues(s[i - 1].pv, s[i].pv)

\* v starts as its first shard does, or after the last shard when it has none.
Starts(s, v, a, b) ==
    /\ a < b =>
         /\ v.start_shard = s[a + 1].pv.shard
         /\ v.start_pc = s[a + 1].pv.start_pc
         /\ v.previous_init_addr_bits = s[a + 1].pv.previous_init_addr_bits
         /\ v.previous_finalize_addr_bits = s[a + 1].pv.previous_finalize_addr_bits
    /\ a = b =>
         /\ v.start_shard = s[b].pv.shard + 1
         /\ v.start_pc = 0
         /\ v.previous_init_addr_bits = s[b].pv.last_init_addr_bits
         /\ v.previous_finalize_addr_bits = s[b].pv.last_finalize_addr_bits

\* v ends as its last shard does; a deferred proof is only reached with a pc of 0.
Ends(s, v, a, b, c, e) ==
    /\ v.next_shard = s[b].pv.shard + 1
    /\ v.last_init_addr_bits = s[b].pv.last_init_addr_bits
    /\ v.last_finalize_addr_bits = s[b].pv.last_finalize_addr_bits
    /\ v.committed_value_digest = s[b].pv.committed_value_digest
    /\ v.deferred_proofs_digest = s[b].pv.deferred_proofs_digest
    /\ c = e => v.next_pc = s[b].pv.next_pc
    /\ c < e => v.next_pc = 0 /\ (a < b => s[b].pv.next_pc = 0)

\* What v adds up: the sums of its shards, and the digest of its deferred proofs.
AddsUp(s, d, v, a, b, c, e) ==
    /\ v.global_cumulative_sum
         = TotalTo(s, b) - TotalTo(s, a) + (IF a = 0 THEN InitialSum ELSE 0)
    /\ v.start_reconstruct_deferred_digest = DigestTo(d, c)
    /\ v.end_reconstruct_deferred_digest = DigestTo(d, e)
    /\ v.zkm_vk_digest = VkDigest
    /\ v.vk_root = VkRoot

\* A proof covers a range of the shards, of the deferred proofs, or the last shards
\* and the first deferred proofs.
Ranges(s, d, a, b, c, e) ==
    /\ a \in 0 .. Len(s) /\ b \in a .. Len(s) /\ b # 0
    /\ c \in 0 .. Len(d) /\ e \in c .. Len(d)
    /\ a = b => c < e
    /\ c < e => b = Len(s)

\* The public values of a recursion program: a record of these fields.
IsValues(v) ==
    v = [committed_value_digest |-> v.committed_value_digest,
         deferred_proofs_digest |-> v.deferred_proofs_digest,
         start_pc |-> v.start_pc,
         next_pc |-> v.next_pc,
         start_shard |-> v.start_shard,
         next_shard |-> v.next_shard,
         start_execution_shard |-> v.start_execution_shard,
         next_execution_shard |-> v.next_execution_shard,
         previous_init_addr_bits |-> v.previous_init_addr_bits,
         last_init_addr_bits |-> v.last_init_addr_bits,
         previous_finalize_addr_bits |-> v.previous_finalize_addr_bits,
         last_finalize_addr_bits |-> v.last_finalize_addr_bits,
         zkm_vk_digest |-> v.zkm_vk_digest,
         global_cumulative_sum |-> v.global_cumulative_sum,
         start_reconstruct_deferred_digest |-> v.start_reconstruct_deferred_digest,
         end_reconstruct_deferred_digest |-> v.end_reconstruct_deferred_digest,
         exit_code |-> v.exit_code,
         is_complete |-> v.is_complete,
         contains_execution_shard |-> v.contains_execution_shard,
         vk_root |-> v.vk_root]

\* What is left of the values v of a proof of the shards after a up to b: they need the
\* first shard for an execution shard when none of them has a CPU.
Exact(s, v, a, b, c) ==
    /\ v.exit_code = 0 /\ v.contains_execution_shard \in BOOLEAN /\ IsValues(v)
    /\ a < b => c = 0
    /\ ~v.contains_execution_shard /\ a < b =>
         /\ v.start_execution_shard = s[a + 1].pv.execution_shard
         /\ v.next_execution_shard = v.start_execution_shard

\* v is what a proof of the shards after a up to b of s, and of the deferred proofs
\* after c up to e of d, commits to.
Covers(s, d, v, a, b, c, e) ==
    /\ Ranges(s, d, a, b, c, e)
    /\ Linked(s, a, b)
    /\ Starts(s, v, a, b)
    /\ Ends(s, v, a, b, c, e)
    /\ AddsUp(s, d, v, a, b, c, e)
    /\ Executes(s, v, a, b)
    /\ Exact(s, v, a, b, c)

\* A record that is built from the fields has them.
LEMMA RecordIsValues ==
  ASSUME NEW x1, NEW x2, NEW x3, NEW x4, NEW x5, NEW x6, NEW x7, NEW x8, NEW x9, NEW x10,
         NEW x11, NEW x12, NEW x13, NEW x14, NEW x15, NEW x16, NEW x17, NEW x18, NEW x19, NEW x20
  PROVE  IsValues(
          [committed_value_digest |-> x1,
           deferred_proofs_digest |-> x2,
           start_pc |-> x3,
           next_pc |-> x4,
           start_shard |-> x5,
           next_shard |-> x6,
           start_execution_shard |-> x7,
           next_execution_shard |-> x8,
           previous_init_addr_bits |-> x9,
           last_init_addr_bits |-> x10,
           previous_finalize_addr_bits |-> x11,
           last_finalize_addr_bits |-> x12,
           zkm_vk_digest |-> x13,
           global_cumulative_sum |-> x14,
           start_reconstruct_deferred_digest |-> x15,
           end_reconstruct_deferred_digest |-> x16,
           exit_code |-> x17,
           is_complete |-> x18,
           contains_execution_shard |-> x19,
           vk_root |-> x20])
<1>1. PICK v :
        v = [committed_value_digest |-> x1,
             deferred_proofs_digest |-> x2,
             start_pc |-> x3,
             next_pc |-> x4,
             start_shard |-> x5,
             next_shard |-> x6,
             start_execution_shard |-> x7,
             next_execution_shard |-> x8,
             previous_init_addr_bits |-> x9,
             last_init_addr_bits |-> x10,
             previous_finalize_addr_bits |-> x11,
             last_finalize_addr_bits |-> x12,
             zkm_vk_digest |-> x13,
             global_cumulative_sum |-> x14,
             start_reconstruct_deferred_digest |-> x15,
             end_reconstruct_deferred_digest |-> x16,
             exit_code |-> x17,
             is_complete |-> x18,
             contains_execution_shard |-> x19,
             vk_root |-> x20]
  OBVIOUS
<1>2. /\ v.committed_value_digest = x1
      /\ v.deferred_proofs_digest = x2
      /\ v.start_pc = x3
      /\ v.next_pc = x4
      /\ v.start_shard = x5
      /\ v.next_shard = x6
      /\ v.start_execution_shard = x7
      /\ v.next_execution_shard = x8
      /\ v.previous_init_addr_bits = x9
      /\ v.last_init_addr_bits = x10
      /\ v.previous_finalize_addr_bits = x11
      /\ v.last_finalize_addr_bits = x12
      /\ v.zkm_vk_digest = x13
      /\ v.global_cumulative_sum = x14
      /\ v.start_reconstruct_deferred_digest = x15
      /\ v.end_reconstruct_deferred_digest = x16
      /\ v.exit_code = x17
      /\ v.is_complete = x18
      /\ v.contains_execution_shard = x19
      /\ v.vk_root = x20
  BY <1>1
<1> QED
  BY <1>1, <1>2, Zenon DEF IsValues

\* The three programs build such records.
LEMMA OutputsAreValues ==
  /\ \A batch, first, complete :
       LET v == CoreOutput(batch, first, complete)
       IN IsValues(v) /\ v.contains_execution_shard \in BOOLEAN
  /\ \A proofs, start, pv :
       LET v == DeferredOutput(proofs, start, pv)
       IN IsValues(v) /\ v.contains_execution_shard \in BOOLEAN
  /\ \A proofs, complete :
       LET v == CompressOutput(proofs, complete)
       IN IsValues(v) /\ v.contains_execution_shard \in BOOLEAN
<1>1. ASSUME NEW batch, NEW first, NEW complete
      PROVE  /\ IsValues(CoreOutput(batch, first, complete))
             /\ CoreOutput(batch, first, complete).contains_execution_shard \in BOOLEAN
  <2>1. IsValues(CoreOutput(batch, first, complete))
    BY RecordIsValues DEF CoreOutput
  <2>2. CoreOutput(batch, first, complete).contains_execution_shard = (CpuShards(batch) # {})
    BY DEF CoreOutput
  <2> QED
    BY <2>1, <2>2, Zenon
<1>2. ASSUME NEW proofs, NEW start, NEW pv
      PROVE  /\ IsValues(DeferredOutput(proofs, start, pv))
             /\ DeferredOutput(proofs, start, pv).contains_execution_shard \in BOOLEAN
  <2>1. IsValues(DeferredOutput(proofs, start, pv))
    BY RecordIsValues DEF DeferredOutput
  <2>2. DeferredOutput(proofs, start, pv).contains_execution_shard = (FALSE)
    BY DEF DeferredOutput
  <2> QED
    BY <2>1, <2>2, Zenon
<1>3. ASSUME NEW proofs, NEW complete
      PROVE  /\ IsValues(CompressOutput(proofs, complete))
             /\ CompressOutput(proofs, complete).contains_execution_shard \in BOOLEAN
  <2>1. IsValues(CompressOutput(proofs, complete))
    BY RecordIsValues DEF CompressOutput
  <2>2. CompressOutput(proofs, complete).contains_execution_shard = (Executing(proofs) # {})
    BY DEF CompressOutput
  <2> QED
    BY <2>1, <2>2, Zenon
<1> QED
  BY <1>1, <1>2, <1>3, Zenon

\* The core program on a batch: its output covers the batch.
LEMMA CoreLeaf ==
  ASSUME NEW s, Shards(s), NEW d, IsSeq(d),
         NEW a \in 0 .. Len(s), NEW b \in a .. Len(s), a < b,
         NEW first, first <=> a = 0, NEW complete,
         CoreAccepts(SubSeq(s, a + 1, b), first, complete)
  PROVE  /\ Covers(s, d, CoreOutput(SubSeq(s, a + 1, b), first, complete), a, b, 0, 0)
         /\ AssertComplete(CoreOutput(SubSeq(s, a + 1, b), first, complete))
         /\ \A i \in a + 1 .. b : ShardRules(s[i])
         /\ FirstShardRules(s[a + 1].pv, first)
<1>1. PICK t : t = SubSeq(s, a + 1, b)
  OBVIOUS
<1>2. PICK k : k = b - a
  OBVIOUS
<1>3. PICK v : v = CoreOutput(t, first, complete)
  OBVIOUS
<1>4. /\ Len(s) \in Nat /\ a \in Nat /\ b \in Nat /\ k \in Nat
      /\ Len(t) = k /\ DOMAIN t = 1 .. k /\ \A i \in 1 .. k : t[i] = s[a + i]
  BY <1>1, <1>2, Piece DEF Shards
<1>5. /\ a + k = b /\ 1 \in 1 .. k /\ k \in 1 .. k /\ b # 0
      /\ \A i \in a + 1 .. b : i - a \in 1 .. k /\ a + (i - a) = i
      /\ \A i \in a + 2 .. b : /\ i - a \in 2 .. k /\ (i - 1) - a = (i - a) - 1
                               /\ i \in a + 1 .. b /\ i - 1 \in a + 1 .. b
  BY <1>2, <1>4
<1>6. t[1] = s[a + 1] /\ t[k] = s[b] /\ Head(t) = t[1] /\ Last(t) = t[k]
  BY <1>1, <1>4, <1>5 DEF Last
<1>7. ASSUME NEW i \in a + 1 .. b PROVE s[i] = t[i - a]
  <2>1. i - a \in 1 .. k /\ a + (i - a) = i
    BY <1>5
  <2>2. t[i - a] = s[a + (i - a)]
    BY <1>4, <2>1
  <2> QED
    BY <2>1, <2>2
<1>8. /\ FirstShardRules(t[1].pv, first)
      /\ \A i \in 1 .. k : ShardRules(t[i])
      /\ \A i \in 2 .. k : ShardLinkRules(t[i - 1], t[i])
      /\ ExecutionShardRules(t)
      /\ AssertComplete(v)
  BY <1>1, <1>3, <1>4, <1>6 DEF CoreAccepts
<1>9. ASSUME NEW i \in a + 1 .. b PROVE ShardRules(s[i])
  BY <1>5, <1>7, <1>8
<1>10. Linked(s, a, b)
  <2> SUFFICES ASSUME NEW i \in a + 2 .. b PROVE Continues(s[i - 1].pv, s[i].pv)
    BY DEF Linked
  <2>1. /\ i - a \in 2 .. k /\ (i - 1) - a = (i - a) - 1 /\ i \in a + 1 .. b
        /\ i - 1 \in a + 1 .. b
    BY <1>5
  <2>2. s[i] = t[i - a] /\ s[i - 1] = t[(i - a) - 1]
    BY <1>7, <2>1
  <2>3. ShardLinkRules(t[(i - a) - 1], t[i - a])
    BY <1>8, <2>1
  <2>4. ShardLinkRules(s[i - 1], s[i])
    BY <2>2, <2>3
  <2> QED
    BY <2>4 DEF ShardLinkRules, Continues
<1>11. Starts(s, v, a, b)
  <2>1. /\ v.start_shard = t[1].pv.shard
        /\ v.start_pc = t[1].pv.start_pc
        /\ v.previous_init_addr_bits = t[1].pv.previous_init_addr_bits
        /\ v.previous_finalize_addr_bits = t[1].pv.previous_finalize_addr_bits
    BY <1>3, <1>6 DEF CoreOutput
  <2>2. a # b
    BY <1>4
  <2> QED
    BY <1>6, <2>1, <2>2 DEF Starts
<1>12. Ends(s, v, a, b, 0, 0)
  <2>1. /\ v.next_shard = t[k].pv.shard + 1
        /\ v.last_init_addr_bits = t[k].pv.last_init_addr_bits
        /\ v.last_finalize_addr_bits = t[k].pv.last_finalize_addr_bits
        /\ v.committed_value_digest = t[k].pv.committed_value_digest
        /\ v.deferred_proofs_digest = t[k].pv.deferred_proofs_digest
        /\ v.next_pc = t[k].pv.next_pc
    BY <1>3, <1>6 DEF CoreOutput
  <2> QED
    BY <1>6, <2>1 DEF Ends
<1>13. AddsUp(s, d, v, a, b, 0, 0)
  <2>1. /\ v.global_cumulative_sum
             = (IF first THEN InitialSum ELSE 0) + SumOf([i \in DOMAIN t |-> t[i].sum])
        /\ v.start_reconstruct_deferred_digest = 0
        /\ v.end_reconstruct_deferred_digest = 0
        /\ v.zkm_vk_digest = VkDigest
        /\ v.vk_root = VkRoot
    BY <1>3 DEF CoreOutput
  <2>2. /\ SumOf([i \in DOMAIN t |-> t[i].sum]) = TotalTo(s, b) - TotalTo(s, a)
        /\ TotalTo(s, a) \in Int /\ TotalTo(s, b) \in Int
    BY <1>1, PieceSum
  <2>3. DigestTo(d, 0) = 0
    <3>1. Len(d) \in Nat
      BY SeqIsSeq DEF IsSeq
    <3>2. 0 \in 0 .. Len(d)
      BY <3>1
    <3> QED
      BY <3>2, PieceDigest
  <2>4. v.global_cumulative_sum
          = TotalTo(s, b) - TotalTo(s, a) + (IF a = 0 THEN InitialSum ELSE 0)
    BY <2>1, <2>2, RecursionAssumption
  <2> QED
    BY <2>1, <2>3, <2>4 DEF AddsUp
<1>14. Executes(s, v, a, b)
  <2>1. /\ v.contains_execution_shard <=> CpuShards(t) # {}
        /\ v.start_execution_shard =
             (IF CpuShards(t) = {} THEN t[1].pv.execution_shard
                                   ELSE t[Min(CpuShards(t))].pv.execution_shard)
        /\ CpuShards(t) # {} =>
             v.next_execution_shard = t[Max(CpuShards(t))].pv.execution_shard + 1
    BY <1>3, <1>6 DEF CoreOutput
  <2> QED
    BY <1>1, <1>8, <2>1, BatchExecutes
<1>15. Ranges(s, d, a, b, 0, 0)
  <2>1. Len(d) \in Nat
    BY SeqIsSeq DEF IsSeq
  <2> QED
    BY <1>4, <1>5, <2>1 DEF Ranges
<1>16. Exact(s, v, a, b, 0)
  <2>1. v.exit_code = 0
    <3>1. v.exit_code = t[k].pv.exit_code
      BY <1>3, <1>6 DEF CoreOutput
    <3> QED
      BY <1>5, <1>8, <3>1 DEF ShardRules
  <2>2. IsValues(v) /\ v.contains_execution_shard \in BOOLEAN
    BY <1>3, OutputsAreValues
  <2>3. ~v.contains_execution_shard =>
          /\ v.start_execution_shard = t[1].pv.execution_shard
          /\ v.next_execution_shard = v.start_execution_shard
    BY <1>3, <1>6 DEF CoreOutput
  <2> QED
    BY <1>6, <2>1, <2>2, <2>3 DEF Exact
<1> QED
  BY <1>1, <1>3, <1>6, <1>8, <1>9, <1>10, <1>11, <1>12, <1>13, <1>14, <1>15, <1>16 DEF Covers

\* The deferred program on a batch, with the values the prover hints.
LEMMA DeferredLeaf ==
  ASSUME NEW s, Shards(s), s # <<>>, NEW d, IsSeq(d),
         NEW c \in 0 .. Len(d), NEW e \in c .. Len(d), c < e
  PROVE  LET v == DeferredOutput(SubSeq(d, c + 1, e), DigestTo(d, c), Last(s).pv)
         IN  Covers(s, d, v, Len(s), Len(s), c, e) /\ AssertComplete(v)
<1>1. PICK v : v = DeferredOutput(SubSeq(d, c + 1, e), DigestTo(d, c), Last(s).pv)
  OBVIOUS
<1>2. PICK n \in Nat : n = Len(s)
  BY SeqIsSeq DEF IsSeq, Shards
<1>3. n # 0 /\ n \in 0 .. n /\ n \in n .. n /\ Last(s) = s[n]
  <2>1. s \in Seq(Range(s))
    BY DEF Shards, IsSeq
  <2>2. n # 0
    BY <1>2, <2>1
  <2> QED
    BY <1>2, <2>2 DEF Last
<1>4. PICK p : p = s[n].pv
  OBVIOUS
<1>5. PICK x : x = DigestTo(d, c)
  OBVIOUS
<1>6. PICK y : y = HashDeferredProofs(x, SubSeq(d, c + 1, e))
  OBVIOUS
<1>7. y = DigestTo(d, e)
  BY <1>5, <1>6, PieceDigest
<1>8. v = [committed_value_digest |-> p.committed_value_digest,
     deferred_proofs_digest |-> p.deferred_proofs_digest,
     start_pc |-> 0,
     next_pc |-> 0,
     start_shard |-> p.shard + 1,
     next_shard |-> p.shard + 1,
     start_execution_shard |-> p.execution_shard,
     next_execution_shard |-> p.execution_shard,
     previous_init_addr_bits |-> p.last_init_addr_bits,
     last_init_addr_bits |-> p.last_init_addr_bits,
     previous_finalize_addr_bits |-> p.last_finalize_addr_bits,
     last_finalize_addr_bits |-> p.last_finalize_addr_bits,
     zkm_vk_digest |-> VkDigest,
     global_cumulative_sum |-> 0,
     start_reconstruct_deferred_digest |-> x,
     end_reconstruct_deferred_digest |-> y,
     exit_code |-> 0,
     is_complete |-> FALSE,
     contains_execution_shard |-> FALSE,
     vk_root |-> VkRoot]
  BY <1>1, <1>3, <1>4, <1>5, <1>6, Zenon DEF DeferredOutput
<1>9. Starts(s, v, n, n)
  BY <1>4, <1>8 DEF Starts
<1>10. Ends(s, v, n, n, c, e)
  <2>1. c # e
    <3>1. Len(d) \in Nat
      BY SeqIsSeq DEF IsSeq
    <3> QED
      BY <3>1
  <2> QED
    BY <1>4, <1>8, <2>1 DEF Ends
<1>11. AddsUp(s, d, v, n, n, c, e)
  <2>1. TotalTo(s, n) \in Int
    BY <1>2, <1>3, PieceSum
  <2>2. TotalTo(s, n) - TotalTo(s, n) + 0 = 0
    BY <2>1
  <2> QED
    BY <1>3, <1>5, <1>7, <1>8, <2>2 DEF AddsUp
<1>12. Executes(s, v, n, n)
  <2>1. p.execution_shard \in Int
    <3>1. n \in 1 .. Len(s)
      BY <1>2, <1>3
    <3> QED
      BY <1>4, <3>1 DEF Shards
  <2>2. \A i \in n + 1 .. n : FALSE
    OBVIOUS
  <2> QED
    BY <1>8, <2>1, <2>2 DEF Executes
<1>13. Linked(s, n, n) /\ Ranges(s, d, n, n, c, e)
  BY <1>2, <1>3 DEF Linked, Ranges
<1>14. AssertComplete(v)
  BY <1>8 DEF AssertComplete
<1>15. Exact(s, v, n, n, c)
  <2>1. IsValues(v) /\ v.contains_execution_shard \in BOOLEAN
    BY <1>1, OutputsAreValues
  <2>2. ~(n < n)
    OBVIOUS
  <2> QED
    BY <1>8, <2>1, <2>2 DEF Exact
<1> QED
  BY <1>1, <1>2, <1>9, <1>10, <1>11, <1>12, <1>13, <1>14, <1>15 DEF Covers

-----------------------------------------------------------------------------
(* The compress program on two proofs, and on one. *)

\* The values that compressing proofs with values u and w gives.
Merged(o, u, w, complete) ==
    /\ o.committed_value_digest = w.committed_value_digest
    /\ o.deferred_proofs_digest = w.deferred_proofs_digest
    /\ o.start_pc = u.start_pc /\ o.next_pc = w.next_pc
    /\ o.start_shard = u.start_shard /\ o.next_shard = w.next_shard
    /\ o.previous_init_addr_bits = u.previous_init_addr_bits
    /\ o.last_init_addr_bits = w.last_init_addr_bits
    /\ o.previous_finalize_addr_bits = u.previous_finalize_addr_bits
    /\ o.last_finalize_addr_bits = w.last_finalize_addr_bits
    /\ o.zkm_vk_digest = u.zkm_vk_digest /\ o.vk_root = VkRoot
    /\ o.start_reconstruct_deferred_digest = u.start_reconstruct_deferred_digest
    /\ o.end_reconstruct_deferred_digest = w.end_reconstruct_deferred_digest
    /\ o.is_complete = complete

\* Two values added up.
LEMMA SumOfTwo ==
  ASSUME NEW x \in Int, NEW y \in Int
  PROVE  SumOf(<<x, y>>) = x + y /\ SumOf(<<x>>) = x
<1>1. SumOf(<<x>>) = x
  <2>1. PICK s : s = <<x>>
    OBVIOUS
  <2>2. s \in Seq(Int) /\ Len(s) = 1 /\ s[1] = x
    BY <2>1
  <2>3. PICK f \in [0 .. Len(s) -> Int] : f[0] = 0 /\ SumSteps(f, s) /\ SumOf(s) = f[Len(s)]
    BY <2>2, SumLoop
  <2>4. 1 \in 1 .. Len(s) /\ 1 - 1 = 0
    BY <2>2
  <2>5. f[1] = f[0] + s[1]
    BY <2>3, <2>4 DEF SumSteps
  <2> QED
    BY <2>1, <2>2, <2>3, <2>5
<1>2. SumOf(<<x, y>>) = x + y
  <2>1. PICK s : s = <<x, y>>
    OBVIOUS
  <2>2. s \in Seq(Int) /\ Len(s) = 2 /\ s[1] = x /\ s[2] = y
    BY <2>1
  <2>3. PICK f \in [0 .. Len(s) -> Int] : f[0] = 0 /\ SumSteps(f, s) /\ SumOf(s) = f[Len(s)]
    BY <2>2, SumLoop
  <2>4. 1 \in 1 .. Len(s) /\ 1 - 1 = 0 /\ 2 \in 1 .. Len(s) /\ 2 - 1 = 1
    BY <2>2
  <2>5. f[1] = f[0] + s[1] /\ f[2] = f[1] + s[2]
    BY <2>3, <2>4 DEF SumSteps
  <2> QED
    BY <2>1, <2>2, <2>3, <2>5
<1> QED
  BY <1>1, <1>2

\* The compress program on two proofs.
LEMMA CompressTwo ==
  ASSUME NEW p, NEW q, NEW u, NEW w, u = p.pv, w = q.pv,
         u.global_cumulative_sum \in Int, w.global_cumulative_sum \in Int, NEW complete,
         NEW o, o = CompressOutput(<<p, q>>, complete)
  PROVE  /\ Merged(o, u, w, complete)
         /\ o.exit_code = w.exit_code
         /\ o.global_cumulative_sum = u.global_cumulative_sum + w.global_cumulative_sum
         /\ o.contains_execution_shard <=>
              u.contains_execution_shard \/ w.contains_execution_shard
         /\ o.start_execution_shard =
              IF ~u.contains_execution_shard /\ w.contains_execution_shard
              THEN w.start_execution_shard ELSE u.start_execution_shard
         /\ o.next_execution_shard =
              IF w.contains_execution_shard THEN w.next_execution_shard
              ELSE IF u.contains_execution_shard THEN u.next_execution_shard
              ELSE u.start_execution_shard
         /\ CompressAccepts(<<p, q>>, complete) <=>
              /\ ProofRules(p) /\ ProofRules(q) /\ LinkRules(u, w) /\ AssertComplete(o)
              /\ u.contains_execution_shard /\ w.contains_execution_shard =>
                   w.start_execution_shard = u.next_execution_shard
<1>1. PICK s : s = <<p, q>>
  OBVIOUS
<1>2. /\ Len(s) = 2 /\ DOMAIN s = {1, 2} /\ s[1] = p /\ s[2] = q /\ s # <<>>
      /\ Head(s) = p /\ Last(s) = q
  BY <1>1 DEF Last
<1>3. SumOf([i \in DOMAIN s |-> s[i].pv.global_cumulative_sum])
        = u.global_cumulative_sum + w.global_cumulative_sum
  <2>1. [i \in DOMAIN s |-> s[i].pv.global_cumulative_sum]
          = <<u.global_cumulative_sum, w.global_cumulative_sum>>
    BY <1>1, <1>2
  <2> QED
    BY <2>1, SumOfTwo
<1>4. PICK e : e = Executing(s)
  OBVIOUS
<1>5. /\ e \in SUBSET {1, 2}
      /\ 1 \in e <=> u.contains_execution_shard
      /\ 2 \in e <=> w.contains_execution_shard
  BY <1>2, <1>4 DEF Executing
<1>6. e # {} => /\ Min(e) = IF 1 \in e THEN 1 ELSE 2
                /\ Max(e) = IF 2 \in e THEN 2 ELSE 1
  <2> SUFFICES ASSUME e # {}
               PROVE  /\ Min(e) = IF 1 \in e THEN 1 ELSE 2
                      /\ Max(e) = IF 2 \in e THEN 2 ELSE 1
    OBVIOUS
  <2>1. 2 \in Nat /\ e \in SUBSET (1 .. 2)
    BY <1>5
  <2>2. /\ Min(e) \in e /\ \A x \in e : Min(e) <= x
        /\ Max(e) \in e /\ \A x \in e : x <= Max(e)
    BY <2>1, MinMax
  <2>3. PICK y, z : y = Min(e) /\ z = Max(e)
    OBVIOUS
  <2>4. y \in {1, 2} /\ z \in {1, 2} /\ (1 \in e => y <= 1) /\ (2 \in e => 2 <= z)
        /\ y \in e /\ z \in e
    BY <1>5, <2>2, <2>3
  <2>5. y = (IF 1 \in e THEN 1 ELSE 2) /\ z = (IF 2 \in e THEN 2 ELSE 1)
    BY <2>4
  <2> QED
    BY <2>3, <2>5
<1>7. /\ o.start_execution_shard =
           (IF e = {} THEN u.start_execution_shard ELSE s[Min(e)].pv.start_execution_shard)
      /\ o.next_execution_shard =
           (IF e = {} THEN u.start_execution_shard ELSE s[Max(e)].pv.next_execution_shard)
      /\ o.contains_execution_shard <=> e # {}
      /\ o.exit_code = w.exit_code
      /\ o.global_cumulative_sum
           = SumOf([i \in DOMAIN s |-> s[i].pv.global_cumulative_sum])
  BY <1>1, <1>2, <1>4 DEF CompressOutput
<1>8. Merged(o, u, w, complete)
  BY <1>1, <1>2 DEF CompressOutput, Merged
<1>9. ExecutionLinkRules(s) <=>
        (u.contains_execution_shard /\ w.contains_execution_shard =>
            w.start_execution_shard = u.next_execution_shard)
  <2> DEFINE before(i) == {j \in e : j < i}
  <2>1. ExecutionLinkRules(s) <=>
          \A i \in e : before(i) # {} =>
            s[i].pv.start_execution_shard = s[Max(before(i))].pv.next_execution_shard
    BY <1>4 DEF ExecutionLinkRules
  <2>2. before(1) = {} /\ before(2) = IF 1 \in e THEN {1} ELSE {}
    <3>1. \A j \in e : ~(j < 1) /\ (j < 2 <=> j = 1)
      BY <1>5
    <3> QED
      BY <1>5, <3>1
  <2>3. Max({1}) = 1
    <3>1. PICK S : S = {1}
      OBVIOUS
    <3>2. 1 \in Nat /\ S \in SUBSET (1 .. 1) /\ S # {}
      BY <3>1
    <3>3. Max(S) \in S
      BY <3>2, MinMax
    <3> QED
      BY <3>1, <3>3
  <2> HIDE DEF before
  <2>4. ASSUME NEW i \in e
        PROVE  (before(i) # {} =>
                 s[i].pv.start_execution_shard = s[Max(before(i))].pv.next_execution_shard)
               <=> (i = 2 /\ 1 \in e => w.start_execution_shard = u.next_execution_shard)
    <3>1. CASE i = 1
      BY <2>2, <3>1
    <3>2. CASE i = 2 /\ 1 \in e
      BY <1>2, <2>2, <2>3, <3>2
    <3>3. CASE i = 2 /\ 1 \notin e
      BY <2>2, <3>3
    <3> QED
      BY <1>5, <3>1, <3>2, <3>3
  <2> QED
    BY <1>5, <2>1, <2>4
<1>10. CompressAccepts(s, complete) <=>
         /\ ProofRules(p) /\ ProofRules(q) /\ LinkRules(u, w) /\ AssertComplete(o)
         /\ ExecutionLinkRules(s)
  <2>1. (\A i \in 2 .. Len(s) : LinkRules(s[i - 1].pv, s[i].pv)) <=> LinkRules(u, w)
    <3>1. \A i : i \in 2 .. Len(s) <=> i = 2
      BY <1>2
    <3>2. 2 - 1 = 1
      OBVIOUS
    <3> QED
      BY <1>2, <3>1, <3>2
  <2>2. (\A i \in DOMAIN s : ProofRules(s[i])) <=> ProofRules(p) /\ ProofRules(q)
    BY <1>2
  <2> QED
    BY <1>1, <1>2, <2>1, <2>2 DEF CompressAccepts
<1>11. /\ o.start_execution_shard =
            (IF ~u.contains_execution_shard /\ w.contains_execution_shard
             THEN w.start_execution_shard ELSE u.start_execution_shard)
       /\ o.next_execution_shard =
            (IF w.contains_execution_shard THEN w.next_execution_shard
             ELSE IF u.contains_execution_shard THEN u.next_execution_shard
             ELSE u.start_execution_shard)
       /\ o.contains_execution_shard <=>
            u.contains_execution_shard \/ w.contains_execution_shard
  <2>1. e = {} <=> 1 \notin e /\ 2 \notin e
    BY <1>5
  <2> QED
    BY <1>2, <1>5, <1>6, <1>7, <2>1
<1> QED
  BY <1>1, <1>3, <1>7, <1>8, <1>9, <1>10, <1>11

\* A root program on one proof.
LEMMA CompressOne ==
  ASSUME NEW p, NEW u, u = p.pv, u.global_cumulative_sum \in Int, NEW complete,
         NEW o, o = CompressOutput(<<p>>, complete)
  PROVE  /\ Merged(o, u, u, complete)
         /\ o.global_cumulative_sum = u.global_cumulative_sum
         /\ o.contains_execution_shard <=> u.contains_execution_shard
         /\ o.start_execution_shard = u.start_execution_shard
         /\ o.exit_code = u.exit_code
         /\ o.next_execution_shard = IF u.contains_execution_shard THEN u.next_execution_shard
                                                               ELSE u.start_execution_shard
         /\ CompressAccepts(<<p>>, complete) <=> ProofRules(p) /\ AssertComplete(o)
<1>1. PICK s : s = <<p>>
  OBVIOUS
<1>2. /\ Len(s) = 1 /\ DOMAIN s = {1} /\ s[1] = p /\ s # <<>>
      /\ Head(s) = p /\ Last(s) = p
  BY <1>1 DEF Last
<1>3. SumOf([i \in DOMAIN s |-> s[i].pv.global_cumulative_sum]) = u.global_cumulative_sum
  <2>1. [i \in DOMAIN s |-> s[i].pv.global_cumulative_sum] = <<u.global_cumulative_sum>>
    BY <1>1, <1>2
  <2> QED
    BY <2>1, SumOfTwo
<1>4. PICK e : e = Executing(s)
  OBVIOUS
<1>5. e \in SUBSET {1} /\ (1 \in e <=> u.contains_execution_shard)
  BY <1>2, <1>4 DEF Executing
<1>6. e # {} => Min(e) = 1 /\ Max(e) = 1
  <2>1. 1 \in Nat /\ e \in SUBSET (1 .. 1)
    BY <1>5
  <2>2. e # {} => Min(e) \in e /\ Max(e) \in e
    BY <2>1, MinMax
  <2> QED
    BY <1>5, <2>2
<1>7. /\ o.start_execution_shard =
           (IF e = {} THEN u.start_execution_shard ELSE s[Min(e)].pv.start_execution_shard)
      /\ o.next_execution_shard =
           (IF e = {} THEN u.start_execution_shard ELSE s[Max(e)].pv.next_execution_shard)
      /\ o.contains_execution_shard <=> e # {}
      /\ o.exit_code = u.exit_code
      /\ o.global_cumulative_sum
           = SumOf([i \in DOMAIN s |-> s[i].pv.global_cumulative_sum])
  BY <1>1, <1>2, <1>4 DEF CompressOutput
<1>8. Merged(o, u, u, complete)
  BY <1>1, <1>2 DEF CompressOutput, Merged
<1>9. ExecutionLinkRules(s)
  <2>1. \A i \in e : {j \in e : j < i} = {}
    <3>1. \A i, j \in e : ~(j < i)
      BY <1>5
    <3> QED
      BY <3>1
  <2> QED
    BY <1>4, <2>1 DEF ExecutionLinkRules
<1>10. CompressAccepts(s, complete) <=> ProofRules(p) /\ AssertComplete(o)
  <2>1. \A i \in 2 .. Len(s) : FALSE
    BY <1>2
  <2> QED
    BY <1>1, <1>2, <1>9, <2>1 DEF CompressAccepts
<1>11. e = {} <=> 1 \notin e
  BY <1>5
<1> QED
  BY <1>1, <1>2, <1>3, <1>5, <1>6, <1>7, <1>8, <1>10, <1>11

\* What the compress program asserts of a proof q and the proof p before it.
Follows(p, q) ==
    /\ LinkRules(p.pv, q.pv)
    /\ p.pv.contains_execution_shard /\ q.pv.contains_execution_shard =>
         q.pv.start_execution_shard = p.pv.next_execution_shard

\* Two neighbours: when the second follows the first, their output covers both ranges.
LEMMA MergeCovers ==
  ASSUME NEW s, Shards(s), NEW d, IsSeq(d), NEW p, NEW q, NEW complete,
         NEW a, NEW b, NEW g, NEW c, NEW e, NEW h,
         Covers(s, d, p.pv, a, b, c, e), Covers(s, d, q.pv, b, g, e, h)
  PROVE  LET o == CompressOutput(<<p, q>>, complete)
         IN  /\ Follows(p, q) => Covers(s, d, o, a, g, c, h)
             /\ CompressAccepts(<<p, q>>, complete) <=>
                  ProofRules(p) /\ ProofRules(q) /\ Follows(p, q) /\ AssertComplete(o)
             /\ o.is_complete = complete
<1>1. PICK u : u = p.pv
  OBVIOUS
<1>2. PICK w : w = q.pv
  OBVIOUS
<1>3. PICK o : o = CompressOutput(<<p, q>>, complete)
  OBVIOUS
<1>4. Ranges(s, d, a, b, c, e) /\ Ranges(s, d, b, g, e, h)
  BY DEF Covers
<1>5. Len(s) \in Nat /\ Len(d) \in Nat
  BY SeqIsSeq DEF IsSeq, Shards
<1>6. /\ a \in Nat /\ b \in Nat /\ g \in Nat /\ c \in Nat /\ e \in Nat /\ h \in Nat
      /\ a <= b /\ b <= g /\ g <= Len(s) /\ c <= e /\ e <= h /\ h <= Len(d)
      /\ a \in 0 .. Len(s) /\ b \in a .. Len(s) /\ b \in 0 .. Len(s) /\ g \in b .. Len(s)
      /\ g \in a .. Len(s)
      /\ (a = b => c < e /\ b = Len(s)) /\ (c < e => b = Len(s))
      /\ (b = g => e < h /\ g = Len(s)) /\ (e < h => g = Len(s)) /\ b # 0 /\ g # 0
  BY <1>4, <1>5 DEF Ranges
<1>7. b < g => a < b /\ c = e
  BY <1>5, <1>6
<1>8. /\ TotalTo(s, a) \in Int /\ TotalTo(s, b) \in Int /\ TotalTo(s, g) \in Int
  BY <1>6, PieceSum
<1>9. /\ u.global_cumulative_sum
           = TotalTo(s, b) - TotalTo(s, a) + (IF a = 0 THEN InitialSum ELSE 0)
      /\ w.global_cumulative_sum = TotalTo(s, g) - TotalTo(s, b)
      /\ u.global_cumulative_sum \in Int /\ w.global_cumulative_sum \in Int
  BY <1>1, <1>2, <1>6, <1>8, RecursionAssumption DEF Covers, AddsUp
<1>10. /\ Merged(o, u, w, complete) /\ o.exit_code = w.exit_code
       /\ o.global_cumulative_sum = u.global_cumulative_sum + w.global_cumulative_sum
       /\ o.contains_execution_shard <=>
            u.contains_execution_shard \/ w.contains_execution_shard
       /\ o.start_execution_shard =
            IF ~u.contains_execution_shard /\ w.contains_execution_shard
            THEN w.start_execution_shard ELSE u.start_execution_shard
       /\ o.next_execution_shard =
            IF w.contains_execution_shard THEN w.next_execution_shard
            ELSE IF u.contains_execution_shard THEN u.next_execution_shard
            ELSE u.start_execution_shard
       /\ CompressAccepts(<<p, q>>, complete) <=>
            /\ ProofRules(p) /\ ProofRules(q) /\ LinkRules(u, w) /\ AssertComplete(o)
            /\ u.contains_execution_shard /\ w.contains_execution_shard =>
                 w.start_execution_shard = u.next_execution_shard
  BY <1>1, <1>2, <1>3, <1>9, CompressTwo
<1>11. /\ Starts(s, u, a, b) /\ Starts(s, w, b, g) /\ Ends(s, u, a, b, c, e)
       /\ Ends(s, w, b, g, e, h) /\ Linked(s, a, b) /\ Linked(s, b, g)
       /\ AddsUp(s, d, u, a, b, c, e) /\ AddsUp(s, d, w, b, g, e, h)
       /\ Executes(s, u, a, b) /\ Executes(s, w, b, g)
       /\ Exact(s, u, a, b, c) /\ Exact(s, w, b, g, e)
  BY <1>1, <1>2 DEF Covers
<1>12. Ranges(s, d, a, g, c, h)
  BY <1>5, <1>6 DEF Ranges
<1>13. ASSUME Follows(p, q) PROVE Covers(s, d, o, a, g, c, h)
  <2>1. /\ LinkRules(u, w)
        /\ u.contains_execution_shard /\ w.contains_execution_shard =>
             w.start_execution_shard = u.next_execution_shard
    BY <1>1, <1>2, <1>13 DEF Follows
  <2>2. b < g => Continues(s[b].pv, s[b + 1].pv)
    BY <1>7, <1>11, <2>1 DEF LinkRules, Starts, Ends, Continues
  <2>3. Linked(s, a, g)
    <3> SUFFICES ASSUME NEW i \in a + 2 .. g PROVE Continues(s[i - 1].pv, s[i].pv)
      BY DEF Linked
    <3>1. i \in a + 2 .. b \/ i \in b + 2 .. g \/ (i = b + 1 /\ b < g /\ i - 1 = b)
      BY <1>6
    <3> QED
      BY <1>11, <2>2, <3>1 DEF Linked
  <2>4. Starts(s, o, a, g)
    <3>1. CASE a < b
      <4>1. a # g /\ a < g
        BY <1>6, <3>1
      <4> QED
        BY <1>10, <1>11, <3>1, <4>1 DEF Starts, Merged
    <3>2. CASE a = b
      <4>1. a = g /\ ~(a < g)
        BY <1>6, <3>2
      <4> QED
        BY <1>10, <1>11, <3>2, <4>1 DEF Starts, Merged
    <3> QED
      BY <1>6, <3>1, <3>2
  <2>5. Ends(s, o, a, g, c, h)
    <3>1. /\ o.next_shard = s[g].pv.shard + 1
          /\ o.last_init_addr_bits = s[g].pv.last_init_addr_bits
          /\ o.last_finalize_addr_bits = s[g].pv.last_finalize_addr_bits
          /\ o.committed_value_digest = s[g].pv.committed_value_digest
          /\ o.deferred_proofs_digest = s[g].pv.deferred_proofs_digest
          /\ o.next_pc = w.next_pc
      BY <1>10, <1>11 DEF Ends, Merged
    <3>2. c = h => o.next_pc = s[g].pv.next_pc
      <4>1. c = h => e = h
        BY <1>6
      <4> QED
        BY <1>11, <3>1, <4>1 DEF Ends
    <3>3. ASSUME c < h PROVE o.next_pc = 0 /\ (a < g => s[g].pv.next_pc = 0)
      <4>1. CASE b < g
        <5>1. e < h
          BY <1>7, <3>3, <4>1
        <5> QED
          BY <1>11, <3>1, <4>1, <5>1 DEF Ends
      <4>2. CASE b = g
        <5>1. e < h /\ w.next_pc = 0 /\ w.start_pc = 0 /\ u.next_pc = 0
          BY <1>6, <1>11, <2>1, <4>2 DEF Ends, Starts, LinkRules
        <5>2. a < b => s[b].pv.next_pc = 0
          BY <1>6, <1>11, <5>1 DEF Ends
        <5> QED
          BY <3>1, <4>2, <5>1, <5>2
      <4> QED
        BY <1>6, <4>1, <4>2
    <3> QED
      BY <3>1, <3>2, <3>3 DEF Ends
  <2>6. AddsUp(s, d, o, a, g, c, h)
    <3>1. o.global_cumulative_sum
            = TotalTo(s, g) - TotalTo(s, a) + (IF a = 0 THEN InitialSum ELSE 0)
      BY <1>8, <1>9, <1>10, RecursionAssumption
    <3> QED
      BY <1>10, <1>11, <3>1 DEF AddsUp, Merged
  <2>7. Executes(s, o, a, g)
    <3>1. PICK A \in Nat, B \in Nat, G \in Nat :
             A = CpuUpTo(s, a) /\ B = CpuUpTo(s, b) /\ G = CpuUpTo(s, g)
      BY <1>6, CpuStep
    <3>2. PICK x \in Int, y \in Int : x = u.start_execution_shard /\ y = w.start_execution_shard
      BY <1>11 DEF Executes
    <3>3. PICK z \in Int : z = o.start_execution_shard
      BY <1>10, <3>2
    <3>4. /\ u.contains_execution_shard =>
               z = x /\ u.next_execution_shard = x + B - A
          /\ ~u.contains_execution_shard => B = A
          /\ w.contains_execution_shard => w.next_execution_shard = y + G - B
          /\ ~w.contains_execution_shard => G = B
          /\ ~u.contains_execution_shard /\ w.contains_execution_shard => z = y
          /\ u.contains_execution_shard /\ w.contains_execution_shard =>
               y = u.next_execution_shard
      BY <1>10, <1>11, <2>1, <3>1, <3>2, <3>3 DEF Executes
    <3>5. w.contains_execution_shard => y - B = z - A
      BY <3>4
    <3>6. o.contains_execution_shard => o.next_execution_shard = z + G - A
      BY <1>10, <3>4, <3>5
    <3>7. ~o.contains_execution_shard => G = A
      BY <1>10, <3>4
    <3>8. o.contains_execution_shard <=> \E i \in a + 1 .. g : s[i].cpu
      <4>1. \A i : i \in a + 1 .. g <=> i \in a + 1 .. b \/ i \in b + 1 .. g
        BY <1>6
      <4>2. (\E i \in a + 1 .. b : s[i].cpu) <=> u.contains_execution_shard
        BY <1>11 DEF Executes
      <4>3. (\E i \in b + 1 .. g : s[i].cpu) <=> w.contains_execution_shard
        BY <1>11 DEF Executes
      <4> QED
        BY <1>10, <4>1, <4>2, <4>3
    <3>9. ASSUME NEW i \in a + 1 .. g, s[i].cpu
          PROVE  s[i].pv.execution_shard = z + CpuUpTo(s, i) - A - 1
      <4>1. i \in Nat
        BY <1>6
      <4>2. PICK k \in Nat : k = CpuUpTo(s, i)
        BY <4>1, CpuStep
      <4>3. CASE i \in a + 1 .. b
        <5>1. s[i].pv.execution_shard = x + k - A - 1 /\ u.contains_execution_shard
          BY <1>11, <3>1, <3>2, <3>9, <4>2, <4>3 DEF Executes
        <5> QED
          BY <3>4, <4>2, <5>1
      <4>4. CASE i \in b + 1 .. g
        <5>1. s[i].pv.execution_shard = y + k - B - 1 /\ w.contains_execution_shard
          BY <1>11, <3>1, <3>2, <3>9, <4>2, <4>4 DEF Executes
        <5> QED
          BY <3>5, <4>2, <5>1
      <4> QED
        BY <1>6, <4>3, <4>4
    <3> QED
      BY <3>1, <3>3, <3>6, <3>7, <3>8, <3>9 DEF Executes
  <2>8. Exact(s, o, a, g, c)
    <3>1. o.exit_code = 0
      BY <1>10, <1>11 DEF Exact
    <3>2. IsValues(o) /\ o.contains_execution_shard \in BOOLEAN
      BY <1>3, OutputsAreValues
    <3>3. a < g => a < b
      BY <1>5, <1>6
    <3>4. ~o.contains_execution_shard =>
            /\ ~u.contains_execution_shard
            /\ o.start_execution_shard = u.start_execution_shard
            /\ o.next_execution_shard = u.start_execution_shard
      BY <1>10
    <3> QED
      BY <1>11, <3>1, <3>2, <3>3, <3>4 DEF Exact
  <2> QED
    BY <1>12, <2>3, <2>4, <2>5, <2>6, <2>7, <2>8 DEF Covers
<1> QED
  BY <1>1, <1>2, <1>3, <1>10, <1>13 DEF Follows, Merged

\* Two neighbours that the compress program accepts: their output covers both ranges.
LEMMA Merge ==
  ASSUME NEW s, Shards(s), NEW d, IsSeq(d), NEW p, NEW q, NEW complete,
         NEW a, NEW b, NEW g, NEW c, NEW e, NEW h,
         Covers(s, d, p.pv, a, b, c, e), Covers(s, d, q.pv, b, g, e, h),
         CompressAccepts(<<p, q>>, complete)
  PROVE  /\ Covers(s, d, CompressOutput(<<p, q>>, complete), a, g, c, h)
         /\ AssertComplete(CompressOutput(<<p, q>>, complete))
BY MergeCovers

\* A root program keeps what its proof covers.
LEMMA Root ==
  ASSUME NEW s, Shards(s), NEW d, IsSeq(d), NEW p, NEW complete,
         NEW a, NEW b, NEW c, NEW e, Covers(s, d, p.pv, a, b, c, e)
  PROVE  LET o == CompressOutput(<<p>>, complete)
         IN  /\ Covers(s, d, o, a, b, c, e)
             /\ CompressAccepts(<<p>>, complete) <=> ProofRules(p) /\ AssertComplete(o)
             /\ o.is_complete = complete
<1>1. PICK u : u = p.pv
  OBVIOUS
<1>2. PICK o : o = CompressOutput(<<p>>, complete)
  OBVIOUS
<1>3. Len(s) \in Nat /\ Len(d) \in Nat
  BY SeqIsSeq DEF IsSeq, Shards
<1>4. a \in 0 .. Len(s) /\ b \in a .. Len(s) /\ a \in Nat /\ b \in Nat
  BY <1>3 DEF Covers, Ranges
<1>5. TotalTo(s, a) \in Int /\ TotalTo(s, b) \in Int
  BY <1>4, PieceSum
<1>6. u.global_cumulative_sum \in Int
  BY <1>1, <1>5, RecursionAssumption DEF Covers, AddsUp
<1>7. /\ Merged(o, u, u, complete)
      /\ o.global_cumulative_sum = u.global_cumulative_sum
      /\ o.contains_execution_shard <=> u.contains_execution_shard
      /\ o.start_execution_shard = u.start_execution_shard
      /\ o.exit_code = u.exit_code
      /\ o.next_execution_shard = IF u.contains_execution_shard THEN u.next_execution_shard
                                                            ELSE u.start_execution_shard
      /\ CompressAccepts(<<p>>, complete) <=> ProofRules(p) /\ AssertComplete(o)
  BY <1>1, <1>2, <1>6, CompressOne
<1>8. /\ Ranges(s, d, a, b, c, e) /\ Linked(s, a, b) /\ Starts(s, u, a, b)
      /\ Ends(s, u, a, b, c, e) /\ AddsUp(s, d, u, a, b, c, e) /\ Executes(s, u, a, b)
      /\ Exact(s, u, a, b, c)
  BY <1>1 DEF Covers
<1>9. Starts(s, o, a, b) /\ Ends(s, o, a, b, c, e)
  BY <1>7, <1>8 DEF Starts, Ends, Merged
<1>10. AddsUp(s, d, o, a, b, c, e)
  BY <1>7, <1>8 DEF AddsUp, Merged
<1>11. Executes(s, o, a, b)
  BY <1>7, <1>8 DEF Executes
<1>12. Exact(s, o, a, b, c)
  <2>1. IsValues(o) /\ o.contains_execution_shard \in BOOLEAN
    BY <1>2, OutputsAreValues
  <2> QED
    BY <1>7, <1>8, <2>1 DEF Exact
<1> QED
  BY <1>2, <1>7, <1>8, <1>9, <1>10, <1>11, <1>12 DEF Covers, Merged

-----------------------------------------------------------------------------
(* A complete proof of everything. *)

\* Every rule of verify that the tree enforces, on the core proof s and the
\* deferred proofs d.
ObeysCoreRules(s, d) ==
    /\ NotEmpty(s) /\ FirstHasCpu(s) /\ CpuDegreesFit(s)
    /\ ShardsCountUp(s) /\ ExecutionShardsCountUp(s)
    /\ ProgramCounterChain(s) /\ ExitCodesZero(s)
    /\ MemoryAddressChain(s) /\ NotTooManyShards(s)
    /\ \A i \in DOMAIN s : s[i].valid
    /\ InitialSum + SumOf([i \in DOMAIN s |-> s[i].sum]) = 0
    /\ Last(s).pv.deferred_proofs_digest = HashDeferredProofs(0, d)

\* A proof that covers all shards and all deferred proofs, and is complete, leaves
\* no rule open.
LEMMA CompleteProof ==
  ASSUME NEW s, Shards(s), NEW d, IsSeq(d), NEW v,
         Covers(s, d, v, 0, Len(s), 0, Len(d)), v.is_complete, AssertComplete(v),
         \A i \in 1 .. Len(s) : ShardRules(s[i]), FirstShardRules(s[1].pv, TRUE)
  PROVE  ObeysCoreRules(s, d)
<1>1. PICK n \in Nat : n = Len(s) /\ DOMAIN s = 1 .. n
  BY SeqIsSeq DEF IsSeq, Shards
<1>2. PICK m \in Nat : m = Len(d)
  BY SeqIsSeq DEF IsSeq
<1>3. /\ n # 0 /\ 1 \in 1 .. n /\ n \in 1 .. n /\ 0 < n /\ 0 \in 0 .. n /\ n \in 0 .. n
      /\ \A i \in 1 .. n : i # 1 => i \in 0 + 2 .. n /\ i - 1 \in 1 .. n
      /\ \A i \in 1 .. n : i \in 0 + 1 .. n
      /\ 0 + 1 = 1
  BY <1>1 DEF Covers, Ranges
<1>4. /\ v.next_pc = 0 /\ v.start_shard = 1 /\ v.start_execution_shard = 1
      /\ v.end_reconstruct_deferred_digest = v.deferred_proofs_digest
      /\ v.global_cumulative_sum = 0
  BY DEF AssertComplete
<1>5. /\ Linked(s, 0, n) /\ Starts(s, v, 0, n) /\ Ends(s, v, 0, n, 0, m)
      /\ AddsUp(s, d, v, 0, n, 0, m) /\ Executes(s, v, 0, n)
  BY <1>1, <1>2 DEF Covers
<1>6. ASSUME NEW i \in 1 .. n, i # 1 PROVE Continues(s[i - 1].pv, s[i].pv)
  BY <1>3, <1>5, <1>6 DEF Linked
<1>7. ASSUME NEW i \in 1 .. n PROVE ShardRules(s[i])
  BY <1>1
<1>8. ShardsCountUp(s)
  <2> DEFINE G == {i \in Nat : i + 1 <= n => s[i + 1].pv.shard = i + 1}
  <2>1. 0 \in G
    BY <1>3, <1>4, <1>5 DEF Starts
  <2>2. ASSUME NEW i \in Nat, i \in G PROVE i + 1 \in G
    <3> SUFFICES ASSUME (i + 1) + 1 <= n PROVE s[(i + 1) + 1].pv.shard = (i + 1) + 1
      OBVIOUS
    <3>1. (i + 1) + 1 \in 1 .. n /\ (i + 1) + 1 # 1 /\ ((i + 1) + 1) - 1 = i + 1 /\ i + 1 <= n
      OBVIOUS
    <3>2. Continues(s[i + 1].pv, s[(i + 1) + 1].pv)
      BY <1>6, <3>1
    <3>3. s[i + 1].pv.shard = i + 1
      BY <2>2, <3>1
    <3> QED
      BY <3>2, <3>3 DEF Continues
  <2> HIDE DEF G
  <2>3. \A i \in Nat : i \in G
    BY <2>1, <2>2, Induction
  <2>4. ASSUME NEW i \in 1 .. n PROVE s[i].pv.shard = i
    <3>1. i - 1 \in Nat /\ (i - 1) + 1 = i /\ i <= n
      OBVIOUS
    <3>2. i - 1 \in G
      BY <2>3, <3>1
    <3> QED
      BY <3>1, <3>2 DEF G
  <2> QED
    BY <1>1, <2>4 DEF ShardsCountUp
<1>9. NotEmpty(s) /\ FirstHasCpu(s) /\ CpuDegreesFit(s) /\ NotTooManyShards(s)
  <2>1. s # <<>>
    BY <1>1, <1>3
  <2>2. s[1].cpu
    BY <1>1, <1>3, <1>7, <1>8 DEF ShardRules, ShardsCountUp
  <2>3. CpuDegreesFit(s)
    BY <1>1, <1>7 DEF ShardRules, CpuDegreesFit
  <2>4. n < MaxShards
    BY <1>1, <1>3, <1>7, <1>8, RecursionAssumption DEF ShardRules, ShardsCountUp
  <2>5. n <= MaxShards
    BY <2>4, RecursionAssumption
  <2> QED
    BY <1>1, <2>1, <2>2, <2>3, <2>5 DEF NotEmpty, FirstHasCpu, NotTooManyShards
<1>10. ExecutionShardsCountUp(s)
  <2> SUFFICES ASSUME NEW i \in 1 .. n, s[i].cpu
               PROVE  s[i].pv.execution_shard = CpuUpTo(s, i)
    BY <1>1 DEF ExecutionShardsCountUp
  <2>1. CpuUpTo(s, 0) = 0 /\ CpuUpTo(s, i) \in Nat
    BY CpuStep
  <2>2. s[i].pv.execution_shard = 1 + CpuUpTo(s, i) - 0 - 1
    BY <1>3, <1>4, <1>5, <2>1 DEF Executes
  <2> QED
    BY <2>1, <2>2
<1>11. s[n].pv.next_pc = 0
  <2>1. CASE m = 0
    BY <1>4, <1>5, <2>1 DEF Ends
  <2>2. CASE m # 0
    <3>1. 0 < m
      BY <2>2
    <3> QED
      BY <1>3, <1>5, <3>1 DEF Ends
  <2> QED
    BY <2>1, <2>2
<1>12. /\ s[1].pv.start_pc = PcStart /\ s[1].pv.previous_init_addr_bits = ZeroAddrBits
       /\ s[1].pv.previous_finalize_addr_bits = ZeroAddrBits
  BY DEF FirstShardRules
<1>13. ProgramCounterChain(s)
  <2> SUFFICES ASSUME NEW i \in 1 .. n
               PROVE  /\ s[i].pv.start_pc = IF i = 1 THEN PcStart ELSE s[i - 1].pv.next_pc
                      /\ ~s[i].cpu => s[i].pv.start_pc = s[i].pv.next_pc
                      /\ s[i].cpu => s[i].pv.start_pc # 0
                      /\ i = Len(s) => s[i].pv.next_pc = 0
    BY <1>1 DEF ProgramCounterChain
  <2>1. s[i].pv.start_pc = IF i = 1 THEN PcStart ELSE s[i - 1].pv.next_pc
    BY <1>6, <1>12 DEF Continues
  <2>2. /\ ~s[i].cpu => s[i].pv.start_pc = s[i].pv.next_pc
        /\ s[i].cpu => s[i].pv.start_pc # 0
    BY <1>7 DEF ShardRules
  <2> QED
    BY <1>1, <1>11, <2>1, <2>2
<1>14. ExitCodesZero(s) /\ \A i \in DOMAIN s : s[i].valid
  BY <1>1, <1>7 DEF ShardRules, ExitCodesZero
<1>15. MemoryAddressChain(s)
  <2> SUFFICES ASSUME NEW i \in 1 .. n
               PROVE  /\ s[i].pv.previous_init_addr_bits =
                           IF i = 1 THEN ZeroAddrBits ELSE s[i - 1].pv.last_init_addr_bits
                      /\ s[i].pv.previous_finalize_addr_bits =
                           IF i = 1 THEN ZeroAddrBits ELSE s[i - 1].pv.last_finalize_addr_bits
                      /\ ~s[i].memInit =>
                           s[i].pv.previous_init_addr_bits = s[i].pv.last_init_addr_bits
                      /\ ~s[i].memFinalize =>
                           s[i].pv.previous_finalize_addr_bits = s[i].pv.last_finalize_addr_bits
    BY <1>1 DEF MemoryAddressChain
  <2>1. /\ s[i].pv.previous_init_addr_bits =
             IF i = 1 THEN ZeroAddrBits ELSE s[i - 1].pv.last_init_addr_bits
        /\ s[i].pv.previous_finalize_addr_bits =
             IF i = 1 THEN ZeroAddrBits ELSE s[i - 1].pv.last_finalize_addr_bits
    BY <1>6, <1>12 DEF Continues
  <2>2. /\ ~s[i].memInit => s[i].pv.previous_init_addr_bits = s[i].pv.last_init_addr_bits
        /\ ~s[i].memFinalize =>
             s[i].pv.previous_finalize_addr_bits = s[i].pv.last_finalize_addr_bits
    BY <1>7 DEF ShardRules
  <2> QED
    BY <2>1, <2>2
<1>16. InitialSum + SumOf([i \in DOMAIN s |-> s[i].sum]) = 0
  <2>1. /\ TotalTo(s, 0) = 0 /\ TotalTo(s, n) \in Int
        /\ SumOf([i \in DOMAIN s |-> s[i].sum]) = TotalTo(s, n)
    BY <1>1, <1>3, PieceSum
  <2>2. 0 = TotalTo(s, n) - 0 + InitialSum
    BY <1>4, <1>5, <2>1 DEF AddsUp
  <2> QED
    BY <2>1, <2>2, RecursionAssumption
<1>17. Last(s).pv.deferred_proofs_digest = HashDeferredProofs(0, d)
  <2>1. DigestTo(d, m) = HashDeferredProofs(0, d)
    <3>1. 0 \in 0 .. Len(d)
      BY <1>2
    <3> QED
      BY <1>2, <3>1, PieceDigest
  <2>2. Last(s) = s[n]
    BY <1>1 DEF Last
  <2> QED
    BY <1>4, <1>5, <2>1, <2>2 DEF AddsUp, Ends
<1> QED
  BY <1>8, <1>9, <1>10, <1>13, <1>14, <1>15, <1>16, <1>17 DEF ObeysCoreRules

-----------------------------------------------------------------------------
(* The first layer. *)

\* The end of chunk k of n things in chunks of z.
Cut(n, z, k) == IF k * z > n THEN n ELSE k * z

\* N chunks are enough, each begins where the one before it ends, and none is empty.
CutsWell(n, z, N) ==
    /\ N \in Nat /\ (n = 0 <=> N = 0) /\ Cut(n, z, 0) = 0 /\ Cut(n, z, N) = n
    /\ \A k \in 1 .. N :
         /\ Cut(n, z, k - 1) = (k - 1) * z /\ (k - 1) * z \in 0 .. n
         /\ Cut(n, z, k) \in (k - 1) * z .. n /\ (k - 1) * z < Cut(n, z, k)
         /\ (k - 1) * z = 0 <=> k = 1
    /\ \A i \in 1 .. n : \E k \in 1 .. N : i \in (k - 1) * z + 1 .. Cut(n, z, k)

\* The chunks of the first layer end where the next one begins, and the last at the end.
LEMMA Cutting ==
  ASSUME NEW n \in Nat, NEW z \in Nat \ {0}, NEW N, N = (n + z - 1) \div z
  PROVE  CutsWell(n, z, N)
<1>1. N \in Nat /\ n <= N * z /\ N * z <= n + z - 1 /\ N * z \in Nat
  <2>1. N \in Nat /\ n <= N * z /\ N * z <= n + z - 1
    BY Division
  <2> QED
    BY <2>1
<1>2. Cut(n, z, 0) = 0
  <2>1. 0 * z = 0
    OBVIOUS
  <2> QED
    BY <2>1 DEF Cut
<1>3. Cut(n, z, N) = n
  <2>1. PICK y \in Nat : y = N * z
    BY <1>1
  <2>2. (IF y > n THEN n ELSE y) = n
    BY <1>1, <2>1
  <2> QED
    BY <2>1, <2>2 DEF Cut
<1>4. n = 0 <=> N = 0
  <2>1. N = 0 => N * z = 0
    OBVIOUS
  <2>2. ASSUME N # 0 PROVE n # 0
    <3>1. PICK j \in Nat : N = j + 1
      <4>1. N - 1 \in Nat /\ N = (N - 1) + 1
        BY <1>1, <2>2
      <4> QED
        BY <4>1
    <3>2. N * z = j * z + z /\ j * z \in Nat
      BY <3>1
    <3> QED
      BY <1>1, <3>2
  <2> QED
    BY <1>1, <2>1, <2>2
<1>5. ASSUME NEW k \in 1 .. N
      PROVE  /\ Cut(n, z, k - 1) = (k - 1) * z /\ (k - 1) * z \in 0 .. n
             /\ Cut(n, z, k) \in (k - 1) * z .. n /\ (k - 1) * z < Cut(n, z, k)
             /\ (k - 1) * z = 0 <=> k = 1
  <2>1. /\ k * z \in Nat /\ (k - 1) * z \in Nat /\ (k - 1) * z + z = k * z
        /\ k < N => k * z + z <= N * z
    BY <1>1, ChunkBounds
  <2>2. PICK x \in Nat, y \in Nat, w \in Nat : x = (k - 1) * z /\ y = k * z /\ w = N * z
    BY <1>1, <2>1
  <2>3. x + z = y /\ y <= w /\ w <= n + z - 1
    <3>1. k = N => y = w
      BY <2>2
    <3>2. k < N \/ k = N
      BY <1>1
    <3> QED
      BY <1>1, <2>1, <2>2, <3>1, <3>2
  <2>4. x < n /\ x <= n /\ ~(x > n) /\ x < y
    BY <2>3
  <2>5. Cut(n, z, k - 1) = x
    BY <2>2, <2>4 DEF Cut
  <2>6. Cut(n, z, k) = IF y > n THEN n ELSE y
    BY <2>2 DEF Cut
  <2>7. x = 0 <=> k = 1
    <3>1. k = 1 => x = 0
      BY <2>2
    <3>2. ASSUME k # 1 PROVE x # 0
      <4>1. PICK j \in Nat : k - 1 = j + 1
        <5>1. k - 2 \in Nat /\ k - 1 = (k - 2) + 1
          BY <1>1, <3>2
        <5> QED
          BY <5>1
      <4>2. (j + 1) * z = j * z + z /\ j * z \in Nat
        OBVIOUS
      <4> QED
        BY <2>2, <4>1, <4>2
    <3> QED
      BY <3>1, <3>2
  <2>8. (IF y > n THEN n ELSE y) \in x .. n /\ x < (IF y > n THEN n ELSE y) /\ x \in 0 .. n
    BY <2>4
  <2> QED
    BY <2>2, <2>5, <2>6, <2>7, <2>8
<1>6. ASSUME NEW i \in 1 .. n
      PROVE  \E k \in 1 .. N : i \in (k - 1) * z + 1 .. Cut(n, z, k)
  <2>1. PICK j \in Nat, r \in 0 .. z - 1 : i - 1 = z * j + r
    <3>1. i - 1 \in Nat
      OBVIOUS
    <3>2. PICK a \in Nat : a = i - 1
      BY <3>1
    <3>3. a = z * (a \div z) + (a % z) /\ a % z \in 0 .. z - 1 /\ a \div z \in Nat
      <4>1. a = z * (a \div z) + (a % z)
        BY DivMod
      <4>2. a % z \in 0 .. z - 1 /\ a \div z \in Nat
        OBVIOUS
      <4> QED
        BY <4>1, <4>2
    <3> QED
      BY <3>2, <3>3
  <2>2. z * j = j * z /\ j * z \in Nat /\ (j + 1) * z = j * z + z /\ (j + 1) - 1 = j
    OBVIOUS
  <2>3. j * z + 1 <= i /\ i <= (j + 1) * z
    BY <2>1, <2>2
  <2>4. j + 1 \in 1 .. N
    <3>1. CASE j < N
      BY <1>1, <3>1
    <3>2. CASE N <= j
      <4>1. PICK y \in Nat : j = N + y
        <5>1. j - N \in Nat /\ j = N + (j - N)
          BY <1>1, <3>2
        <5> QED
          BY <5>1
      <4>2. (N + y) * z = N * z + y * z /\ y * z \in Nat
        BY <1>1
      <4>3. n <= j * z
        BY <1>1, <4>1, <4>2
      <4> QED
        BY <2>2, <2>3, <4>3
    <3> QED
      BY <1>1, <3>1, <3>2
  <2>5. i <= Cut(n, z, j + 1)
    <3>1. PICK y \in Nat : y = (j + 1) * z
      BY <2>2
    <3>2. i <= (IF y > n THEN n ELSE y)
      BY <2>3, <3>1
    <3> QED
      BY <3>1, <3>2 DEF Cut
  <2>6. Cut(n, z, j + 1) \in Int
    BY <2>2 DEF Cut
  <2>7. i \in ((j + 1) - 1) * z + 1 .. Cut(n, z, j + 1)
    BY <2>2, <2>3, <2>5, <2>6
  <2> QED
    BY <2>4, <2>7
<1> QED
  BY <1>1, <1>2, <1>3, <1>4, <1>5, <1>6 DEF CutsWell

\* The proofs in f divide the shards and the deferred proofs among them, in order:
\* proof k has the shards from A[k - 1] to A[k], and the deferred proofs from B[k - 1]
\* to B[k].
Divides(f, s, d, A, B) ==
    /\ A[0] = 0 /\ A[Len(f)] = Len(s) /\ B[0] = 0 /\ B[Len(f)] = Len(d)
    /\ \A k \in 1 .. Len(f) :
         /\ Covers(s, d, f[k].pv, A[k - 1], A[k], B[k - 1], B[k])
         /\ AssertComplete(f[k].pv)

\* Some such division exists.
Divided(f, s, d) == \E A, B : Divides(f, s, d, A, B)

\* What the programs of the first layer have asserted of every shard and of every
\* deferred proof.
RulesOfEach(s, d) ==
    /\ \A i \in 1 .. Len(s) : ShardRules(s[i])
    /\ FirstShardRules(s[1].pv, TRUE)
    /\ DeferredAccepts(d)

\* c is the list a of m elements, and then the list b of n.
Joined(c, a, b, m, n) ==
    /\ IsSeq(c) /\ Len(c) = m + n
    /\ \A k \in 1 .. m : c[k] = a[k]
    /\ \A k \in 1 .. n : c[m + k] = b[k]

\* The elements of two sequences in one.
LEMMA InConcat ==
  ASSUME NEW m \in Nat, NEW n \in Nat, NEW S, NEW a \in [1 .. m -> S], NEW b \in [1 .. n -> S]
  PROVE  Joined(a \o b, a, b, m, n)
<1>1. a \in Seq(S) /\ b \in Seq(S) /\ Len(a) = m /\ Len(b) = n
  BY FunctionIsSeq
<1>2. a \o b \in Seq(S) /\ Len(a \o b) = m + n
  BY <1>1
<1>3. IsSeq(a \o b)
  BY <1>2, SeqIsSeq
<1>4. \A k \in 1 .. m : (a \o b)[k] = a[k]
  BY <1>1
<1>5. ASSUME NEW k \in 1 .. n PROVE (a \o b)[m + k] = b[k]
  <2>1. m + k \in 1 .. m + n /\ ~(m + k <= m) /\ (m + k) - m = k
    OBVIOUS
  <2> QED
    BY <1>1, <2>1
<1> QED
  BY <1>2, <1>3, <1>4, <1>5 DEF Joined

\* A first layer that is accepted divides the core proof and the deferred proofs.
LEMMA FirstLayerDivides ==
  ASSUME Shards(proof), proof # <<>>, IsSeq(deferred), batchSize \in Nat \ {0},
         FirstLayerAccepted
  PROVE  /\ Divided(FirstLayer, proof, deferred)
         /\ RulesOfEach(proof, deferred)
         /\ IsSeq(FirstLayer) /\ Len(FirstLayer) # 0
<1>1. PICK s, d, z : s = proof /\ d = deferred /\ z = batchSize
  OBVIOUS
<1>2. PICK n \in Nat : n = Len(s) /\ n # 0 /\ DOMAIN s = 1 .. n
  <2>1. s \in Seq(Range(s))
    BY <1>1 DEF Shards, IsSeq
  <2> QED
    BY <1>1, <2>1
<1>3. PICK m \in Nat : m = Len(d) /\ DOMAIN d = 1 .. m
  BY <1>1, SeqIsSeq DEF IsSeq
<1>4. z \in Nat \ {0} /\ Shards(s) /\ s # <<>> /\ IsSeq(d)
  BY <1>1
<1>5. PICK N \in Nat : N = (n + z - 1) \div z /\ CutsWell(n, z, N)
  <2>1. CutsWell(n, z, (n + z - 1) \div z)
    BY <1>4, Cutting
  <2>2. (n + z - 1) \div z \in Nat
    BY <2>1 DEF CutsWell
  <2> QED
    BY <2>1, <2>2
<1>6. PICK M \in Nat : M = (m + z - 1) \div z /\ CutsWell(m, z, M)
  <2>1. CutsWell(m, z, (m + z - 1) \div z)
    BY <1>4, Cutting
  <2>2. (m + z - 1) \div z \in Nat
    BY <2>1 DEF CutsWell
  <2> QED
    BY <2>1, <2>2
<1>7. /\ N # 0 /\ Cut(n, z, 0) = 0 /\ Cut(n, z, N) = n
      /\ \A k \in 1 .. N :
           /\ Cut(n, z, k - 1) = (k - 1) * z /\ (k - 1) * z \in 0 .. n
           /\ Cut(n, z, k) \in (k - 1) * z .. n /\ (k - 1) * z < Cut(n, z, k)
           /\ (k - 1) * z = 0 <=> k = 1
      /\ \A i \in 1 .. n : \E k \in 1 .. N : i \in (k - 1) * z + 1 .. Cut(n, z, k)
  BY <1>2, <1>5 DEF CutsWell
<1>8. /\ Cut(m, z, 0) = 0 /\ Cut(m, z, M) = m
      /\ \A k \in 1 .. M :
           /\ Cut(m, z, k - 1) = (k - 1) * z /\ (k - 1) * z \in 0 .. m
           /\ Cut(m, z, k) \in (k - 1) * z .. m /\ (k - 1) * z < Cut(m, z, k)
      /\ \A i \in 1 .. m : \E k \in 1 .. M : i \in (k - 1) * z + 1 .. Cut(m, z, k)
  BY <1>6 DEF CutsWell
<1>9. PICK x : x = CoreIsComplete
  OBVIOUS
<1> DEFINE V(k) == CoreOutput(SubSeq(s, (k - 1) * z + 1, Cut(n, z, k)), k = 1, x)
           W(k) == DeferredOutput(SubSeq(d, (k - 1) * z + 1, Cut(m, z, k)),
                                  DigestTo(d, (k - 1) * z), Last(s).pv)
           P == [k \in 1 .. N |-> Made(V(k), "reduce")]
           Q == [k \in 1 .. M |-> Made(W(k), "reduce")]
<1>10. /\ DOMAIN Chunks = 1 .. N
       /\ \A k \in 1 .. N : Chunks[k] = SubSeq(s, (k - 1) * z + 1, Cut(n, z, k))
  BY <1>1, <1>2, <1>5, Zenon DEF Chunks, Cut
<1>11. /\ DOMAIN DeferredChunks = 1 .. M
       /\ \A k \in 1 .. M : DeferredChunks[k] = SubSeq(d, (k - 1) * z + 1, Cut(m, z, k))
  BY <1>1, <1>3, <1>6, Zenon DEF DeferredChunks, Cut
<1>12. FirstLayer = P \o Q
  <2>1. [k \in DOMAIN Chunks |-> Made(CoreOutput(Chunks[k], k = 1, CoreIsComplete), "reduce")]
          = P
    BY <1>9, <1>10, Zenon
  <2>2. [k \in DOMAIN DeferredChunks |->
          Made(DeferredOutput(DeferredChunks[k], DeferredStart(k), Last(proof).pv), "reduce")]
          = Q
    <3>1. \A k : DeferredStart(k) = DigestTo(d, (k - 1) * z)
      BY <1>1, Zenon DEF DeferredStart, DigestTo
    <3> QED
      BY <1>1, <1>11, <3>1, Zenon
  <2> QED
    BY <2>1, <2>2, Zenon DEF FirstLayer
<1>13. /\ \A k \in 1 .. N : CoreAccepts(SubSeq(s, (k - 1) * z + 1, Cut(n, z, k)), k = 1, x)
       /\ \A k \in 1 .. M : DeferredAccepts(SubSeq(d, (k - 1) * z + 1, Cut(m, z, k)))
  <2>1. ASSUME NEW k \in 1 .. N
        PROVE  CoreAccepts(SubSeq(s, (k - 1) * z + 1, Cut(n, z, k)), k = 1, x)
    <3>1. CoreAccepts(Chunks[k], k = 1, x)
      BY <1>9, <1>10, Zenon DEF FirstLayerAccepted
    <3> QED
      BY <1>10, <3>1, Zenon
  <2>2. ASSUME NEW k \in 1 .. M
        PROVE  DeferredAccepts(SubSeq(d, (k - 1) * z + 1, Cut(m, z, k)))
    <3>1. DeferredAccepts(DeferredChunks[k])
      BY <1>11, Zenon DEF FirstLayerAccepted
    <3> QED
      BY <1>11, <3>1, Zenon
  <2> QED
    BY <2>1, <2>2, Zenon
<1>14. ASSUME NEW k \in 1 .. N
       PROVE  /\ Covers(s, d, V(k), Cut(n, z, k - 1), Cut(n, z, k), 0, 0)
              /\ AssertComplete(V(k))
              /\ \A i \in (k - 1) * z + 1 .. Cut(n, z, k) : ShardRules(s[i])
              /\ FirstShardRules(s[(k - 1) * z + 1].pv, k = 1)
  <2>1. PICK a : a = (k - 1) * z
    OBVIOUS
  <2>2. PICK b : b = Cut(n, z, k)
    OBVIOUS
  <2>3. a \in 0 .. Len(s) /\ b \in a .. Len(s) /\ a < b /\ Cut(n, z, k - 1) = a
        /\ (k = 1 <=> a = 0)
    BY <1>2, <1>7, <2>1, <2>2
  <2>4. CoreAccepts(SubSeq(s, a + 1, b), k = 1, x)
    BY <1>13, <2>1, <2>2
  <2>5. PICK first : first = (k = 1)
    OBVIOUS
  <2>6. CoreAccepts(SubSeq(s, a + 1, b), first, x) /\ (first <=> a = 0)
    BY <2>3, <2>4, <2>5
  <2>7. /\ Covers(s, d, CoreOutput(SubSeq(s, a + 1, b), first, x), a, b, 0, 0)
        /\ AssertComplete(CoreOutput(SubSeq(s, a + 1, b), first, x))
        /\ \A i \in a + 1 .. b : ShardRules(s[i])
        /\ FirstShardRules(s[a + 1].pv, first)
    BY <1>4, <2>3, <2>6, CoreLeaf
  <2> QED
    BY <2>1, <2>2, <2>3, <2>5, <2>7
<1>15. ASSUME NEW k \in 1 .. M
       PROVE  /\ Covers(s, d, W(k), n, n, Cut(m, z, k - 1), Cut(m, z, k))
              /\ AssertComplete(W(k))
  <2>1. PICK a : a = (k - 1) * z
    OBVIOUS
  <2>2. PICK b : b = Cut(m, z, k)
    OBVIOUS
  <2>3. a \in 0 .. Len(d) /\ b \in a .. Len(d) /\ a < b /\ Cut(m, z, k - 1) = a
    BY <1>3, <1>8, <2>1, <2>2
  <2>4. LET v == DeferredOutput(SubSeq(d, a + 1, b), DigestTo(d, a), Last(s).pv)
        IN  Covers(s, d, v, Len(s), Len(s), a, b) /\ AssertComplete(v)
    BY <1>4, <2>3, DeferredLeaf
  <2> QED
    BY <1>2, <2>1, <2>2, <2>3, <2>4
<1> HIDE DEF V, W
<1>16. /\ IsSeq(FirstLayer) /\ Len(FirstLayer) = N + M
       /\ \A k \in 1 .. N : FirstLayer[k].pv = V(k)
       /\ \A k \in 1 .. M : FirstLayer[N + k].pv = W(k)
  <2>1. PICK S :
          S = {Made(V(k), "reduce") : k \in 1 .. N} \cup {Made(W(k), "reduce") : k \in 1 .. M}
    OBVIOUS
  <2>2. P \in [1 .. N -> S] /\ Q \in [1 .. M -> S]
    BY <2>1
  <2>3. \A k \in 1 .. N : P[k].pv = V(k)
    BY DEF Made
  <2>4. \A k \in 1 .. M : Q[k].pv = W(k)
    BY DEF Made
  <2> HIDE DEF P, Q
  <2> QED
    <3>1. Joined(P \o Q, P, Q, N, M)
      BY <2>2, InConcat
    <3> QED
      BY <1>12, <2>3, <2>4, <3>1 DEF Joined
<1> HIDE DEF P, Q
<1>17. Divided(FirstLayer, s, d)
  <2> DEFINE A == [k \in 0 .. N + M |-> IF k <= N THEN Cut(n, z, k) ELSE n]
             B == [k \in 0 .. N + M |-> IF k <= N THEN 0 ELSE Cut(m, z, k - N)]
  <2>1. /\ A[0] = 0 /\ B[0] = 0
        /\ A[N + M] = n
        /\ B[N + M] = m
    <3>1. 0 \in 0 .. N + M /\ N + M \in 0 .. N + M /\ 0 <= N /\ (N + M <= N <=> M = 0)
          /\ (N + M) - N = M /\ (M = 0 => N + M = N)
      OBVIOUS
    <3>2. A[N + M] = (IF N + M <= N THEN Cut(n, z, N + M) ELSE n)
          /\ B[N + M] = (IF N + M <= N THEN 0 ELSE Cut(m, z, (N + M) - N))
          /\ A[0] = Cut(n, z, 0) /\ B[0] = 0
      BY <3>1
    <3>3. M = 0 => m = 0
      BY <1>8
    <3> HIDE DEF A, B
    <3> QED
      BY <1>7, <1>8, <3>1, <3>2, <3>3
  <2>2. ASSUME NEW k \in 1 .. N
        PROVE  /\ Covers(s, d, FirstLayer[k].pv, A[k - 1], A[k], B[k - 1], B[k])
               /\ AssertComplete(FirstLayer[k].pv)
    <3>1. k \in 0 .. N + M /\ k - 1 \in 0 .. N + M /\ k <= N /\ k - 1 <= N
      OBVIOUS
    <3>2. A[k] = Cut(n, z, k) /\ A[k - 1] = Cut(n, z, k - 1) /\ B[k] = 0 /\ B[k - 1] = 0
      BY <3>1
    <3> HIDE DEF A, B
    <3> QED
      BY <1>14, <1>16, <3>2
  <2>3. ASSUME NEW k \in 1 .. M
        PROVE  /\ Covers(s, d, FirstLayer[N + k].pv, A[(N + k) - 1], A[N + k],
                         B[(N + k) - 1], B[N + k])
               /\ AssertComplete(FirstLayer[N + k].pv)
    <3>1. N + k \in 0 .. N + M /\ (N + k) - 1 \in 0 .. N + M /\ ~(N + k <= N)
          /\ (N + k) - N = k /\ ((N + k) - 1) - N = k - 1
          /\ ((N + k) - 1 <= N <=> k = 1) /\ (k = 1 => (N + k) - 1 = N /\ k - 1 = 0)
      OBVIOUS
    <3>2. A[N + k] = n /\ B[N + k] = Cut(m, z, k)
      BY <3>1
    <3>3. A[(N + k) - 1] = (IF k = 1 THEN Cut(n, z, N) ELSE n)
          /\ B[(N + k) - 1] = (IF k = 1 THEN 0 ELSE Cut(m, z, k - 1))
      BY <3>1
    <3>4. k = 1 => k - 1 = 0
      OBVIOUS
    <3> HIDE DEF A, B
    <3>5. A[(N + k) - 1] = n /\ B[(N + k) - 1] = Cut(m, z, k - 1)
      BY <1>7, <1>8, <3>3, <3>4
    <3> QED
      BY <1>15, <1>16, <3>2, <3>5
  <2> HIDE DEF A, B
  <2>4. ASSUME NEW k \in 1 .. N + M
        PROVE  /\ Covers(s, d, FirstLayer[k].pv, A[k - 1], A[k], B[k - 1], B[k])
               /\ AssertComplete(FirstLayer[k].pv)
    <3>1. CASE k \in 1 .. N
      BY <2>2, <3>1
    <3>2. CASE k \notin 1 .. N
      <4>1. k - N \in 1 .. M /\ N + (k - N) = k
        BY <3>2
      <4>2. PICK j \in 1 .. M : N + j = k
        BY <4>1
      <4> QED
        BY <2>3, <4>2
    <3> QED
      BY <3>1, <3>2
  <2>5. Divides(FirstLayer, s, d, A, B)
    BY <1>2, <1>3, <1>16, <2>1, <2>4 DEF Divides
  <2> QED
    BY <2>5 DEF Divided
<1>18. RulesOfEach(s, d)
  <2>1. ASSUME NEW i \in 1 .. Len(s) PROVE ShardRules(s[i])
    <3>1. PICK k \in 1 .. N : i \in (k - 1) * z + 1 .. Cut(n, z, k)
      BY <1>2, <1>7
    <3> QED
      BY <1>14, <3>1
  <2>2. FirstShardRules(s[1].pv, TRUE)
    <3>1. 1 \in 1 .. N /\ (1 - 1) * z + 1 = 1
      BY <1>4, <1>7
    <3>2. FirstShardRules(s[(1 - 1) * z + 1].pv, 1 = 1)
      BY <1>14, <3>1
    <3> QED
      BY <3>1, <3>2 DEF FirstShardRules
  <2>3. DeferredAccepts(d)
    <3> DEFINE Fine(p) == /\ MerkleAccepts(p) /\ p.pv.vk_root = VkRoot
                          /\ p.digest = "reduce" /\ p.pv.is_complete
    <3>1. ASSUME NEW i \in 1 .. m PROVE Fine(d[i])
      <4>1. PICK k \in 1 .. M : i \in (k - 1) * z + 1 .. Cut(m, z, k)
        BY <1>8
      <4>2. PICK a : a = (k - 1) * z
        OBVIOUS
      <4>3. PICK b : b = Cut(m, z, k)
        OBVIOUS
      <4>4. a \in 0 .. Len(d) /\ b \in a .. Len(d) /\ a \in Nat /\ b \in Nat /\ i \in a + 1 .. b
        BY <1>3, <1>8, <4>1, <4>2, <4>3
      <4>5. PICK t : t = SubSeq(d, a + 1, b)
        OBVIOUS
      <4>6. DOMAIN t = 1 .. (b - a) /\ \A j \in 1 .. (b - a) : t[j] = d[a + j]
        BY <1>4, <4>4, <4>5, Piece
      <4>7. DeferredAccepts(t)
        BY <1>13, <4>2, <4>3, <4>5
      <4>8. i - a \in 1 .. (b - a) /\ a + (i - a) = i
        BY <4>4
      <4>9. t[i - a] = d[i] /\ i - a \in DOMAIN t
        BY <4>6, <4>8
      <4>10. Fine(t[i - a])
        BY <4>7, <4>9 DEF DeferredAccepts
      <4> QED
        BY <4>9, <4>10
    <3> QED
      BY <1>3, <3>1 DEF DeferredAccepts
  <2> QED
    BY <2>1, <2>2, <2>3 DEF RulesOfEach
<1> QED
  BY <1>1, <1>7, <1>8, <1>16, <1>17, <1>18

-----------------------------------------------------------------------------
(* The tree. *)

\* The same for any two sequences.
LEMMA SeqsJoined ==
  ASSUME NEW a, NEW b, IsSeq(a), IsSeq(b), NEW m, NEW n, m = Len(a), n = Len(b)
  PROVE  Joined(a \o b, a, b, m, n)
<1>1. PICK S : S = Range(a) \cup Range(b)
  OBVIOUS
<1>2. a \in Seq(S) /\ b \in Seq(S)
  <2>1. a \in Seq(Range(a)) /\ b \in Seq(Range(b))
    BY DEF IsSeq
  <2> QED
    BY <1>1, <2>1
<1>3. m \in Nat /\ n \in Nat /\ a \in [1 .. m -> S] /\ b \in [1 .. n -> S]
  BY <1>2
<1> QED
  BY <1>3, InConcat

\* g is f with its elements i and i + 1 replaced by x.
Shortened(g, f, i, x) ==
    /\ IsSeq(g) /\ Len(g) = Len(f) - 1
    /\ \A k \in 1 .. i - 1 : g[k] = f[k]
    /\ g[i] = x
    /\ \A k \in i + 1 .. Len(f) - 1 : g[k] = f[k + 1]

\* What a run of the compress program does to the proofs in the tree.
LEMMA Shorten ==
  ASSUME NEW f, IsSeq(f), NEW i \in 1 .. Len(f) - 1, NEW x, NEW g,
         g = SubSeq(f, 1, i - 1) \o <<x>> \o SubSeq(f, i + 2, Len(f))
  PROVE  /\ Shortened(g, f, i, x)
         /\ SubSeq(f, i, i + 1) = <<f[i], f[i + 1]>>
<1>1. PICK l \in Nat : l = Len(f)
  BY SeqIsSeq DEF IsSeq
<1>2. i \in Nat /\ i >= 1 /\ i + 1 <= l /\ (i - 1) + 1 = i /\ (i + 1) + 1 = i + 2
      /\ i - 1 \in Nat /\ i - 1 \in 0 .. l /\ i + 1 \in 0 .. l /\ i + 1 \in i - 1 .. l /\ 0 \in 0 .. l
      /\ l \in i + 1 .. l /\ (i - 1) - 0 = i - 1 /\ (i + 1) - (i - 1) = 2 /\ 0 + 1 = 1
      /\ l - (i + 1) \in Nat /\ i + (l - (i + 1)) = l - 1 /\ (i - 1) + 2 = i + 1
  BY <1>1
<1>3. PICK a : a = SubSeq(f, 1, i - 1)
  OBVIOUS
<1>4. PICK b : b = <<x>>
  OBVIOUS
<1>5. PICK c : c = SubSeq(f, i + 2, l)
  OBVIOUS
<1>6. Len(a) = i - 1 /\ IsSeq(a) /\ \A k \in 1 .. i - 1 : a[k] = f[k]
  <2>1. /\ Len(SubSeq(f, 0 + 1, i - 1)) = (i - 1) - 0
        /\ \A k \in 1 .. ((i - 1) - 0) : SubSeq(f, 0 + 1, i - 1)[k] = f[0 + k]
        /\ IsSeq(SubSeq(f, 0 + 1, i - 1))
    <3>1. 0 \in 0 .. Len(f) /\ i - 1 \in 0 .. Len(f)
      BY <1>1, <1>2
    <3> QED
      BY <3>1, Piece
  <2>2. \A k \in 1 .. i - 1 : 0 + k = k
    OBVIOUS
  <2> QED
    BY <1>2, <1>3, <2>1, <2>2
<1>7. Len(c) = l - (i + 1) /\ IsSeq(c) /\ \A k \in 1 .. l - (i + 1) : c[k] = f[(i + 1) + k]
  <2>1. i + 1 \in 0 .. Len(f) /\ Len(f) \in i + 1 .. Len(f)
    BY <1>1, <1>2
  <2>2. /\ Len(SubSeq(f, (i + 1) + 1, Len(f))) = Len(f) - (i + 1)
        /\ \A k \in 1 .. (Len(f) - (i + 1)) : SubSeq(f, (i + 1) + 1, Len(f))[k] = f[(i + 1) + k]
        /\ IsSeq(SubSeq(f, (i + 1) + 1, Len(f)))
    BY <2>1, Piece
  <2> QED
    BY <1>1, <1>2, <1>5, <2>2
<1>8. SubSeq(f, i, i + 1) = <<f[i], f[i + 1]>>
  <2>1. i - 1 \in 0 .. Len(f) /\ i + 1 \in i - 1 .. Len(f)
    BY <1>1, <1>2
  <2>2. PICK t : t = SubSeq(f, i, i + 1)
    OBVIOUS
  <2>3. DOMAIN t = 1 .. 2 /\ Len(t) = 2 /\ IsSeq(t) /\ \A k \in 1 .. 2 : t[k] = f[(i - 1) + k]
    <3>1. PICK h, k : h = i - 1 /\ k = i + 1
      OBVIOUS
    <3>2. h \in 0 .. Len(f) /\ k \in h .. Len(f)
      BY <2>1, <3>1
    <3>3. /\ Len(SubSeq(f, h + 1, k)) = k - h
          /\ DOMAIN SubSeq(f, h + 1, k) = 1 .. (k - h)
          /\ \A j \in 1 .. (k - h) : SubSeq(f, h + 1, k)[j] = f[h + j]
          /\ IsSeq(SubSeq(f, h + 1, k))
      BY <3>2, Piece
    <3>4. h + 1 = i /\ k - h = 2
      BY <1>2, <3>1
    <3>5. SubSeq(f, h + 1, k) = t
      BY <2>2, <3>1, <3>4
    <3> QED
      BY <3>1, <3>3, <3>4, <3>5
  <2>4. t[1] = f[i] /\ t[2] = f[i + 1]
    BY <1>2, <2>3
  <2>5. PICK S : t \in Seq(S)
    BY <2>3 DEF IsSeq
  <2>6. t = <<t[1], t[2]>>
    BY <2>3, <2>5
  <2> QED
    BY <2>2, <2>4, <2>6
<1>9. IsSeq(b) /\ Len(b) = 1 /\ b[1] = x
  <2>1. b \in Seq({x}) /\ Len(b) = 1 /\ b[1] = x
    BY <1>4
  <2> QED
    BY <2>1, SeqIsSeq
<1>10. PICK h : h = a \o b
  OBVIOUS
<1>11. Joined(h, a, b, i - 1, 1)
  BY <1>6, <1>9, <1>10, SeqsJoined
<1>12. IsSeq(h) /\ Len(h) = i /\ (\A k \in 1 .. i - 1 : h[k] = a[k]) /\ h[i] = x
  <2>1. IsSeq(h) /\ Len(h) = (i - 1) + 1 /\ \A k \in 1 .. i - 1 : h[k] = a[k]
    BY <1>11 DEF Joined
  <2>2. h[(i - 1) + 1] = b[1]
    <3>1. 1 \in 1 .. 1
      OBVIOUS
    <3> QED
      BY <1>11, <3>1 DEF Joined
  <2> QED
    BY <1>2, <1>9, <2>1, <2>2
<1>13. g = h \o c
  BY <1>1, <1>3, <1>4, <1>5, <1>10
<1>14. Joined(g, h, c, i, l - (i + 1))
  BY <1>7, <1>12, <1>13, SeqsJoined
<1>15. /\ IsSeq(g) /\ Len(g) = l - 1 /\ \A k \in 1 .. i : g[k] = h[k]
       /\ \A k \in 1 .. l - (i + 1) : g[i + k] = c[k]
  BY <1>2, <1>14 DEF Joined
<1>16. ASSUME NEW k \in i + 1 .. l - 1 PROVE g[k] = f[k + 1]
  <2>1. k - i \in 1 .. l - (i + 1) /\ (i + 1) + (k - i) = k + 1 /\ i + (k - i) = k
    BY <1>2
  <2>2. g[i + (k - i)] = c[k - i] /\ c[k - i] = f[(i + 1) + (k - i)]
    BY <1>7, <1>15, <2>1
  <2> QED
    BY <2>1, <2>2
<1>17. ASSUME NEW k \in 1 .. i - 1 PROVE g[k] = f[k]
  <2>1. k \in 1 .. i
    BY <1>2
  <2> QED
    BY <1>6, <1>12, <1>15, <2>1
<1>18. g[i] = x
  <2>1. i \in 1 .. i
    BY <1>2
  <2> QED
    BY <1>12, <1>15, <2>1
<1> QED
  BY <1>1, <1>8, <1>15, <1>16, <1>17, <1>18 DEF Shortened

\* Two neighbours replaced by one proof of both: the rest is divided as before.
LEMMA ShorterDivided ==
  ASSUME NEW s, NEW d, NEW f, IsSeq(f), NEW i \in 1 .. Len(f) - 1, NEW x, NEW g, NEW A, NEW B,
         g = SubSeq(f, 1, i - 1) \o <<x>> \o SubSeq(f, i + 2, Len(f)),
         Divides(f, s, d, A, B), AssertComplete(x.pv),
         Covers(s, d, x.pv, A[i - 1], A[i + 1], B[i - 1], B[i + 1])
  PROVE  Divided(g, s, d)
<1>1. PICK l \in Nat : l = Len(f)
  BY SeqIsSeq DEF IsSeq
<1>2. /\ Len(g) = l - 1 /\ \A k \in 1 .. i - 1 : g[k] = f[k]
      /\ g[i] = x /\ \A k \in i + 1 .. l - 1 : g[k] = f[k + 1]
  <2>1. Shortened(g, f, i, x)
    BY Shorten
  <2> QED
    BY <1>1, <2>1 DEF Shortened
<1>3. i \in 1 .. l - 1 /\ l - 1 \in Nat /\ i \in Nat
  BY <1>1
<1> DEFINE C == [k \in 0 .. l - 1 |-> IF k < i THEN A[k] ELSE A[k + 1]]
           D == [k \in 0 .. l - 1 |-> IF k < i THEN B[k] ELSE B[k + 1]]
<1>4. C[0] = 0 /\ D[0] = 0 /\ C[Len(g)] = Len(s) /\ D[Len(g)] = Len(d)
  <2>1. 0 \in 0 .. l - 1 /\ 0 < i /\ l - 1 \in 0 .. l - 1 /\ ~(l - 1 < i) /\ (l - 1) + 1 = l
    BY <1>3
  <2>2. C[0] = A[0] /\ D[0] = B[0] /\ C[l - 1] = A[l] /\ D[l - 1] = B[l]
    BY <2>1
  <2> HIDE DEF C, D
  <2> QED
    BY <1>1, <1>2, <2>2 DEF Divides
<1>5. ASSUME NEW k \in 1 .. l - 1
      PROVE  /\ Covers(s, d, g[k].pv, C[k - 1], C[k], D[k - 1], D[k])
             /\ AssertComplete(g[k].pv)
  <2>1. k \in 0 .. l - 1 /\ k - 1 \in 0 .. l - 1 /\ k \in 1 .. l /\ k + 1 \in 1 .. l
        /\ (k - 1) + 1 = k /\ (k + 1) - 1 = k
    BY <1>1
  <2>2. /\ C[k] = (IF k < i THEN A[k] ELSE A[k + 1])
        /\ C[k - 1] = (IF k - 1 < i THEN A[k - 1] ELSE A[k])
        /\ D[k] = (IF k < i THEN B[k] ELSE B[k + 1])
        /\ D[k - 1] = (IF k - 1 < i THEN B[k - 1] ELSE B[k])
    BY <2>1
  <2> HIDE DEF C, D
  <2>3. CASE k < i
    <3>1. k - 1 < i /\ k \in 1 .. i - 1
      BY <1>3, <2>3
    <3>2. /\ Covers(s, d, f[k].pv, A[k - 1], A[k], B[k - 1], B[k])
          /\ AssertComplete(f[k].pv)
      BY <1>1, <2>1 DEF Divides
    <3> QED
      BY <1>2, <2>2, <2>3, <3>1, <3>2
  <2>4. CASE k = i
    <3>1. k - 1 < i /\ ~(k < i)
      BY <1>3, <2>4
    <3> QED
      BY <1>2, <2>2, <2>4, <3>1
  <2>5. CASE k > i
    <3>1. ~(k - 1 < i) /\ ~(k < i) /\ k \in i + 1 .. l - 1
      BY <1>3, <2>5
    <3>2. /\ Covers(s, d, f[k + 1].pv, A[(k + 1) - 1], A[k + 1], B[(k + 1) - 1], B[k + 1])
          /\ AssertComplete(f[k + 1].pv)
      BY <1>1, <2>1 DEF Divides
    <3> QED
      BY <1>2, <2>1, <2>2, <3>1, <3>2
  <2>6. k < i \/ k = i \/ k > i
    BY <1>3, <2>1
  <2> QED
    BY <2>3, <2>4, <2>5, <2>6
<1> HIDE DEF C, D
<1>6. Divides(g, s, d, C, D)
  BY <1>2, <1>4, <1>5 DEF Divides
<1> QED
  BY <1>6 DEF Divided

\* A proof alone covers everything.
LEMMA SingleDivided ==
  ASSUME NEW s, NEW d, NEW f, Len(f) = 1
  PROVE  Divided(f, s, d) <=>
           /\ Covers(s, d, f[1].pv, 0, Len(s), 0, Len(d)) /\ AssertComplete(f[1].pv)
<1>1. 1 \in 1 .. Len(f) /\ 1 - 1 = 0 /\ \A k \in 1 .. Len(f) : k = 1
  OBVIOUS
<1>2. ASSUME Divided(f, s, d)
      PROVE  /\ Covers(s, d, f[1].pv, 0, Len(s), 0, Len(d)) /\ AssertComplete(f[1].pv)
  <2>1. PICK A, B : Divides(f, s, d, A, B)
    BY <1>2 DEF Divided
  <2> QED
    BY <1>1, <2>1 DEF Divides
<1>3. ASSUME Covers(s, d, f[1].pv, 0, Len(s), 0, Len(d)), AssertComplete(f[1].pv)
      PROVE  Divided(f, s, d)
  <2> DEFINE A == [k \in 0 .. 1 |-> IF k = 0 THEN 0 ELSE Len(s)]
             B == [k \in 0 .. 1 |-> IF k = 0 THEN 0 ELSE Len(d)]
  <2>1. A[0] = 0 /\ A[1] = Len(s) /\ B[0] = 0 /\ B[1] = Len(d)
    OBVIOUS
  <2> HIDE DEF A, B
  <2>2. Divides(f, s, d, A, B)
    BY <1>1, <1>3, <2>1 DEF Divides
  <2> QED
    BY <2>2 DEF Divided
<1> QED
  BY <1>2, <1>3

-----------------------------------------------------------------------------
(* The specification. *)

\* What Shards needs of one more shard proof.
ShardProofTyped(p) ==
    /\ "sum" \in DOMAIN p /\ p.sum \in Int
    /\ "pv" \in DOMAIN p /\ "execution_shard" \in DOMAIN p.pv
    /\ p.pv.execution_shard \in Int

\* The shards that an execution produces have numbers.
LEMMA NextShardType ==
  ASSUME Shards(proof), NEW p \in NextShardProofs
  PROVE  ShardProofTyped(p)
<1>1. Before.execution_shard \in Int
  <2>1. CASE proof = <<>>
    BY <2>1 DEF Before
  <2>2. CASE proof # <<>>
    <3>1. PICK n \in Nat : n = Len(proof) /\ n # 0
      <4>1. proof \in Seq(Range(proof))
        BY DEF Shards, IsSeq
      <4> QED
        BY <2>2, <4>1
    <3>2. proof[n].pv.execution_shard \in Int
      BY <3>1 DEF Shards
    <3> QED
      BY <2>2, <3>1, <3>2 DEF Before, Last
  <2> QED
    BY <2>1, <2>2
<1>2. ASSUME NEW cpu \in BOOLEAN, NEW memory, NEW next, NEW committed, NEW digest
      PROVE  ShardProofTyped(ShardProof(cpu, memory, next, committed, digest))
  <2>1. PICK r : r = Before.execution_shard
    OBVIOUS
  <2>2. PICK x : x = (IF proof = <<>> THEN -InitialSum ELSE 0)
    OBVIOUS
  <2>3. x \in Int /\ r + (IF cpu THEN 1 ELSE 0) \in Int
    BY <1>1, <2>1, <2>2, RecursionAssumption
  <2>4. PICK q : q = ShardProof(cpu, memory, next, committed, digest)
    OBVIOUS
  <2>5. /\ "sum" \in DOMAIN q /\ "pv" \in DOMAIN q /\ q.sum = x
    BY <2>2, <2>4 DEF ShardProof
  <2>6. /\ "execution_shard" \in DOMAIN q.pv
        /\ q.pv.execution_shard = r + (IF cpu THEN 1 ELSE 0)
    BY <2>1, <2>4 DEF ShardProof
  <2> QED
    BY <2>3, <2>4, <2>5, <2>6 DEF ShardProofTyped
<1>3. \E cpu \in BOOLEAN : \E memory, next, committed, digest :
        p = ShardProof(cpu, memory, next, committed, digest)
  <2>1. p \in CpuShardProofs \/ p \in OtherShardProofs
    <3>1. p \in (IF Before.next_pc # 0 THEN CpuShardProofs ELSE {})
          \/ p \in (IF proof # <<>> THEN OtherShardProofs ELSE {})
      BY DEF NextShardProofs
    <3> QED
      BY <3>1
  <2>2. CASE p \in CpuShardProofs
    <3>1. PICK c : p = ShardProof(TRUE, c.memory, c.next_pc, c.digests[1], c.digests[2])
      BY <2>2 DEF CpuShardProofs
    <3> QED
      BY <3>1
  <2>3. CASE p \in OtherShardProofs
    <3>1. \E memory :
            p = ShardProof(FALSE, memory, Before.next_pc, Before.committed, Before.deferred)
      BY <2>3, Zenon DEF OtherShardProofs
    <3> QED
      BY <3>1
  <2> QED
    BY <2>1, <2>2, <2>3
<1> QED
  BY <1>2, <1>3

\* A deviation leaves them numbers.
LEMMA DeviatingType ==
  ASSUME NEW p, ShardProofTyped(p), NEW q \in Deviating(p)
  PROVE  ShardProofTyped(q)
<1>1. ASSUME NEW x, NEW f \in {"valid", "log_degree_cpu", "cpu", "memInit", "memFinalize"},
             q = [p EXCEPT ![f] = x]
      PROVE  ShardProofTyped(q)
  BY <1>1 DEF ShardProofTyped
<1>2. ASSUME NEW x \in Int, q = [p EXCEPT !.sum = x]
      PROVE  ShardProofTyped(q)
  BY <1>2 DEF ShardProofTyped
<1>3. ASSUME NEW x, NEW f, f # "execution_shard" \/ x \in Int, q = [p EXCEPT !.pv[f] = x]
      PROVE  ShardProofTyped(q)
  <2>1. PICK v : v = [p.pv EXCEPT ![f] = x]
    OBVIOUS
  <2>2. "execution_shard" \in DOMAIN v /\ v.execution_shard \in Int
    BY <1>3, <2>1 DEF ShardProofTyped
  <2>3. q = [p EXCEPT !.pv = v]
    BY <1>3, <2>1
  <2>4. q.pv = v /\ q.sum = p.sum /\ DOMAIN q = DOMAIN p
    BY <2>3 DEF ShardProofTyped
  <2> QED
    BY <2>2, <2>4 DEF ShardProofTyped
<1>4. p.sum + 1 \in Int /\ p.sum - 1 \in Int /\ p.pv.execution_shard + 1 \in Int
  BY DEF ShardProofTyped
<1>5. \/ \E x : \E f \in {"valid", "log_degree_cpu", "cpu", "memInit", "memFinalize"} :
            q = [p EXCEPT ![f] = x]
      \/ q = [p EXCEPT !.sum = p.sum + 1] \/ q = [p EXCEPT !.sum = p.sum - 1]
      \/ q = [p EXCEPT !.pv.execution_shard = p.pv.execution_shard + 1]
      \/ \E x, f : f # "execution_shard" /\ q = [p EXCEPT !.pv[f] = x]
  BY Zenon DEF Deviating
<1> QED
  BY <1>1, <1>2, <1>3, <1>4, <1>5

\* A shard proof more.
LEMMA AppendShards ==
  ASSUME NEW s, Shards(s), NEW p, ShardProofTyped(p)
  PROVE  Shards(Append(s, p))
<1>1. PICK n \in Nat : n = Len(s)
  BY SeqIsSeq DEF Shards, IsSeq
<1>2. PICK S : S = Range(s) \cup {p}
  OBVIOUS
<1>3. s \in Seq(S)
  <2>1. s \in Seq(Range(s))
    BY DEF Shards, IsSeq
  <2> QED
    BY <1>2, <2>1
<1>4. p \in S
  BY <1>2
<1>5. PICK t : t = Append(s, p)
  OBVIOUS
<1>6. /\ t \in Seq(S) /\ Len(t) = n + 1 /\ t[n + 1] = p
      /\ \A i \in 1 .. n : t[i] = s[i]
  BY <1>1, <1>3, <1>4, <1>5
<1>7. IsSeq(t)
  BY <1>6, SeqIsSeq
<1>8. ASSUME NEW i \in 1 .. n + 1
      PROVE  t[i].sum \in Int /\ t[i].pv.execution_shard \in Int
  <2>1. i \in 1 .. n \/ i = n + 1
    OBVIOUS
  <2>2. CASE i \in 1 .. n
    BY <1>1, <1>6, <2>2 DEF Shards
  <2>3. CASE i = n + 1
    BY <1>6, <2>3 DEF ShardProofTyped
  <2> QED
    BY <2>1, <2>2, <2>3
<1> QED
  BY <1>5, <1>6, <1>7, <1>8 DEF Shards

\* A tree of proofs f over the core proof s and the deferred proofs d.
Tree(f, s, d) ==
    /\ s # <<>> /\ RulesOfEach(s, d)
    /\ IsSeq(f) /\ Len(f) # 0 /\ Divided(f, s, d)

\* The inductive invariant: from the first layer to the wrapped proof, the proofs
\* that are left divide the core proof and the deferred proofs among them.
TreeInvariant ==
    /\ Shards(proof) /\ IsSeq(deferred) /\ DigestsDiffer(deferred) /\ batchSize \in Nat \ {0}
    /\ stage \in {"core", "tree", "compressed", "shrunk", "wrapped", "rejected"}
    /\ stage \in {"tree", "compressed", "shrunk", "wrapped"} => Tree(frontier, proof, deferred)
    /\ stage \in {"compressed", "shrunk", "wrapped"} => Len(frontier) = 1
    /\ stage \in {"shrunk", "wrapped"} => frontier[1].pv.is_complete

\* It holds before there is a shard proof.
LEMMA TreeInvariantInit == Init => TreeInvariant
<1> SUFFICES ASSUME Init PROVE TreeInvariant
  OBVIOUS
<1>1. <<>> \in Seq({}) /\ Len(<<>>) = 0
  OBVIOUS
<1>2. Shards(proof)
  <2>1. IsSeq(<<>>)
    BY <1>1, SeqIsSeq
  <2> QED
    BY <1>1, <2>1 DEF Init, Shards
<1>3. IsSeq(deferred) /\ DigestsDiffer(deferred) /\ batchSize \in Nat \ {0}
  <2>1. deferred \in Seq(Range(deferred)) /\ DigestsDiffer(deferred)
    BY AggregationAssumption DEF Init
  <2> QED
    BY <2>1, AggregationAssumption, SeqIsSeq DEF Init
<1> QED
  BY <1>2, <1>3 DEF Init, TreeInvariant

\* The compress program accepts the neighbours i and i + 1 of f, and g is f with the
\* proof x of this run in their place.
Compressed(f, g, i, x, complete) ==
    /\ i \in 1 .. Len(f) - 1
    /\ CompressAccepts(SubSeq(f, i, i + 1), complete)
    /\ x.pv = CompressOutput(SubSeq(f, i, i + 1), complete)
    /\ g = SubSeq(f, 1, i - 1) \o <<x>> \o SubSeq(f, i + 2, Len(f))

\* A run of the compress program on two neighbours keeps the tree.
LEMMA CompressKeepsTree ==
  ASSUME NEW s, Shards(s), NEW d, IsSeq(d), NEW f, Tree(f, s, d),
         NEW g, NEW i, NEW x, NEW complete, Compressed(f, g, i, x, complete)
  PROVE  Tree(g, s, d) /\ Len(g) = Len(f) - 1
<1>1. IsSeq(f)
  BY DEF Tree
<1>2. PICK l \in Nat : l = Len(f)
  BY <1>1, SeqIsSeq DEF IsSeq
<1>3. Shortened(g, f, i, x) /\ SubSeq(f, i, i + 1) = <<f[i], f[i + 1]>>
  BY <1>1, Shorten DEF Compressed
<1>4. IsSeq(g) /\ Len(g) = Len(f) - 1 /\ Len(g) # 0
  <2>1. IsSeq(g) /\ Len(g) = Len(f) - 1
    BY <1>3 DEF Shortened
  <2>2. l - 1 # 0
    BY <1>2 DEF Compressed
  <2> QED
    BY <1>2, <2>1, <2>2
<1>5. PICK A, B : Divides(f, s, d, A, B)
  BY DEF Tree, Divided
<1>6. /\ Covers(s, d, f[i].pv, A[i - 1], A[i], B[i - 1], B[i])
      /\ Covers(s, d, f[i + 1].pv, A[i], A[i + 1], B[i], B[i + 1])
  <2>1. i \in 1 .. Len(f) /\ i + 1 \in 1 .. Len(f) /\ (i + 1) - 1 = i
    BY <1>2 DEF Compressed
  <2>2. Covers(s, d, f[i + 1].pv, A[(i + 1) - 1], A[i + 1], B[(i + 1) - 1], B[i + 1])
    BY <1>5, <2>1 DEF Divides
  <2> QED
    BY <1>5, <2>1, <2>2 DEF Divides
<1>7. CompressAccepts(<<f[i], f[i + 1]>>, complete)
  BY <1>3 DEF Compressed
<1>8. x.pv = CompressOutput(<<f[i], f[i + 1]>>, complete)
  BY <1>3 DEF Compressed
<1>9. Covers(s, d, x.pv, A[i - 1], A[i + 1], B[i - 1], B[i + 1]) /\ AssertComplete(x.pv)
  <2>1. /\ Covers(s, d, CompressOutput(<<f[i], f[i + 1]>>, complete),
                  A[i - 1], A[i + 1], B[i - 1], B[i + 1])
        /\ AssertComplete(CompressOutput(<<f[i], f[i + 1]>>, complete))
    BY <1>6, <1>7, Merge, Zenon
  <2> QED
    BY <1>8, <2>1
<1>10. Divided(g, s, d)
  BY <1>1, <1>5, <1>9, ShorterDivided DEF Compressed
<1> QED
  BY <1>4, <1>10 DEF Tree

\* So does a run of a root program on the proof that is left, which is then complete.
LEMMA RootKeepsTree ==
  ASSUME NEW s, Shards(s), NEW d, IsSeq(d), NEW f, Tree(f, s, d), Len(f) = 1,
         RootAccepts(f[1]), NEW digest
  PROVE  /\ Tree(<<Made(CompressOutput(f, TRUE), digest)>>, s, d)
         /\ Len(<<Made(CompressOutput(f, TRUE), digest)>>) = 1
         /\ <<Made(CompressOutput(f, TRUE), digest)>>[1].pv.is_complete
<1>1. f = <<f[1]>>
  <2>1. PICK S : f \in Seq(S)
    BY DEF Tree, IsSeq
  <2> QED
    BY <2>1
<1>2. PICK x : x = Made(CompressOutput(f, TRUE), digest)
  OBVIOUS
<1>3. x.pv = CompressOutput(<<f[1]>>, TRUE)
  BY <1>1, <1>2 DEF Made
<1>4. Covers(s, d, f[1].pv, 0, Len(s), 0, Len(d))
  BY SingleDivided DEF Tree
<1>5. /\ Covers(s, d, x.pv, 0, Len(s), 0, Len(d)) /\ AssertComplete(x.pv)
      /\ x.pv.is_complete = TRUE
  <2>1. CompressAccepts(<<f[1]>>, TRUE)
    BY DEF RootAccepts
  <2>2. PICK p, n, m : p = f[1] /\ n = Len(s) /\ m = Len(d)
    OBVIOUS
  <2>3. /\ Covers(s, d, CompressOutput(<<p>>, TRUE), 0, n, 0, m)
        /\ AssertComplete(CompressOutput(<<p>>, TRUE))
        /\ CompressOutput(<<p>>, TRUE).is_complete = TRUE
    <3>1. PICK complete : complete = TRUE
      OBVIOUS
    <3>2. CompressAccepts(<<p>>, complete) /\ Covers(s, d, p.pv, 0, n, 0, m)
      BY <1>4, <2>1, <2>2, <3>1
    <3>3. /\ Covers(s, d, CompressOutput(<<p>>, complete), 0, n, 0, m)
          /\ AssertComplete(CompressOutput(<<p>>, complete))
          /\ CompressOutput(<<p>>, complete).is_complete = complete
      BY <3>2, Root
    <3> QED
      BY <3>1, <3>3
  <2> QED
    BY <1>3, <2>2, <2>3
<1>6. PICK g : g = <<x>>
  OBVIOUS
<1>7. g \in Seq({x}) /\ Len(g) = 1 /\ g[1] = x
  BY <1>6
<1>8. Divided(g, s, d)
  BY <1>5, <1>7, SingleDivided
<1>9. IsSeq(g)
  BY <1>7, SeqIsSeq
<1>10. Tree(g, s, d)
  BY <1>7, <1>8, <1>9 DEF Tree
<1> QED
  BY <1>2, <1>5, <1>6, <1>7, <1>10

\* Every step keeps the invariant.
LEMMA TreeInvariantStep == TreeInvariant /\ [Next]_vars => TreeInvariant'
<1> SUFFICES ASSUME TreeInvariant, [Next]_vars PROVE TreeInvariant'
  OBVIOUS
<1>1. /\ Shards(proof) /\ IsSeq(deferred) /\ DigestsDiffer(deferred) /\ batchSize \in Nat \ {0}
      /\ stage \in {"core", "tree", "compressed", "shrunk", "wrapped", "rejected"}
  BY DEF TreeInvariant
<1>2. ASSUME NEW p, ShardProofTyped(p), stage = "core", proof' = Append(proof, p),
             UNCHANGED <<deferred, batchSize, stage>>
      PROVE  TreeInvariant'
  <2>1. Shards(proof')
    BY <1>1, <1>2, AppendShards
  <2> QED
    BY <1>1, <1>2, <2>1 DEF TreeInvariant
<1>3. CASE ProveShard
  BY <1>1, <1>2, <1>3, NextShardType DEF ProveShard
<1>4. CASE DeviatingShard
  <2>1. PICK p \in NextShardProofs : \E q \in Deviating(p) : proof' = Append(proof, q)
    BY <1>4 DEF DeviatingShard
  <2>2. PICK q \in Deviating(p) : proof' = Append(proof, q)
    BY <2>1
  <2>3. ShardProofTyped(q)
    BY <1>1, <2>1, <2>2, NextShardType, DeviatingType
  <2> QED
    BY <1>2, <1>4, <2>2, <2>3 DEF DeviatingShard
<1>5. ASSUME stage' = "rejected", UNCHANGED <<proof, deferred, batchSize>>
      PROVE  TreeInvariant'
  BY <1>1, <1>5 DEF TreeInvariant
<1>6. CASE RunFirstLayer
  <2>1. UNCHANGED <<proof, deferred, batchSize>> /\ proof # <<>>
    BY <1>6 DEF RunFirstLayer
  <2>2. CASE FirstLayerAccepted
    <3>1. frontier' = FirstLayer /\ stage' = (IF IsSingle THEN "compressed" ELSE "tree")
      BY <1>6, <2>2 DEF RunFirstLayer
    <3>2. Tree(FirstLayer, proof, deferred)
      BY <1>1, <2>1, <2>2, FirstLayerDivides DEF Tree
    <3>3. Tree(frontier', proof', deferred')
      BY <2>1, <3>1, <3>2
    <3>4. IsSingle => Len(frontier') = 1
      BY <3>1 DEF IsSingle
    <3> QED
      BY <1>1, <2>1, <3>1, <3>3, <3>4 DEF TreeInvariant
  <2>3. CASE ~FirstLayerAccepted
    BY <1>5, <1>6, <2>1, <2>3 DEF RunFirstLayer
  <2> QED
    BY <2>2, <2>3
<1>7. ASSUME NEW i \in DOMAIN frontier, Compress(i)
      PROVE  TreeInvariant'
  <2>1. /\ UNCHANGED <<proof, deferred, batchSize>> /\ stage = "tree"
        /\ i + 1 \in DOMAIN frontier
    BY <1>7 DEF Compress
  <2>2. PICK t, complete : t = SubSeq(frontier, i, i + 1) /\ complete = (Len(frontier) = 2)
    OBVIOUS
  <2>3. CASE CompressAccepts(t, complete)
    <3>1. PICK x : x = Made(CompressOutput(t, complete), "reduce")
      OBVIOUS
    <3>2. /\ frontier' = SubSeq(frontier, 1, i - 1) \o <<x>> \o SubSeq(frontier, i + 2, Len(frontier))
          /\ stage' = (IF Len(frontier) = 2 THEN "compressed" ELSE "tree")
      BY <1>7, <2>2, <2>3, <3>1 DEF Compress
    <3>3. Tree(frontier, proof, deferred)
      BY <2>1 DEF TreeInvariant
    <3>4. i \in 1 .. Len(frontier) - 1 /\ Len(frontier) \in Nat
      <4>1. PICK l \in Nat : l = Len(frontier) /\ DOMAIN frontier = 1 .. l
        BY <3>3, SeqIsSeq DEF Tree, IsSeq
      <4> QED
        BY <1>7, <2>1, <4>1
    <3>5. x.pv = CompressOutput(t, complete)
      BY <3>1 DEF Made
    <3>6. Tree(frontier', proof, deferred) /\ Len(frontier') = Len(frontier) - 1
      <4>1. PICK f, g : f = frontier /\ g = frontier'
        OBVIOUS
      <4>2. Compressed(f, g, i, x, complete)
        BY <2>2, <2>3, <3>2, <3>4, <3>5, <4>1 DEF Compressed
      <4>3. Tree(f, proof, deferred)
        BY <3>3, <4>1
      <4>4. Tree(g, proof, deferred) /\ Len(g) = Len(f) - 1
        BY <1>1, <4>2, <4>3, CompressKeepsTree
      <4> QED
        BY <4>1, <4>4
    <3>7. Tree(frontier', proof', deferred')
      BY <2>1, <3>6
    <3>8. Len(frontier) = 2 => Len(frontier') = 1
      BY <3>6
    <3> QED
      BY <1>1, <2>1, <3>2, <3>7, <3>8 DEF TreeInvariant
  <2>4. CASE ~CompressAccepts(t, complete)
    <3>1. stage' = "rejected"
      BY <1>7, <2>2, <2>4 DEF Compress
    <3> QED
      BY <1>5, <2>1, <3>1
  <2> QED
    BY <2>3, <2>4
<1>8. ASSUME NEW from \in {"compressed", "shrunk"}, NEW to \in {"shrunk", "wrapped"}, NEW digest,
             RootStep(from, to, digest)
      PROVE  TreeInvariant'
  <2>1. UNCHANGED <<proof, deferred, batchSize>> /\ stage = from
    BY <1>8 DEF RootStep
  <2>2. CASE RootAccepts(frontier[1])
    <3>1. PICK g : g = << Made(CompressOutput(frontier, TRUE), digest) >>
      OBVIOUS
    <3>2. frontier' = g /\ stage' = to
      BY <1>8, <2>2, <3>1 DEF RootStep
    <3>3. Tree(frontier, proof, deferred) /\ Len(frontier) = 1
      BY <1>8, <2>1 DEF TreeInvariant
    <3>4. Tree(g, proof, deferred) /\ Len(g) = 1 /\ g[1].pv.is_complete
      BY <1>1, <2>2, <3>1, <3>3, RootKeepsTree
    <3>5. Tree(frontier', proof', deferred')
      BY <2>1, <3>2, <3>4
    <3> QED
      BY <1>1, <1>8, <2>1, <3>2, <3>4, <3>5 DEF TreeInvariant
  <2>3. CASE ~RootAccepts(frontier[1])
    BY <1>5, <1>8, <2>1, <2>3 DEF RootStep
  <2> QED
    BY <2>2, <2>3
<1>9. CASE Shrink
  BY <1>8, <1>9 DEF Shrink
<1>10. CASE Wrap
  BY <1>8, <1>10 DEF Wrap
<1>11. CASE UNCHANGED vars
  <2>1. /\ proof' = proof /\ deferred' = deferred /\ batchSize' = batchSize
        /\ stage' = stage /\ frontier' = frontier
    BY <1>11 DEF vars
  <2> QED
    BY <2>1 DEF TreeInvariant
<1> QED
  BY <1>3, <1>4, <1>6, <1>7, <1>9, <1>10, <1>11 DEF Next

\* Whatever the shards, the deferred proofs and the order in which the tree is
\* built: a proof that verify_compressed, verify_shrink or verify_wrap_bn254
\* accepts stands for a core proof that obeys the rules of verify.
THEOREM VerifiedObeysCoreRulesHolds == Spec => []VerifiedObeysCoreRules
<1>1. Init => TreeInvariant
  BY TreeInvariantInit
<1>2. TreeInvariant /\ [Next]_vars => TreeInvariant'
  BY TreeInvariantStep
<1>3. TreeInvariant => VerifiedObeysCoreRules
  <2> SUFFICES ASSUME TreeInvariant, Verified
               PROVE  ObeysCoreRules(proof, deferred) /\ DeferredAccepts(deferred)
    BY DEF VerifiedObeysCoreRules, ObeysCoreRules, DeferredMatches
  <2>1. stage \in {"compressed", "shrunk", "wrapped"}
    BY DEF Verified
  <2>2. Tree(frontier, proof, deferred) /\ Len(frontier) = 1
    BY <2>1 DEF TreeInvariant
  <2>3. PICK v : v = frontier[1].pv
    OBVIOUS
  <2>4. v.is_complete
    <3>1. CASE stage = "compressed"
      BY <2>3, <3>1 DEF Verified, VerifyCompressed
    <3>2. CASE stage # "compressed"
      BY <2>1, <2>3, <3>2 DEF TreeInvariant
    <3> QED
      BY <3>1, <3>2
  <2>5. Covers(proof, deferred, v, 0, Len(proof), 0, Len(deferred)) /\ AssertComplete(v)
    BY <2>2, <2>3, SingleDivided DEF Tree
  <2>6. RulesOfEach(proof, deferred)
    BY <2>2 DEF Tree
  <2>7. /\ \A i \in 1 .. Len(proof) : ShardRules(proof[i])
        /\ FirstShardRules(proof[1].pv, TRUE) /\ DeferredAccepts(deferred)
    BY <2>6 DEF RulesOfEach
  <2>8. Shards(proof) /\ IsSeq(deferred)
    BY DEF TreeInvariant
  <2>9. ObeysCoreRules(proof, deferred)
    BY <2>4, <2>5, <2>7, <2>8, CompleteProof
  <2> QED
    BY <2>7, <2>9
<1> QED
  BY <1>1, <1>2, <1>3, PTL DEF Spec

-----------------------------------------------------------------------------
(* Core proofs that verify accepts. *)

\* verify accepts s, the deferred proofs d are those the program has committed to,
\* and the shard numbers are small enough for the programs.
Good(s, d) ==
    /\ VerifyCore(s) /\ Len(s) < MaxShards
    /\ DeferredAccepts(d)
    /\ Last(s).pv.deferred_proofs_digest = HashDeferredProofs(0, d)

\* The rules of the core program on each shard, and on each shard and the one before.
GoodShards(s, n) ==
    /\ \A i \in 1 .. n : ShardRules(s[i]) /\ s[i].pv.shard = i
    /\ \A i \in 2 .. n : ShardLinkRules(s[i - 1], s[i])
    /\ \A i \in 1 .. n : s[i].cpu => s[i].pv.execution_shard = CpuUpTo(s, i)
    /\ FirstShardRules(s[1].pv, TRUE) /\ s[1].cpu /\ s[n].pv.next_pc = 0

\* verify asserts them all.
LEMMA GoodShardsHold ==
  ASSUME NEW s, Shards(s), VerifyCore(s), Len(s) < MaxShards, NEW n, n = Len(s)
  PROVE  n \in Nat /\ n # 0 /\ DOMAIN s = 1 .. n /\ GoodShards(s, n)
<1>1. Accepts(s) /\ (\A i \in DOMAIN s : s[i].valid) /\ n < MaxShards
  BY DEF VerifyCore
<1>2. s \in Seq(Range(s)) /\ s # <<>>
  BY <1>1 DEF Shards, IsSeq, Accepts, NotEmpty
<1>3. n \in Nat /\ n # 0 /\ DOMAIN s = 1 .. n
  BY <1>2
<1>4. MaxShards \in Nat /\ MaxShards = 2 ^ MaxLogNumberOfShards
  BY RecursionAssumption
<1>5. ASSUME NEW i \in 1 .. n
      PROVE  ShardRules(s[i]) /\ s[i].pv.shard = i
  <2>1. s[i].pv.shard = i /\ s[i].pv.exit_code = 0 /\ s[i].valid
    BY <1>1, <1>3 DEF Accepts, ShardsCountUp, ExitCodesZero
  <2>2. (s[i].cpu => s[i].log_degree_cpu <= MaxCpuLogDegree) /\ (i = 1 => s[i].cpu)
    BY <1>1, <1>3 DEF Accepts, CpuDegreesFit, FirstHasCpu
  <2>3. /\ ~s[i].cpu => s[i].pv.start_pc = s[i].pv.next_pc
        /\ s[i].cpu => s[i].pv.start_pc # 0
    BY <1>1, <1>3 DEF Accepts, ProgramCounterChain
  <2>4. /\ ~s[i].memInit => s[i].pv.previous_init_addr_bits = s[i].pv.last_init_addr_bits
        /\ ~s[i].memFinalize =>
             s[i].pv.previous_finalize_addr_bits = s[i].pv.last_finalize_addr_bits
    BY <1>1, <1>3 DEF Accepts, MemoryAddressChain
  <2>5. i < 2 ^ MaxLogNumberOfShards
    <3>1. i < MaxShards
      BY <1>1, <1>3, <1>4
    <3> QED
      BY <1>4, <3>1
  <2> QED
    BY <2>1, <2>2, <2>3, <2>4, <2>5 DEF ShardRules
<1>6. ASSUME NEW i \in 2 .. n
      PROVE  ShardLinkRules(s[i - 1], s[i])
  <2>1. i \in 1 .. n /\ i - 1 \in 1 .. n /\ i # 1 /\ i - 1 # 0 /\ i # 0 /\ i = (i - 1) + 1
    BY <1>3
  <2>2. s[i].pv.shard = s[i - 1].pv.shard + 1
    BY <1>5, <2>1
  <2>3. s[i].pv.start_pc = s[i - 1].pv.next_pc
    BY <1>1, <1>3, <2>1 DEF Accepts, ProgramCounterChain
  <2>4. /\ s[i].pv.previous_init_addr_bits = s[i - 1].pv.last_init_addr_bits
        /\ s[i].pv.previous_finalize_addr_bits = s[i - 1].pv.last_finalize_addr_bits
    BY <1>1, <1>3, <2>1 DEF Accepts, MemoryAddressChain
  <2>5. /\ s[i - 1].pv.committed_value_digest # 0 \/ ~s[i].cpu =>
             s[i].pv.committed_value_digest = s[i - 1].pv.committed_value_digest
        /\ s[i - 1].pv.deferred_proofs_digest # 0 \/ ~s[i].cpu =>
             s[i].pv.deferred_proofs_digest = s[i - 1].pv.deferred_proofs_digest
    BY <1>1, <1>3, <2>1 DEF Accepts, DigestChain
  <2> QED
    BY <2>2, <2>3, <2>4, <2>5 DEF ShardLinkRules
<1>7. \A i \in 1 .. n : s[i].cpu => s[i].pv.execution_shard = CpuUpTo(s, i)
  BY <1>1, <1>3 DEF Accepts, ExecutionShardsCountUp
<1>8. FirstShardRules(s[1].pv, TRUE)
  <2>1. 1 \in 1 .. n
    BY <1>3
  <2>2. s[1].pv.shard = 1
    BY <1>5, <2>1
  <2>3. s[1].pv.start_pc = PcStart
    BY <1>1, <1>3, <2>1 DEF Accepts, ProgramCounterChain
  <2>4. /\ s[1].pv.previous_init_addr_bits = ZeroAddrBits
        /\ s[1].pv.previous_finalize_addr_bits = ZeroAddrBits
    BY <1>1, <1>3, <2>1 DEF Accepts, MemoryAddressChain
  <2> QED
    BY <2>2, <2>3, <2>4 DEF FirstShardRules
<1>9. s[1].cpu /\ s[n].pv.next_pc = 0
  <2>1. n \in 1 .. n
    BY <1>3
  <2> QED
    BY <1>1, <1>3, <2>1 DEF Accepts, FirstHasCpu, ProgramCounterChain
<1> QED
  BY <1>3, <1>5, <1>6, <1>7, <1>8, <1>9 DEF GoodShards

\* Without a CPU shard in between the count does not change.
LEMMA CpuFlat ==
  ASSUME NEW s, NEW j \in Nat, NEW m \in Nat, j <= m, \A i \in j + 1 .. m : ~s[i].cpu
  PROVE  CpuUpTo(s, m) = CpuUpTo(s, j)
<1> DEFINE G == {k \in Nat : j + k <= m => CpuUpTo(s, j + k) = CpuUpTo(s, j)}
<1>1. 0 \in G
  <2>1. j + 0 = j
    OBVIOUS
  <2> QED
    BY <2>1
<1>2. ASSUME NEW k \in Nat, k \in G PROVE k + 1 \in G
  <2> SUFFICES ASSUME j + (k + 1) <= m PROVE CpuUpTo(s, j + (k + 1)) = CpuUpTo(s, j)
    OBVIOUS
  <2>1. j + k <= m /\ j + k \in Nat /\ j + (k + 1) = (j + k) + 1 /\ (j + k) + 1 \in j + 1 .. m
    OBVIOUS
  <2>2. CpuUpTo(s, j + k) = CpuUpTo(s, j)
    BY <1>2, <2>1
  <2>3. ~s[(j + k) + 1].cpu
    BY <2>1
  <2>4. CpuUpTo(s, j + k) \in Nat /\ CpuUpTo(s, (j + k) + 1) = CpuUpTo(s, j + k) + 0
    BY <2>1, <2>3, CpuStep
  <2> QED
    BY <2>1, <2>2, <2>4
<1> HIDE DEF G
<1>3. m - j \in Nat /\ j + (m - j) = m
  OBVIOUS
<1>4. m - j \in G
  BY <1>1, <1>2, <1>3, Induction
<1> QED
  BY <1>3, <1>4 DEF G

\* A digest that is not zero stays, up to any later shard.
LEMMA DigestsStay ==
  ASSUME NEW s, NEW n \in Nat, GoodShards(s, n), NEW b \in 1 .. n, NEW g \in b .. n
  PROVE  /\ s[b].pv.committed_value_digest # 0 =>
              s[g].pv.committed_value_digest = s[b].pv.committed_value_digest
         /\ s[b].pv.deferred_proofs_digest # 0 =>
              s[g].pv.deferred_proofs_digest = s[b].pv.deferred_proofs_digest
<1> DEFINE Stay(i) ==
             /\ s[b].pv.committed_value_digest # 0 =>
                  s[i].pv.committed_value_digest = s[b].pv.committed_value_digest
             /\ s[b].pv.deferred_proofs_digest # 0 =>
                  s[i].pv.deferred_proofs_digest = s[b].pv.deferred_proofs_digest
           G == {k \in Nat : b + k <= n => Stay(b + k)}
<1>1. 0 \in G
  <2>1. b + 0 = b
    OBVIOUS
  <2> QED
    BY <2>1
<1>2. ASSUME NEW k \in Nat, k \in G PROVE k + 1 \in G
  <2> SUFFICES ASSUME b + (k + 1) <= n PROVE Stay(b + (k + 1))
    OBVIOUS
  <2>1. PICK i \in 2 .. n : i = b + (k + 1) /\ i - 1 = b + k /\ b + k <= n
    OBVIOUS
  <2>2. Stay(i - 1)
    BY <1>2, <2>1
  <2>3. ShardLinkRules(s[i - 1], s[i])
    BY <2>1 DEF GoodShards
  <2>4. /\ s[i - 1].pv.committed_value_digest # 0 =>
             s[i].pv.committed_value_digest = s[i - 1].pv.committed_value_digest
        /\ s[i - 1].pv.deferred_proofs_digest # 0 =>
             s[i].pv.deferred_proofs_digest = s[i - 1].pv.deferred_proofs_digest
    BY <2>3 DEF ShardLinkRules
  <2>5. Stay(i)
    BY <2>2, <2>4
  <2> QED
    BY <2>1, <2>5
<1> HIDE DEF G
<1>3. g - b \in Nat /\ b + (g - b) = g /\ g <= n
  OBVIOUS
<1>4. g - b \in G
  BY <1>1, <1>2, <1>3, Induction
<1> QED
  BY <1>3, <1>4 DEF G

\* The core program accepts every batch of such a core proof.
LEMMA GoodBatch ==
  ASSUME NEW s, Shards(s), NEW d, NEW n \in Nat, n = Len(s), GoodShards(s, n),
         NEW a \in 0 .. n, NEW b \in a .. n, a < b, NEW first, first <=> a = 0,
         NEW complete, complete => n = 1 /\ d = <<>> /\ Good(s, d)
  PROVE  CoreAccepts(SubSeq(s, a + 1, b), first, complete)
<1>1. PICK t : t = SubSeq(s, a + 1, b)
  OBVIOUS
<1>2. PICK k : k = b - a
  OBVIOUS
<1>3. /\ Len(t) = k /\ DOMAIN t = 1 .. k /\ (\A i \in 1 .. k : t[i] = s[a + i])
      /\ IsSeq(t) /\ k \in Nat /\ a \in Nat /\ b \in Nat
  <2>1. a \in 0 .. Len(s) /\ b \in a .. Len(s) /\ IsSeq(s)
    BY DEF Shards
  <2> QED
    BY <1>1, <1>2, <2>1, Piece
<1>4. k # 0 /\ 1 \in 1 .. k /\ k \in 1 .. k /\ a + k = b /\ a + 1 \in 1 .. n
      /\ \A i \in 1 .. k : a + i \in 1 .. n /\ a + i \in Nat
  BY <1>2, <1>3
<1>5. t # <<>> /\ Head(t) = s[a + 1] /\ Last(t) = s[b]
  <2>1. t \in Seq(Range(t))
    BY <1>3 DEF IsSeq
  <2>2. t # <<>> /\ Head(t) = t[1] /\ Last(t) = t[k]
    BY <1>3, <1>4, <2>1 DEF Last
  <2> QED
    BY <1>3, <1>4, <2>2
<1>6. FirstShardRules(s[a + 1].pv, first)
  <2>1. s[a + 1].pv.shard = a + 1
    BY <1>4 DEF GoodShards
  <2>2. first <=> s[a + 1].pv.shard = 1
    BY <1>3, <2>1
  <2>3. FirstShardRules(s[1].pv, TRUE)
    BY DEF GoodShards
  <2>4. first => a + 1 = 1
    OBVIOUS
  <2> QED
    BY <2>2, <2>3, <2>4 DEF FirstShardRules
<1>7. \A i \in 1 .. k : ShardRules(t[i])
  BY <1>3, <1>4 DEF GoodShards
<1>8. ASSUME NEW i \in 2 .. k PROVE ShardLinkRules(t[i - 1], t[i])
  <2>1. i \in 1 .. k /\ i - 1 \in 1 .. k /\ a + (i - 1) = (a + i) - 1 /\ a + i \in 2 .. n
    BY <1>2, <1>3
  <2>2. ShardLinkRules(s[(a + i) - 1], s[a + i])
    BY <2>1 DEF GoodShards
  <2> QED
    BY <1>3, <2>1, <2>2
<1>9. PICK c : c = CpuShards(t)
  OBVIOUS
<1>10. /\ c \in SUBSET (1 .. k) /\ \A i \in 1 .. k : i \in c <=> s[a + i].cpu
       /\ \A i \in c : t[i].pv.execution_shard = CpuUpTo(s, a + i)
  <2>1. c = {i \in 1 .. k : s[a + i].cpu}
    BY <1>3, <1>9 DEF CpuShards
  <2>2. ASSUME NEW i \in c PROVE t[i].pv.execution_shard = CpuUpTo(s, a + i)
    <3>1. i \in 1 .. k /\ s[a + i].cpu
      BY <2>1
    <3> QED
      BY <1>3, <1>4, <3>1 DEF GoodShards
  <2> QED
    BY <2>1, <2>2
<1>11. ExecutionShardRules(t)
  <2>1. ASSUME NEW i \in c, {j \in c : j < i} # {}
        PROVE  t[i].pv.execution_shard = t[Max({j \in c : j < i})].pv.execution_shard + 1
    <3>1. PICK B : B = {j \in c : j < i}
      OBVIOUS
    <3>2. PICK m : m = Max(B)
      OBVIOUS
    <3>3. m \in B /\ \A x \in B : x <= m
      <4>1. B \in SUBSET (1 .. k) /\ B # {}
        BY <1>10, <2>1, <3>1
      <4> QED
        BY <1>3, <3>2, <4>1, MinMax
    <3>4. m \in c /\ m < i /\ m \in Nat /\ i \in Nat /\ i \in 1 .. k
      BY <1>3, <1>10, <3>1, <3>3
    <3>5. \A j \in c : j < i => j <= m
      BY <3>1, <3>3
    <3>6. PICK y, z : y = a + m /\ z = a + (i - 1)
      OBVIOUS
    <3>7. y \in Nat /\ z \in Nat /\ y <= z /\ a + i = z + 1
      BY <1>3, <3>4, <3>6
    <3>8. ASSUME NEW x \in y + 1 .. z PROVE ~s[x].cpu
      <4>1. x - a \in 1 .. k /\ a + (x - a) = x /\ x - a < i /\ ~(x - a <= m)
        BY <1>3, <3>4, <3>6
      <4>2. x - a \notin c
        BY <3>5, <4>1
      <4> QED
        BY <1>10, <4>1, <4>2
    <3>9. CpuUpTo(s, z) = CpuUpTo(s, y)
      BY <3>7, <3>8, CpuFlat
    <3>10. s[a + i].cpu
      BY <1>10, <3>4
    <3>11. CpuUpTo(s, z) \in Nat /\ CpuUpTo(s, z + 1) = CpuUpTo(s, z) + 1
      BY <3>7, <3>10, CpuStep
    <3>12. t[i].pv.execution_shard = CpuUpTo(s, z + 1) /\ t[m].pv.execution_shard = CpuUpTo(s, y)
      BY <1>10, <3>4, <3>6, <3>7
    <3> QED
      BY <3>1, <3>2, <3>9, <3>11, <3>12
  <2> QED
    BY <1>9, <2>1 DEF ExecutionShardRules
<1>12. PICK v : v = CoreOutput(t, first, complete)
  OBVIOUS
<1>13. AssertComplete(v)
  <2>1. CASE complete
    <3>1. n = 1 /\ d = <<>> /\ Good(s, d) /\ a = 0 /\ b = 1 /\ k = 1 /\ first
      <4>1. n = 1 /\ d = <<>> /\ Good(s, d)
        BY <2>1, Zenon
      <4>2. a = 0 /\ b = 1 /\ k = 1
        BY <1>2, <4>1
      <4> QED
        BY <4>1, <4>2
    <3>2. /\ v.next_pc = s[b].pv.next_pc /\ v.start_shard = s[a + 1].pv.shard
          /\ v.next_shard = s[b].pv.shard + 1
          /\ v.start_reconstruct_deferred_digest = 0
          /\ v.end_reconstruct_deferred_digest = 0
          /\ v.deferred_proofs_digest = s[b].pv.deferred_proofs_digest
          /\ v.contains_execution_shard <=> c # {}
      BY <1>5, <1>9, <1>12 DEF CoreOutput
    <3>3. v.start_execution_shard =
            IF c = {} THEN s[a + 1].pv.execution_shard ELSE t[Min(c)].pv.execution_shard
      BY <1>5, <1>9, <1>12 DEF CoreOutput
    <3>4. v.global_cumulative_sum = InitialSum + SumOf([i \in DOMAIN t |-> t[i].sum])
      BY <1>12, <3>1 DEF CoreOutput
    <3>5. s[1].pv.shard = 1 /\ s[1].cpu /\ s[1].pv.next_pc = 0
          /\ s[1].pv.execution_shard = CpuUpTo(s, 1)
      BY <1>4, <3>1 DEF GoodShards
    <3>6. c = {1}
      <4>1. 1 .. k = {1} /\ a + 1 = 1
        BY <3>1
      <4>2. 1 \in c
        BY <1>4, <1>10, <3>5, <4>1
      <4> QED
        BY <1>10, <4>1, <4>2
    <3>7. Min(c) = 1
      <4>1. c \in SUBSET (1 .. 1) /\ c # {} /\ 1 \in Nat
        BY <3>6
      <4>2. Min(c) \in c
        BY <4>1, MinMax
      <4> QED
        BY <3>6, <4>2
    <3>8. v.start_execution_shard = 1
      <4>1. s[0 + 1].cpu /\ 0 \in Nat
        BY <3>5
      <4>2. CpuUpTo(s, 0) = 0 /\ CpuUpTo(s, 0 + 1) = CpuUpTo(s, 0) + 1
        BY <4>1, CpuStep
      <4>3. t[1] = s[0 + 1]
        BY <1>3, <1>4, <3>1
      <4> QED
        BY <3>3, <3>5, <3>6, <3>7, <4>2, <4>3
    <3>9. s[1].pv.deferred_proofs_digest = 0
      <4>1. Last(s) = s[1]
        BY <3>1 DEF Last
      <4>2. HashDeferredProofs(0, d) = 0
        <5>1. Len(d) = 0
          BY <3>1
        <5>2. PICK f : HashesTo(f, 0, d, Len(d)) /\ HashDeferredProofs(0, d) = f[Len(d)]
          BY <5>1, HashLoop
        <5> QED
          BY <5>1, <5>2 DEF HashesTo
      <4> QED
        BY <3>1, <4>1, <4>2 DEF Good
    <3>10. InitialSum + SumOf([i \in DOMAIN t |-> t[i].sum]) = 0
      <4>1. InitialSum + SumOf([i \in DOMAIN s |-> s[i].sum]) = 0
        BY <3>1 DEF Good, VerifyCore
      <4>2. DOMAIN s = 1 .. 1
        <5>1. s \in Seq(Range(s))
          BY DEF Shards, IsSeq
        <5>2. DOMAIN s = 1 .. Len(s)
          BY <5>1
        <5> QED
          BY <3>1, <5>2
      <4>3. [i \in DOMAIN t |-> t[i].sum] = [i \in DOMAIN s |-> s[i].sum]
        <5>1. DOMAIN t = 1 .. 1 /\ \A i \in 1 .. 1 : t[i] = s[i]
          BY <1>3, <3>1
        <5> QED
          BY <4>2, <5>1
      <4> QED
        BY <4>1, <4>3
    <3> QED
      BY <3>1, <3>2, <3>4, <3>5, <3>6, <3>8, <3>9, <3>10 DEF AssertComplete
  <2>2. CASE ~complete
    <3>1. v.is_complete = complete
      BY <1>12 DEF CoreOutput
    <3> QED
      BY <2>2, <3>1 DEF AssertComplete
  <2> QED
    BY <2>1, <2>2
<1> QED
  BY <1>1, <1>3, <1>5, <1>6, <1>7, <1>8, <1>11, <1>12, <1>13 DEF CoreAccepts

\* Where a proof in the tree that has a CPU shard starts and ends its numbers.
LEMMA GoodExecutes ==
  ASSUME NEW s, NEW n \in Nat, GoodShards(s, n), NEW v, NEW a \in 0 .. n, NEW b \in a .. n,
         Executes(s, v, a, b), v.contains_execution_shard
  PROVE  /\ v.start_execution_shard = CpuUpTo(s, a) + 1
         /\ v.next_execution_shard = CpuUpTo(s, b) + 1
<1>1. PICK i \in a + 1 .. b : s[i].cpu
  BY DEF Executes
<1>2. i \in 1 .. n /\ i \in Nat /\ a \in Nat /\ b \in Nat
  OBVIOUS
<1>3. PICK x \in Int, y \in Nat, A \in Nat, B \in Nat :
         x = v.start_execution_shard /\ y = CpuUpTo(s, i) /\ A = CpuUpTo(s, a) /\ B = CpuUpTo(s, b)
  BY <1>2, CpuStep DEF Executes
<1>4. y = x + y - A - 1
  BY <1>1, <1>2, <1>3 DEF Executes, GoodShards
<1>5. v.next_execution_shard = x + B - A
  BY <1>3 DEF Executes
<1>6. x = A + 1
  BY <1>4
<1> QED
  BY <1>3, <1>5, <1>6

\* Neighbours in the tree follow each other.
LEMMA GoodFollows ==
  ASSUME NEW s, NEW d, IsSeq(d), NEW n \in Nat, n = Len(s), GoodShards(s, n), NEW p, NEW q,
         NEW a, NEW b, NEW g, NEW c, NEW e, NEW h,
         Covers(s, d, p.pv, a, b, c, e), Covers(s, d, q.pv, b, g, e, h)
  PROVE  Follows(p, q)
<1>1. PICK u : u = p.pv
  OBVIOUS
<1>2. PICK w : w = q.pv
  OBVIOUS
<1>3. /\ Ranges(s, d, a, b, c, e) /\ Ranges(s, d, b, g, e, h)
      /\ Starts(s, w, b, g) /\ Ends(s, u, a, b, c, e) /\ Ends(s, w, b, g, e, h)
      /\ AddsUp(s, d, u, a, b, c, e) /\ AddsUp(s, d, w, b, g, e, h)
      /\ Executes(s, u, a, b) /\ Executes(s, w, b, g)
  BY <1>1, <1>2 DEF Covers
<1>4. Len(d) \in Nat
  BY SeqIsSeq DEF IsSeq
<1>5. /\ a \in 0 .. n /\ b \in a .. n /\ b \in 1 .. n /\ g \in b .. n /\ b \in 0 .. n
      /\ a \in Nat /\ b \in Nat /\ g \in Nat /\ c \in Nat /\ e \in Nat /\ h \in Nat /\ c <= e
      /\ (b < g \/ b = g) /\ (c < e \/ c = e)
      /\ b = g => b = n
      /\ b < g => c = e /\ b + 1 \in 2 .. n /\ (b + 1) - 1 = b
  BY <1>3, <1>4 DEF Ranges
<1>6. w.start_pc = u.next_pc /\ w.start_shard = u.next_shard
      /\ w.previous_init_addr_bits = u.last_init_addr_bits
      /\ w.previous_finalize_addr_bits = u.last_finalize_addr_bits
  <2>1. CASE b < g
    <3>1. ShardLinkRules(s[b], s[b + 1])
      <4>1. ShardLinkRules(s[(b + 1) - 1], s[b + 1])
        BY <1>5, <2>1 DEF GoodShards
      <4> QED
        BY <1>5, <2>1, <4>1
    <3> QED
      BY <1>3, <1>5, <2>1, <3>1 DEF ShardLinkRules, Starts, Ends
  <2>2. CASE b = g
    <3>1. s[b].pv.next_pc = 0
      BY <1>5, <2>2 DEF GoodShards
    <3> QED
      BY <1>3, <1>5, <2>2, <3>1 DEF Starts, Ends
  <2> QED
    BY <1>5, <2>1, <2>2
<1>7. /\ w.start_reconstruct_deferred_digest = u.end_reconstruct_deferred_digest
      /\ w.zkm_vk_digest = u.zkm_vk_digest
  BY <1>3 DEF AddsUp
<1>8. /\ u.committed_value_digest # 0 => w.committed_value_digest = u.committed_value_digest
      /\ u.deferred_proofs_digest # 0 => w.deferred_proofs_digest = u.deferred_proofs_digest
  <2>1. /\ s[b].pv.committed_value_digest # 0 =>
             s[g].pv.committed_value_digest = s[b].pv.committed_value_digest
        /\ s[b].pv.deferred_proofs_digest # 0 =>
             s[g].pv.deferred_proofs_digest = s[b].pv.deferred_proofs_digest
    BY <1>5, DigestsStay
  <2> QED
    BY <1>3, <2>1 DEF Ends
<1>9. u.contains_execution_shard /\ w.contains_execution_shard =>
        w.start_execution_shard = u.next_execution_shard
  <2>1. u.contains_execution_shard => u.next_execution_shard = CpuUpTo(s, b) + 1
    BY <1>3, <1>5, GoodExecutes
  <2>2. w.contains_execution_shard => w.start_execution_shard = CpuUpTo(s, b) + 1
    BY <1>3, <1>5, GoodExecutes
  <2> QED
    BY <2>1, <2>2
<1> QED
  BY <1>1, <1>2, <1>6, <1>7, <1>8, <1>9 DEF Follows, LinkRules

\* A proof of everything passes assert_complete.
LEMMA GoodComplete ==
  ASSUME NEW s, Shards(s), NEW d, IsSeq(d), Good(s, d), NEW n \in Nat, n = Len(s), n # 0,
         DOMAIN s = 1 .. n, GoodShards(s, n), NEW v, Covers(s, d, v, 0, n, 0, Len(d))
  PROVE  AssertComplete(v)
<1>1. PICK m \in Nat : m = Len(d)
  BY SeqIsSeq DEF IsSeq
<1>2. /\ Starts(s, v, 0, n) /\ Ends(s, v, 0, n, 0, m) /\ AddsUp(s, d, v, 0, n, 0, m)
      /\ Executes(s, v, 0, n)
  BY <1>1 DEF Covers
<1>3. 0 < n /\ 1 \in 1 .. n /\ n \in 1 .. n /\ 0 + 1 = 1 /\ (m = 0 \/ 0 < m) /\ n + 1 # 1
      /\ 0 \in 0 .. n /\ n \in 0 .. n
  BY <1>1
<1>4. s[1].pv.shard = 1 /\ s[n].pv.shard = n /\ s[1].cpu /\ s[n].pv.next_pc = 0
  BY <1>3 DEF GoodShards
<1>5. v.next_pc = 0 /\ v.next_shard = n + 1
  BY <1>2, <1>3, <1>4 DEF Ends
<1>6. v.start_shard = 1
  BY <1>2, <1>3, <1>4 DEF Starts
<1>7. v.contains_execution_shard
  BY <1>2, <1>3, <1>4 DEF Executes
<1>8. v.start_execution_shard = 1
  <2>1. v.start_execution_shard = CpuUpTo(s, 0) + 1
    BY <1>2, <1>3, <1>7, GoodExecutes
  <2>2. CpuUpTo(s, 0) = 0
    BY <1>1, CpuStep
  <2> QED
    BY <2>1, <2>2
<1>9. /\ v.start_reconstruct_deferred_digest = 0
      /\ v.end_reconstruct_deferred_digest = v.deferred_proofs_digest
  <2>1. 0 \in 0 .. Len(d) /\ Len(d) \in 0 .. Len(d)
    BY <1>1
  <2>2. DigestTo(d, 0) = 0 /\ DigestTo(d, Len(d)) = HashDeferredProofs(0, d)
    BY <2>1, PieceDigest
  <2>3. v.deferred_proofs_digest = s[n].pv.deferred_proofs_digest
    BY <1>2 DEF Ends
  <2>4. s[n].pv.deferred_proofs_digest = HashDeferredProofs(0, d)
    BY DEF Good, Last
  <2> QED
    BY <1>1, <1>2, <2>2, <2>3, <2>4 DEF AddsUp
<1>10. v.global_cumulative_sum = 0
  <2>1. 0 \in 0 .. Len(s) /\ Len(s) \in 0 .. Len(s)
    BY <1>3
  <2>2. /\ TotalTo(s, 0) = 0 /\ TotalTo(s, Len(s)) \in Int
        /\ SumOf([i \in DOMAIN s |-> s[i].sum]) = TotalTo(s, Len(s))
    BY <2>1, PieceSum
  <2>3. InitialSum + SumOf([i \in DOMAIN s |-> s[i].sum]) = 0
    BY DEF Good, VerifyCore
  <2>4. v.global_cumulative_sum = TotalTo(s, n) - TotalTo(s, 0) + InitialSum
    BY <1>2 DEF AddsUp
  <2>5. PICK x \in Int : x = TotalTo(s, n) /\ InitialSum + x = 0
    BY <2>2, <2>3
  <2>6. v.global_cumulative_sum = x - 0 + InitialSum
    BY <2>2, <2>4, <2>5
  <2> QED
    BY <2>5, <2>6, RecursionAssumption
<1> QED
  BY <1>3, <1>5, <1>6, <1>7, <1>8, <1>9, <1>10 DEF AssertComplete

-----------------------------------------------------------------------------
(* Nothing that verify accepts is refused. *)

\* A proof that the prover has made with the reduce program's key.
IsMade(p) == p.digest = "reduce" /\ p.vk = ReduceVk

\* The compress program takes its vk and its digest.
LEMMA MadeIsFine ==
  ASSUME NEW p, IsMade(p), p.pv.vk_root = VkRoot
  PROVE  ProofRules(p) /\ MerkleAccepts(p)
BY AggregationAssumption DEF IsMade, ProofRules, MerkleAccepts

\* A first layer of one proof is that of one shard.
FitsBatches(s, d, z) == Len(s) > z \/ Len(s) = 1 \/ d # <<>>

\* The programs of the first layer accept their inputs; the only leaf is complete.
LEMMA GoodLayer ==
  ASSUME Shards(proof), IsSeq(deferred), batchSize \in Nat \ {0}, Good(proof, deferred),
         FitsBatches(proof, deferred, batchSize)
  PROVE  /\ FirstLayerAccepted
         /\ \A k \in 1 .. Len(FirstLayer) : IsMade(FirstLayer[k])
         /\ IsSingle => FirstLayer[1].pv.is_complete
<1>1. PICK s, d, z : s = proof /\ d = deferred /\ z = batchSize
  OBVIOUS
<1>2. PICK n \in Nat : n = Len(s) /\ n # 0 /\ DOMAIN s = 1 .. n /\ GoodShards(s, n)
  BY <1>1, GoodShardsHold DEF Good
<1>3. PICK m \in Nat : m = Len(d) /\ DOMAIN d = 1 .. m
  BY <1>1, SeqIsSeq DEF IsSeq
<1>4. z \in Nat \ {0} /\ Shards(s) /\ IsSeq(d) /\ Good(s, d) /\ FitsBatches(s, d, z)
  BY <1>1
<1>5. PICK N \in Nat : N = (n + z - 1) \div z /\ CutsWell(n, z, N)
  <2>1. CutsWell(n, z, (n + z - 1) \div z)
    BY <1>4, Cutting
  <2>2. (n + z - 1) \div z \in Nat
    BY <2>1 DEF CutsWell
  <2> QED
    BY <2>1, <2>2
<1>6. PICK M \in Nat : M = (m + z - 1) \div z /\ CutsWell(m, z, M)
  <2>1. CutsWell(m, z, (m + z - 1) \div z)
    BY <1>4, Cutting
  <2>2. (m + z - 1) \div z \in Nat
    BY <2>1 DEF CutsWell
  <2> QED
    BY <2>1, <2>2
<1>7. PICK x : x = CoreIsComplete
  OBVIOUS
<1>8. x <=> n = 1 /\ d = <<>>
  BY <1>1, <1>2, <1>7 DEF CoreIsComplete
<1>9. /\ DOMAIN Chunks = 1 .. N
      /\ \A k \in 1 .. N : Chunks[k] = SubSeq(s, (k - 1) * z + 1, Cut(n, z, k))
  BY <1>1, <1>2, <1>5, Zenon DEF Chunks, Cut
<1>10. /\ DOMAIN DeferredChunks = 1 .. M
       /\ \A k \in 1 .. M : DeferredChunks[k] = SubSeq(d, (k - 1) * z + 1, Cut(m, z, k))
  BY <1>1, <1>3, <1>6, Zenon DEF DeferredChunks, Cut
<1>11. ASSUME NEW k \in 1 .. N PROVE CoreAccepts(Chunks[k], k = 1, CoreIsComplete)
  <2>1. PICK a : a = (k - 1) * z
    OBVIOUS
  <2>2. PICK b : b = Cut(n, z, k)
    OBVIOUS
  <2>3. a \in 0 .. n /\ b \in a .. n /\ a < b /\ (k = 1 <=> a = 0)
    BY <1>5, <2>1, <2>2 DEF CutsWell
  <2>4. PICK first : first = (k = 1)
    OBVIOUS
  <2>5. (first <=> a = 0) /\ (x => n = 1 /\ d = <<>> /\ Good(s, d))
    BY <1>4, <1>8, <2>3, <2>4
  <2>6. CoreAccepts(SubSeq(s, a + 1, b), first, x)
    BY <1>2, <1>4, <2>3, <2>5, GoodBatch
  <2>7. Chunks[k] = SubSeq(s, a + 1, b)
    BY <1>9, <2>1, <2>2
  <2> QED
    BY <1>7, <2>4, <2>6, <2>7
<1>12. ASSUME NEW k \in 1 .. M PROVE DeferredAccepts(DeferredChunks[k])
  <2>1. PICK a : a = (k - 1) * z
    OBVIOUS
  <2>2. PICK b : b = Cut(m, z, k)
    OBVIOUS
  <2>3. a \in 0 .. Len(d) /\ b \in a .. Len(d)
    BY <1>3, <1>6, <2>1, <2>2 DEF CutsWell
  <2>4. PICK t : t = SubSeq(d, a + 1, b)
    OBVIOUS
  <2>5. DOMAIN t = 1 .. (b - a) /\ (\A j \in 1 .. (b - a) : t[j] = d[a + j]) /\ a \in Nat /\ b \in Nat
    BY <1>4, <2>3, <2>4, Piece
  <2>6. \A j \in 1 .. (b - a) : a + j \in 1 .. m
    BY <1>3, <2>3, <2>5
  <2>7. DeferredAccepts(d)
    BY <1>4 DEF Good
  <2>8. DeferredAccepts(t)
    <3> SUFFICES ASSUME NEW j \in 1 .. (b - a)
                 PROVE  /\ MerkleAccepts(t[j]) /\ t[j].pv.vk_root = VkRoot
                        /\ t[j].digest = "reduce" /\ t[j].pv.is_complete
      BY <2>5 DEF DeferredAccepts
    <3>1. PICK i \in 1 .. m : t[j] = d[i]
      BY <2>5, <2>6
    <3>2. /\ MerkleAccepts(d[i]) /\ d[i].pv.vk_root = VkRoot
          /\ d[i].digest = "reduce" /\ d[i].pv.is_complete
      BY <1>3, <2>7 DEF DeferredAccepts
    <3> QED
      BY <3>1, <3>2
  <2> QED
    BY <1>10, <2>1, <2>2, <2>4, <2>8
<1> DEFINE P == [k \in DOMAIN Chunks |-> Made(CoreOutput(Chunks[k], k = 1, CoreIsComplete), "reduce")]
           Q == [k \in DOMAIN DeferredChunks |->
                   Made(DeferredOutput(DeferredChunks[k], DeferredStart(k), Last(proof).pv), "reduce")]
<1>13. FirstLayer = P \o Q
  BY Zenon DEF FirstLayer
<1>14. /\ \A k \in 1 .. N : IsMade(P[k])
       /\ \A k \in 1 .. M : IsMade(Q[k])
  BY <1>9, <1>10 DEF IsMade, Made
<1>15. P[1].pv.is_complete = x
  <2>1. 1 \in DOMAIN Chunks
    BY <1>2, <1>5, <1>9 DEF CutsWell
  <2>2. P[1].pv = CoreOutput(Chunks[1], 1 = 1, CoreIsComplete)
    BY <2>1 DEF Made
  <2> HIDE DEF P
  <2> QED
    BY <1>7, <2>2 DEF CoreOutput
<1>16. Joined(FirstLayer, P, Q, N, M)
  <2>1. PICK S : S = {P[k] : k \in 1 .. N} \cup {Q[k] : k \in 1 .. M}
    OBVIOUS
  <2>2. P = [k \in 1 .. N |-> P[k]] /\ Q = [k \in 1 .. M |-> Q[k]]
    BY <1>9, <1>10
  <2> HIDE DEF P, Q
  <2>3. P \in [1 .. N -> S] /\ Q \in [1 .. M -> S]
    BY <2>1, <2>2
  <2> QED
    BY <1>13, <2>3, InConcat
<1> HIDE DEF P, Q
<1>17. FirstLayerAccepted
  BY <1>9, <1>10, <1>11, <1>12 DEF FirstLayerAccepted
<1>18. ASSUME NEW k \in 1 .. Len(FirstLayer) PROVE IsMade(FirstLayer[k])
  <2>1. Len(FirstLayer) = N + M
    BY <1>16 DEF Joined
  <2>2. CASE k \in 1 .. N
    BY <1>14, <1>16, <2>2 DEF Joined
  <2>3. CASE k \notin 1 .. N
    <3>1. PICK j \in 1 .. M : N + j = k
      <4>1. k - N \in 1 .. M /\ N + (k - N) = k
        BY <2>1, <2>3
      <4> QED
        BY <4>1
    <3>2. FirstLayer[N + j] = Q[j]
      BY <1>16 DEF Joined
    <3> QED
      BY <1>14, <3>1, <3>2
  <2> QED
    BY <2>2, <2>3
<1>19. ASSUME IsSingle PROVE FirstLayer[1].pv.is_complete
  <2>1. N + M = 1
    BY <1>16, <1>19 DEF Joined, IsSingle
  <2>2. N # 0
    BY <1>2, <1>5 DEF CutsWell
  <2>3. N = 1 /\ M = 0
    BY <2>1, <2>2
  <2>4. m = 0 /\ n <= z
    <3>1. m = 0
      BY <1>6, <2>3 DEF CutsWell
    <3>2. Cut(n, z, 1) = n
      BY <1>5, <2>3 DEF CutsWell
    <3>3. 1 * z = z
      BY <1>4
    <3> QED
      BY <1>4, <3>1, <3>2, <3>3 DEF Cut
  <2>5. d = <<>>
    <3>1. d \in Seq(Range(d))
      BY <1>4 DEF IsSeq
    <3> QED
      BY <1>3, <2>4, <3>1
  <2>6. n = 1
    BY <1>2, <1>4, <2>4, <2>5 DEF FitsBatches
  <2>7. FirstLayer[1] = P[1]
    <3>1. 1 \in 1 .. N
      BY <2>3
    <3> QED
      BY <1>16, <3>1 DEF Joined
  <2> QED
    BY <1>8, <1>15, <2>5, <2>6, <2>7
<1> QED
  BY <1>17, <1>18, <1>19

\* verify accepts the core proof, and what else AcceptedIsNeverRefused asks for.
Acceptable == Good(proof, deferred) /\ FitsBatches(proof, deferred, batchSize)

\* The inductive invariant: none of the programs has refused, and the root is complete.
AcceptedInvariant ==
    Acceptable =>
        /\ stage # "rejected"
        /\ stage \in {"tree", "compressed", "shrunk"} =>
             \A k \in 1 .. Len(frontier) : IsMade(frontier[k])
        /\ stage = "compressed" => frontier[1].pv.is_complete

\* Two neighbours of such a tree are compressed.
LEMMA GoodCompress ==
  ASSUME NEW s, Shards(s), NEW d, IsSeq(d), Good(s, d), NEW f, Tree(f, s, d),
         \A k \in 1 .. Len(f) : IsMade(f[k]), NEW i \in 1 .. Len(f) - 1,
         NEW complete, complete => Len(f) = 2
  PROVE  CompressAccepts(<<f[i], f[i + 1]>>, complete)
<1>1. PICK l \in Nat : l = Len(f)
  BY SeqIsSeq DEF IsSeq, Tree
<1>2. PICK n \in Nat : n = Len(s) /\ n # 0 /\ DOMAIN s = 1 .. n /\ GoodShards(s, n)
  BY GoodShardsHold DEF Good
<1>3. i \in 1 .. l /\ i + 1 \in 1 .. l /\ (i + 1) - 1 = i
  BY <1>1
<1>4. PICK A, B : Divides(f, s, d, A, B)
  BY DEF Tree, Divided
<1>5. PICK p, q : p = f[i] /\ q = f[i + 1]
  OBVIOUS
<1>6. PICK a, b, g, c, e, h : /\ a = A[i - 1] /\ b = A[i] /\ g = A[i + 1]
                              /\ c = B[i - 1] /\ e = B[i] /\ h = B[i + 1]
  OBVIOUS
<1>7. Covers(s, d, p.pv, a, b, c, e) /\ Covers(s, d, q.pv, b, g, e, h)
  <2>1. Covers(s, d, f[i].pv, A[i - 1], A[i], B[i - 1], B[i])
    BY <1>1, <1>3, <1>4 DEF Divides
  <2>2. Covers(s, d, f[i + 1].pv, A[(i + 1) - 1], A[i + 1], B[(i + 1) - 1], B[i + 1])
    BY <1>1, <1>3, <1>4 DEF Divides
  <2> QED
    BY <1>3, <1>5, <1>6, <2>1, <2>2
<1>8. Follows(p, q)
  BY <1>2, <1>7, GoodFollows
<1>9. ProofRules(p) /\ ProofRules(q)
  <2>1. IsMade(p) /\ IsMade(q)
    BY <1>1, <1>3, <1>5
  <2>2. p.pv.vk_root = VkRoot /\ q.pv.vk_root = VkRoot
    BY <1>7 DEF Covers, AddsUp
  <2> QED
    BY <2>1, <2>2, MadeIsFine
<1>10. PICK o : o = CompressOutput(<<p, q>>, complete)
  OBVIOUS
<1>11. /\ Covers(s, d, o, a, g, c, h) /\ o.is_complete = complete
       /\ CompressAccepts(<<p, q>>, complete) <=>
            ProofRules(p) /\ ProofRules(q) /\ Follows(p, q) /\ AssertComplete(o)
  BY <1>7, <1>8, <1>10, MergeCovers
<1>12. AssertComplete(o)
  <2>1. CASE complete
    <3>1. Len(f) = 2
      BY <2>1, Zenon
    <3>2. i = 1 /\ i - 1 = 0 /\ i + 1 = 2
      BY <3>1
    <3>3. a = 0 /\ c = 0 /\ g = n /\ h = Len(d)
      BY <1>2, <1>4, <1>6, <3>1, <3>2 DEF Divides
    <3>4. Covers(s, d, o, 0, n, 0, Len(d))
      BY <1>11, <3>3
    <3> QED
      BY <1>2, <3>4, GoodComplete
  <2>2. CASE ~complete
    BY <1>11, <2>2 DEF AssertComplete
  <2> QED
    BY <2>1, <2>2
<1> QED
  BY <1>5, <1>8, <1>9, <1>11, <1>12

\* A root program accepts the proof that is left.
LEMMA GoodRoot ==
  ASSUME NEW s, Shards(s), NEW d, IsSeq(d), Good(s, d), NEW f, Tree(f, s, d), Len(f) = 1,
         IsMade(f[1])
  PROVE  RootAccepts(f[1])
<1>1. PICK n \in Nat : n = Len(s) /\ n # 0 /\ DOMAIN s = 1 .. n /\ GoodShards(s, n)
  BY GoodShardsHold DEF Good
<1>2. PICK p, m : p = f[1] /\ m = Len(d)
  OBVIOUS
<1>3. Covers(s, d, p.pv, 0, n, 0, m)
  BY <1>1, <1>2, SingleDivided DEF Tree
<1>4. ProofRules(p)
  <2>1. p.pv.vk_root = VkRoot
    BY <1>3 DEF Covers, AddsUp
  <2> QED
    BY <1>2, <2>1, MadeIsFine
<1>5. PICK complete : complete = TRUE
  OBVIOUS
<1>6. PICK o : o = CompressOutput(<<p>>, complete)
  OBVIOUS
<1>7. /\ Covers(s, d, o, 0, n, 0, m)
      /\ CompressAccepts(<<p>>, complete) <=> ProofRules(p) /\ AssertComplete(o)
  BY <1>3, <1>6, Root
<1>8. AssertComplete(o)
  BY <1>1, <1>2, <1>7, GoodComplete
<1> QED
  BY <1>2, <1>4, <1>5, <1>7, <1>8 DEF RootAccepts

\* Every step keeps the invariant.
LEMMA AcceptedInvariantStep ==
  TreeInvariant /\ AcceptedInvariant /\ [Next]_vars => AcceptedInvariant'
<1> SUFFICES ASSUME TreeInvariant, AcceptedInvariant, [Next]_vars, Acceptable'
             PROVE  /\ stage' # "rejected"
                    /\ stage' \in {"tree", "compressed", "shrunk"} =>
                         \A k \in 1 .. Len(frontier') : IsMade(frontier'[k])
                    /\ stage' = "compressed" => frontier'[1].pv.is_complete
  BY DEF AcceptedInvariant
<1>1. /\ Shards(proof) /\ IsSeq(deferred) /\ batchSize \in Nat \ {0}
      /\ stage \in {"tree", "compressed", "shrunk", "wrapped"} => Tree(frontier, proof, deferred)
      /\ stage \in {"compressed", "shrunk", "wrapped"} => Len(frontier) = 1
  BY DEF TreeInvariant
<1>2. ASSUME UNCHANGED <<proof, deferred, batchSize>>
      PROVE  /\ Good(proof, deferred) /\ FitsBatches(proof, deferred, batchSize)
             /\ stage # "rejected"
             /\ stage \in {"tree", "compressed", "shrunk"} =>
                  \A k \in 1 .. Len(frontier) : IsMade(frontier[k])
             /\ stage = "compressed" => frontier[1].pv.is_complete
  <2>1. Acceptable
    BY <1>2 DEF Acceptable
  <2> QED
    BY <2>1 DEF AcceptedInvariant, Acceptable
<1>3. CASE ProveShard \/ DeviatingShard
  <2>1. stage' = "core"
    BY <1>3 DEF ProveShard, DeviatingShard
  <2> QED
    BY <2>1
<1>4. CASE RunFirstLayer
  <2>1. UNCHANGED <<proof, deferred, batchSize>>
    BY <1>4 DEF RunFirstLayer
  <2>2. /\ FirstLayerAccepted
        /\ \A k \in 1 .. Len(FirstLayer) : IsMade(FirstLayer[k])
        /\ IsSingle => FirstLayer[1].pv.is_complete
    BY <1>1, <1>2, <2>1, GoodLayer
  <2>3. frontier' = FirstLayer /\ stage' = (IF IsSingle THEN "compressed" ELSE "tree")
    BY <1>4, <2>2 DEF RunFirstLayer
  <2> QED
    BY <2>2, <2>3
<1>5. ASSUME NEW i \in DOMAIN frontier, Compress(i)
      PROVE  /\ stage' # "rejected"
             /\ stage' \in {"tree", "compressed", "shrunk"} =>
                  \A k \in 1 .. Len(frontier') : IsMade(frontier'[k])
             /\ stage' = "compressed" => frontier'[1].pv.is_complete
  <2>1. /\ UNCHANGED <<proof, deferred, batchSize>> /\ stage = "tree"
        /\ i + 1 \in DOMAIN frontier
    BY <1>5 DEF Compress
  <2>2. PICK f, g : f = frontier /\ g = frontier'
    OBVIOUS
  <2>3. Tree(f, proof, deferred) /\ \A k \in 1 .. Len(f) : IsMade(f[k])
    BY <1>1, <1>2, <2>1, <2>2
  <2>4. PICK l \in Nat : l = Len(f) /\ DOMAIN f = 1 .. l
    BY <2>3, SeqIsSeq DEF Tree, IsSeq
  <2>5. i \in 1 .. Len(f) - 1 /\ i \in 1 .. l - 1
    BY <1>5, <2>1, <2>2, <2>4
  <2>6. PICK t, complete : t = SubSeq(f, i, i + 1) /\ complete = (l = 2)
    OBVIOUS
  <2>7. PICK x : x = Made(CompressOutput(t, complete), "reduce")
    OBVIOUS
  <2>8. IsMade(x)
    BY <2>7 DEF IsMade, Made
  <2>9. t = <<f[i], f[i + 1]>> /\ IsSeq(f)
    <3>1. PICK r : r = SubSeq(f, 1, i - 1) \o <<x>> \o SubSeq(f, i + 2, Len(f))
      OBVIOUS
    <3>2. IsSeq(f)
      BY <2>3 DEF Tree
    <3> QED
      BY <2>5, <2>6, <3>1, <3>2, Shorten
  <2>10. CompressAccepts(t, complete)
    <3>1. complete => Len(f) = 2
      BY <2>4, <2>6
    <3>2. Good(proof, deferred)
      BY <1>2, <2>1
    <3>3. CompressAccepts(<<f[i], f[i + 1]>>, complete)
      BY <1>1, <2>3, <2>5, <3>1, <3>2, GoodCompress
    <3> QED
      BY <2>9, <3>3
  <2>11. /\ g = SubSeq(f, 1, i - 1) \o <<x>> \o SubSeq(f, i + 2, Len(f))
         /\ stage' = (IF l = 2 THEN "compressed" ELSE "tree")
    BY <1>5, <2>2, <2>4, <2>6, <2>7, <2>10 DEF Compress
  <2>12. Shortened(g, f, i, x)
    BY <2>5, <2>9, <2>11, Shorten
  <2>13. ASSUME NEW k \in 1 .. Len(g) PROVE IsMade(g[k])
    <3>1. Len(g) = l - 1
      BY <2>4, <2>12 DEF Shortened
    <3>2. k \in 1 .. i - 1 \/ k = i \/ k \in i + 1 .. l - 1
      BY <2>4, <2>5, <3>1
    <3>3. CASE k \in 1 .. i - 1
      <4>1. k \in 1 .. l
        BY <2>4, <2>5, <3>3
      <4> QED
        BY <2>3, <2>4, <2>12, <3>3, <4>1 DEF Shortened
    <3>4. CASE k = i
      BY <2>8, <2>12, <3>4 DEF Shortened
    <3>5. CASE k \in i + 1 .. l - 1
      <4>1. k + 1 \in 1 .. l
        BY <2>4, <2>5, <3>5
      <4>2. g[k] = f[k + 1]
        BY <2>4, <2>12, <3>5 DEF Shortened
      <4> QED
        BY <2>3, <2>4, <4>1, <4>2
    <3> QED
      BY <3>2, <3>3, <3>4, <3>5
  <2>14. l = 2 => g[1].pv.is_complete
    <3> SUFFICES ASSUME l = 2 PROVE g[1].pv.is_complete
      OBVIOUS
    <3>1. i = 1
      BY <2>5
    <3>2. g[1] = x
      BY <2>12, <3>1 DEF Shortened
    <3>3. x.pv = CompressOutput(t, complete)
      BY <2>7 DEF Made
    <3>4. CompressOutput(t, complete).is_complete = complete
      BY DEF CompressOutput
    <3> QED
      BY <2>6, <3>2, <3>3, <3>4
  <2> QED
    BY <2>2, <2>11, <2>13, <2>14
<1>6. ASSUME NEW from \in {"compressed", "shrunk"}, NEW to \in {"shrunk", "wrapped"}, NEW digest,
             to = "shrunk" => digest = "reduce", RootStep(from, to, digest)
      PROVE  /\ stage' \in {"shrunk", "wrapped"}
             /\ stage' = "shrunk" => \A k \in 1 .. Len(frontier') : IsMade(frontier'[k])
  <2>1. UNCHANGED <<proof, deferred, batchSize>> /\ stage = from
    BY <1>6 DEF RootStep
  <2>2. /\ Tree(frontier, proof, deferred) /\ Len(frontier) = 1
        /\ \A k \in 1 .. Len(frontier) : IsMade(frontier[k])
        /\ Good(proof, deferred)
    BY <1>1, <1>2, <1>6, <2>1
  <2>3. IsMade(frontier[1])
    BY <2>2
  <2>4. RootAccepts(frontier[1])
    BY <1>1, <2>2, <2>3, GoodRoot
  <2>5. PICK x : x = Made(CompressOutput(frontier, TRUE), digest)
    OBVIOUS
  <2>6. frontier' = <<x>> /\ stage' = to
    BY <1>6, <2>4, <2>5 DEF RootStep
  <2>7. to = "shrunk" => IsMade(x)
    BY <1>6, <2>5 DEF IsMade, Made
  <2>8. Len(<<x>>) = 1 /\ <<x>>[1] = x
    OBVIOUS
  <2> QED
    BY <1>6, <2>6, <2>7, <2>8
<1>7. CASE Shrink
  BY <1>6, <1>7 DEF Shrink
<1>8. CASE Wrap
  BY <1>6, <1>8 DEF Wrap
<1>9. CASE UNCHANGED vars
  <2>1. /\ proof' = proof /\ deferred' = deferred /\ batchSize' = batchSize
        /\ stage' = stage /\ frontier' = frontier
    BY <1>9 DEF vars
  <2> QED
    BY <1>2, <2>1
<1> QED
  BY <1>3, <1>4, <1>5, <1>7, <1>8, <1>9 DEF Next

\* The converse: whatever the tree, a core proof that verify accepts, with the
\* deferred proofs it has committed to, is refused by no program, and
\* verify_compressed accepts the root.
THEOREM AcceptedIsNeverRefusedHolds == Spec => []AcceptedIsNeverRefused
<1>1. Init => TreeInvariant /\ AcceptedInvariant
  BY TreeInvariantInit DEF Init, AcceptedInvariant
<1>2. TreeInvariant /\ AcceptedInvariant /\ [Next]_vars => TreeInvariant' /\ AcceptedInvariant'
  BY TreeInvariantStep, AcceptedInvariantStep
<1>3. TreeInvariant /\ AcceptedInvariant => AcceptedIsNeverRefused
  <2> SUFFICES ASSUME TreeInvariant, AcceptedInvariant, Acceptable
               PROVE  ~Refused
    BY DEF AcceptedIsNeverRefused, Acceptable, Good, FitsBatches, DeferredMatches
  <2>1. CASE stage = "compressed"
    <3>1. Tree(frontier, proof, deferred) /\ Len(frontier) = 1
      BY <2>1 DEF TreeInvariant
    <3>2. IsMade(frontier[1]) /\ frontier[1].pv.is_complete
      BY <2>1, <3>1 DEF AcceptedInvariant
    <3>3. Covers(proof, deferred, frontier[1].pv, 0, Len(proof), 0, Len(deferred))
      BY <3>1, SingleDivided DEF Tree
    <3>4. frontier[1].pv.vk_root = VkRoot /\ frontier[1].pv.zkm_vk_digest = VkDigest
      BY <3>3 DEF Covers, AddsUp
    <3>5. MerkleAccepts(frontier[1])
      BY <3>2, <3>4, MadeIsFine
    <3> QED
      BY <2>1, <3>2, <3>4, <3>5 DEF Refused, Verified, VerifyCompressed, IsMade
  <2>2. CASE stage # "compressed"
    BY <2>2 DEF Refused, AcceptedInvariant
  <2> QED
    BY <2>1, <2>2
<1> QED
  BY <1>1, <1>2, <1>3, PTL DEF Spec

-----------------------------------------------------------------------------
(* Only neighbours. *)

\* Every proof has a shard or a deferred proof: the ranges move forward.
LEMMA Forward ==
  ASSUME NEW s, Len(s) \in Nat, NEW d, Len(d) \in Nat, NEW f, NEW n \in Nat, n = Len(f),
         NEW A, NEW B, Divides(f, s, d, A, B), NEW k \in 0 .. n, NEW m \in 0 .. n, k < m
  PROVE  A[k] \in Nat /\ B[k] \in Nat /\ A[m] \in Nat /\ B[m] \in Nat /\ A[k] + B[k] < A[m] + B[m]
<1>1. ASSUME NEW i \in 1 .. n
      PROVE  /\ A[i - 1] \in Nat /\ A[i] \in Nat /\ B[i - 1] \in Nat /\ B[i] \in Nat
             /\ A[i - 1] + B[i - 1] < A[i] + B[i]
  <2>1. Ranges(s, d, A[i - 1], A[i], B[i - 1], B[i])
    BY DEF Divides, Covers
  <2>2. PICK a, b, c, e : a = A[i - 1] /\ b = A[i] /\ c = B[i - 1] /\ e = B[i]
    OBVIOUS
  <2>3. /\ a \in 0 .. Len(s) /\ b \in a .. Len(s) /\ c \in 0 .. Len(d) /\ e \in c .. Len(d)
        /\ a = b => c < e
    BY <2>1, <2>2 DEF Ranges
  <2>4. a \in Nat /\ b \in Nat /\ c \in Nat /\ e \in Nat /\ a + c < b + e
    BY <2>3
  <2> QED
    BY <2>2, <2>4
<1>2. A[0] \in Nat /\ B[0] \in Nat
  BY DEF Divides
<1>3. ASSUME NEW i \in 0 .. n PROVE A[i] \in Nat /\ B[i] \in Nat
  <2>1. i = 0 \/ i \in 1 .. n
    OBVIOUS
  <2> QED
    BY <1>1, <1>2, <2>1
<1> DEFINE G == {x \in Nat : k + x + 1 <= n => A[k] + B[k] < A[k + x + 1] + B[k + x + 1]}
<1>4. 0 \in G
  <2> SUFFICES ASSUME k + 0 + 1 <= n PROVE A[k] + B[k] < A[k + 0 + 1] + B[k + 0 + 1]
    OBVIOUS
  <2>1. k + 1 \in 1 .. n /\ (k + 1) - 1 = k /\ k + 0 + 1 = k + 1
    OBVIOUS
  <2>2. A[(k + 1) - 1] + B[(k + 1) - 1] < A[k + 1] + B[k + 1]
    BY <1>1, <2>1
  <2> QED
    BY <2>1, <2>2
<1>5. ASSUME NEW x \in Nat, x \in G PROVE x + 1 \in G
  <2> SUFFICES ASSUME k + (x + 1) + 1 <= n
               PROVE  A[k] + B[k] < A[k + (x + 1) + 1] + B[k + (x + 1) + 1]
    OBVIOUS
  <2>1. PICK i \in 1 .. n : i = k + (x + 1) + 1 /\ i - 1 = k + x + 1 /\ i - 1 \in 0 .. n
    OBVIOUS
  <2>2. A[k] + B[k] < A[i - 1] + B[i - 1]
    BY <1>5, <2>1
  <2>3. A[i - 1] + B[i - 1] < A[i] + B[i]
    BY <1>1
  <2>4. A[k] \in Nat /\ B[k] \in Nat /\ A[i] \in Nat /\ B[i] \in Nat
        /\ A[i - 1] \in Nat /\ B[i - 1] \in Nat
    BY <1>1, <1>3
  <2>5. A[k] + B[k] < A[i] + B[i]
    <3>1. PICK t, u, w : t = A[k] + B[k] /\ u = A[i - 1] + B[i - 1] /\ w = A[i] + B[i]
      OBVIOUS
    <3>2. t \in Nat /\ u \in Nat /\ w \in Nat
      <4>1. \A y, z \in Nat : y + z \in Nat
        OBVIOUS
      <4> QED
        BY <2>4, <3>1, <4>1, Zenon
    <3>3. t < u /\ u < w
      BY <2>2, <2>3, <3>1
    <3>4. t < w
      BY <3>3, <3>2
    <3> QED
      BY <3>1, <3>4
  <2> QED
    BY <2>1, <2>5
<1> HIDE DEF G
<1>6. m - k - 1 \in Nat /\ k + (m - k - 1) + 1 = m
  OBVIOUS
<1>7. m - k - 1 \in G
  BY <1>4, <1>5, <1>6, Induction
<1> QED
  BY <1>3, <1>6, <1>7 DEF G

\* Where a proof in the tree begins and ends, by its shard numbers.
LEMMA ShardNumbers ==
  ASSUME NEW s, NEW n \in Nat, n = Len(s), \A i \in 1 .. n : s[i].pv.shard = i,
         NEW d, NEW v, NEW a, NEW b, NEW c, NEW e, Covers(s, d, v, a, b, c, e)
  PROVE  v.start_shard = a + 1 /\ v.next_shard = b + 1 /\ a \in Nat /\ b \in Nat
<1>1. a \in Nat /\ b \in Nat /\ b \in 1 .. n /\ (a < b \/ a = b) /\ (a < b => a + 1 \in 1 .. n)
  BY DEF Covers, Ranges
<1>2. s[b].pv.shard = b /\ (a < b => s[a + 1].pv.shard = a + 1)
  BY <1>1
<1>3. v.next_shard = b + 1
  BY <1>2 DEF Covers, Ends
<1>4. v.start_shard = a + 1
  BY <1>1, <1>2 DEF Covers, Starts
<1> QED
  BY <1>1, <1>3, <1>4

\* The compress program refuses two proofs of the tree that are not neighbours: the
\* shards or the deferred proofs between them are missed, or the two overlap.
THEOREM OnlyNeighboursCompressHolds == Spec => []OnlyNeighboursCompress
<1>1. Init => TreeInvariant
  BY TreeInvariantInit
<1>2. TreeInvariant /\ [Next]_vars => TreeInvariant'
  BY TreeInvariantStep
<1>3. TreeInvariant => OnlyNeighboursCompress
  <2> SUFFICES ASSUME TreeInvariant, stage = "tree", VerifyCore(proof),
                      NEW i \in DOMAIN frontier, NEW j \in DOMAIN frontier, j # i + 1,
                      CompressAccepts(<<frontier[i], frontier[j]>>, FALSE)
               PROVE  FALSE
    BY DEF OnlyNeighboursCompress
  <2>1. PICK s, d, f : s = proof /\ d = deferred /\ f = frontier
    OBVIOUS
  <2>2. Shards(s) /\ IsSeq(d) /\ DigestsDiffer(d) /\ Tree(f, s, d)
    BY <2>1 DEF TreeInvariant
  <2>3. PICK n \in Nat : n = Len(s) /\ DOMAIN s = 1 .. n
    BY <2>2, SeqIsSeq DEF Shards, IsSeq
  <2>4. PICK m \in Nat : m = Len(d)
    BY <2>2, SeqIsSeq DEF IsSeq
  <2>5. PICK l \in Nat : l = Len(f) /\ DOMAIN f = 1 .. l
    BY <2>2, SeqIsSeq DEF Tree, IsSeq
  <2>6. \A k \in 1 .. n : s[k].pv.shard = k
    BY <2>1, <2>3 DEF VerifyCore, Accepts, ShardsCountUp
  <2>7. PICK A, B : Divides(f, s, d, A, B)
    BY <2>2 DEF Tree, Divided
  <2>8. i \in 1 .. l /\ j \in 1 .. l
    BY <2>1, <2>5
  <2>9. PICK p, q : p = f[i] /\ q = f[j]
    OBVIOUS
  <2>10. /\ Covers(s, d, p.pv, A[i - 1], A[i], B[i - 1], B[i])
         /\ Covers(s, d, q.pv, A[j - 1], A[j], B[j - 1], B[j])
    BY <2>5, <2>7, <2>8, <2>9 DEF Divides
  <2>11. LinkRules(p.pv, q.pv)
    <3>1. PICK t : t = <<p, q>>
      OBVIOUS
    <3>2. Len(t) = 2 /\ t[1] = p /\ t[2] = q
      BY <3>1
    <3>3. \A k \in 2 .. Len(t) : LinkRules(t[k - 1].pv, t[k].pv)
      BY <2>1, <2>9, <3>1 DEF CompressAccepts
    <3>4. 2 \in 2 .. 2 /\ 2 - 1 = 1
      OBVIOUS
    <3> QED
      BY <3>2, <3>3, <3>4
  <2>12. p.pv.next_shard = A[i] + 1 /\ q.pv.start_shard = A[j - 1] + 1
         /\ A[i] \in Nat /\ A[j - 1] \in Nat
    BY <2>3, <2>6, <2>10, ShardNumbers
  <2>13. A[j - 1] = A[i]
    BY <2>11, <2>12 DEF LinkRules
  <2>14. B[i] \in 0 .. m /\ B[j - 1] \in 0 .. m
    BY <2>4, <2>10 DEF Covers, Ranges
  <2>15. DigestTo(d, B[j - 1]) = DigestTo(d, B[i])
    BY <2>10, <2>11 DEF LinkRules, Covers, AddsUp
  <2>16. B[j - 1] = B[i]
    BY <2>2, <2>4, <2>14, <2>15 DEF DigestsDiffer, DigestTo
  <2>17. PICK h \in 0 .. l : h = j - 1 /\ h # i /\ i \in 0 .. l
    BY <2>8
  <2>18. h < i \/ i < h
    BY <2>8, <2>17
  <2>19. Len(s) \in Nat /\ Len(d) \in Nat
    BY <2>3, <2>4
  <2>20. CASE h < i
    <3>1. A[h] \in Nat /\ B[h] \in Nat /\ A[h] + B[h] < A[i] + B[i]
      BY <2>5, <2>7, <2>17, <2>19, <2>20, Forward
    <3> QED
      BY <2>13, <2>16, <2>17, <3>1
  <2>21. CASE i < h
    <3>1. A[h] \in Nat /\ B[h] \in Nat /\ A[i] + B[i] < A[h] + B[h]
      BY <2>5, <2>7, <2>17, <2>19, <2>21, Forward
    <3> QED
      BY <2>13, <2>16, <2>17, <3>1
  <2> QED
    BY <2>18, <2>20, <2>21
<1> QED
  BY <1>1, <1>2, <1>3, PTL DEF Spec
-----------------------------------------------------------------------------
(* A proof in the tree and the batch of its shards. *)

\* v and w agree but for the flag is_complete.
Agree(v, w) ==
    /\ v.committed_value_digest = w.committed_value_digest
    /\ v.deferred_proofs_digest = w.deferred_proofs_digest
    /\ v.start_pc = w.start_pc
    /\ v.next_pc = w.next_pc
    /\ v.start_shard = w.start_shard
    /\ v.next_shard = w.next_shard
    /\ v.start_execution_shard = w.start_execution_shard
    /\ v.next_execution_shard = w.next_execution_shard
    /\ v.previous_init_addr_bits = w.previous_init_addr_bits
    /\ v.last_init_addr_bits = w.last_init_addr_bits
    /\ v.previous_finalize_addr_bits = w.previous_finalize_addr_bits
    /\ v.last_finalize_addr_bits = w.last_finalize_addr_bits
    /\ v.zkm_vk_digest = w.zkm_vk_digest
    /\ v.global_cumulative_sum = w.global_cumulative_sum
    /\ v.start_reconstruct_deferred_digest = w.start_reconstruct_deferred_digest
    /\ v.end_reconstruct_deferred_digest = w.end_reconstruct_deferred_digest
    /\ v.exit_code = w.exit_code
    /\ v.contains_execution_shard = w.contains_execution_shard
    /\ v.vk_root = w.vk_root

\* Records of public values that have the same fields are the same.
LEMMA SameValues ==
  ASSUME NEW v, NEW w, IsValues(v), IsValues(w), Agree(v, w), v.is_complete = w.is_complete
  PROVE  v = w
  BY Zenon DEF IsValues, Agree

\* Two proofs of the same shards of a core proof that verify accepts, and of no
\* deferred proof, agree.
LEMMA CoversDetermines ==
  ASSUME NEW s, NEW d, NEW n \in Nat, GoodShards(s, n), n = Len(s),
         NEW v, NEW w, NEW a, NEW b, a < b, Covers(s, d, v, a, b, 0, 0), Covers(s, d, w, a, b, 0, 0)
  PROVE  Agree(v, w)
<1>1. a \in 0 .. n /\ b \in a .. n
  BY DEF Covers, Ranges
<1>2. Starts(s, v, a, b) /\ Starts(s, w, a, b) /\ Ends(s, v, a, b, 0, 0) /\ Ends(s, w, a, b, 0, 0)
  BY DEF Covers
<1>3. AddsUp(s, d, v, a, b, 0, 0) /\ AddsUp(s, d, w, a, b, 0, 0)
  BY DEF Covers
<1>4. Executes(s, v, a, b) /\ Executes(s, w, a, b) /\ Exact(s, v, a, b, 0) /\ Exact(s, w, a, b, 0)
  BY DEF Covers
<1>5. v.contains_execution_shard = w.contains_execution_shard
  <2>1. v.contains_execution_shard <=> w.contains_execution_shard
    BY <1>4 DEF Executes
  <2>2. v.contains_execution_shard \in BOOLEAN /\ w.contains_execution_shard \in BOOLEAN
    BY <1>4 DEF Exact
  <2>3. \A p, q \in BOOLEAN : (p <=> q) => p = q
    OBVIOUS
  <2> QED
    BY <2>1, <2>2, <2>3, Zenon
<1>6. /\ v.start_execution_shard = w.start_execution_shard
      /\ v.next_execution_shard = w.next_execution_shard
  <2>1. CASE v.contains_execution_shard
    <3>1. w.contains_execution_shard
      BY <1>5, <2>1, Zenon
    <3>2. /\ v.start_execution_shard = CpuUpTo(s, a) + 1
          /\ v.next_execution_shard = CpuUpTo(s, b) + 1
      BY <1>1, <1>4, <2>1, GoodExecutes
    <3>3. /\ w.start_execution_shard = CpuUpTo(s, a) + 1
          /\ w.next_execution_shard = CpuUpTo(s, b) + 1
      BY <1>1, <1>4, <3>1, GoodExecutes
    <3> QED
      BY <3>2, <3>3, Zenon
  <2>2. CASE ~v.contains_execution_shard
    BY <1>4, <1>5, <2>2 DEF Exact
  <2> QED
    BY <2>1, <2>2
<1>7. v.exit_code = w.exit_code
  BY <1>4 DEF Exact
<1>8. /\ v.start_shard = w.start_shard
      /\ v.start_pc = w.start_pc
      /\ v.previous_init_addr_bits = w.previous_init_addr_bits
      /\ v.previous_finalize_addr_bits = w.previous_finalize_addr_bits
  BY <1>2 DEF Starts
<1>9. /\ v.next_shard = w.next_shard
      /\ v.last_init_addr_bits = w.last_init_addr_bits
      /\ v.last_finalize_addr_bits = w.last_finalize_addr_bits
      /\ v.committed_value_digest = w.committed_value_digest
      /\ v.deferred_proofs_digest = w.deferred_proofs_digest
      /\ v.next_pc = w.next_pc
  BY <1>2 DEF Ends
<1>10. /\ v.global_cumulative_sum = w.global_cumulative_sum
       /\ v.start_reconstruct_deferred_digest = w.start_reconstruct_deferred_digest
       /\ v.end_reconstruct_deferred_digest = w.end_reconstruct_deferred_digest
       /\ v.zkm_vk_digest = w.zkm_vk_digest
       /\ v.vk_root = w.vk_root
  BY <1>3 DEF AddsUp
<1> QED
  BY <1>5, <1>6, <1>7, <1>8, <1>9, <1>10 DEF Agree

\* The flag is_complete is only copied to the output of the core program.
LEMMA CoreOutputFlag ==
  ASSUME NEW batch, NEW first, NEW x, NEW y
  PROVE  /\ Agree(CoreOutput(batch, first, x), CoreOutput(batch, first, y))
         /\ CoreOutput(batch, first, x).is_complete = x
<1>1. PICK u, w : u = CoreOutput(batch, first, x) /\ w = CoreOutput(batch, first, y)
  OBVIOUS
<1>2. /\ u.committed_value_digest = w.committed_value_digest
      /\ u.deferred_proofs_digest = w.deferred_proofs_digest
      /\ u.start_pc = w.start_pc
      /\ u.next_pc = w.next_pc
  BY <1>1 DEF CoreOutput
<1>3. /\ u.start_shard = w.start_shard
      /\ u.next_shard = w.next_shard
      /\ u.start_execution_shard = w.start_execution_shard
      /\ u.next_execution_shard = w.next_execution_shard
  BY <1>1 DEF CoreOutput
<1>4. /\ u.previous_init_addr_bits = w.previous_init_addr_bits
      /\ u.last_init_addr_bits = w.last_init_addr_bits
      /\ u.previous_finalize_addr_bits = w.previous_finalize_addr_bits
      /\ u.last_finalize_addr_bits = w.last_finalize_addr_bits
  BY <1>1 DEF CoreOutput
<1>5. /\ u.zkm_vk_digest = w.zkm_vk_digest
      /\ u.global_cumulative_sum = w.global_cumulative_sum
      /\ u.start_reconstruct_deferred_digest = w.start_reconstruct_deferred_digest
      /\ u.end_reconstruct_deferred_digest = w.end_reconstruct_deferred_digest
  BY <1>1 DEF CoreOutput
<1>6. /\ u.exit_code = w.exit_code
      /\ u.contains_execution_shard = w.contains_execution_shard
      /\ u.vk_root = w.vk_root
  BY <1>1 DEF CoreOutput
<1>7. u.is_complete = x
  BY <1>1 DEF CoreOutput
<1> QED
  BY <1>1, <1>2, <1>3, <1>4, <1>5, <1>6, <1>7 DEF Agree

\* A proof of some shards and of no deferred proof has the values that the core
\* program computes for all the shards at once.
LEMMA BatchValues ==
  ASSUME NEW s, Shards(s), NEW d, IsSeq(d), NEW n \in Nat, n = Len(s), GoodShards(s, n),
         NEW v, NEW a, NEW b, a < b, Covers(s, d, v, a, b, 0, 0)
  PROVE  v = CoreOutput(SubSeq(s, v.start_shard, v.next_shard - 1), v.start_shard = 1, v.is_complete)
<1>1. v.start_shard = a + 1 /\ v.next_shard = b + 1 /\ a \in Nat /\ b \in Nat
  BY ShardNumbers DEF GoodShards
<1>2. a \in 0 .. n /\ b \in a .. n /\ v.next_shard - 1 = b
  BY <1>1 DEF Covers, Ranges
<1>3. PICK first : first = (v.start_shard = 1)
  OBVIOUS
<1>4. first <=> a = 0
  <2>1. v.start_shard = 1 <=> a = 0
    BY <1>1
  <2> QED
    BY <1>3, <2>1, Zenon
<1>5. PICK x : x = FALSE
  OBVIOUS
<1>6. PICK t : t = SubSeq(s, a + 1, b)
  OBVIOUS
<1>7. CoreAccepts(t, first, x)
  <2>1. x => n = 1 /\ d = <<>> /\ Good(s, d)
    BY <1>5
  <2> QED
    BY <1>2, <1>4, <1>6, <2>1, GoodBatch
<1>8. PICK w : w = CoreOutput(t, first, x)
  OBVIOUS
<1>9. Covers(s, d, w, a, b, 0, 0)
  BY <1>2, <1>4, <1>6, <1>7, <1>8, CoreLeaf
<1>10. PICK u, y : y = v.is_complete /\ u = CoreOutput(t, first, y)
  OBVIOUS
<1>11. Agree(u, w) /\ u.is_complete = v.is_complete
  BY <1>8, <1>10, CoreOutputFlag
<1>12. Agree(v, w)
  BY <1>9, CoversDetermines
<1>13. Agree(v, u)
  BY <1>11, <1>12 DEF Agree
<1>14. IsValues(v) /\ IsValues(u)
  BY <1>10, OutputsAreValues DEF Covers, Exact
<1>15. v = u
  BY <1>11, <1>13, <1>14, SameValues
<1> QED
  BY <1>1, <1>2, <1>3, <1>6, <1>10, <1>15

\* Compressing neither loses nor adds anything: a proof in the tree that stands for
\* shards only has the values the core program would commit to for all of them.
THEOREM AggregateIsBatchHolds == Spec => []AggregateIsBatch
<1>1. Init => TreeInvariant
  BY TreeInvariantInit
<1>2. TreeInvariant /\ [Next]_vars => TreeInvariant'
  BY TreeInvariantStep
<1>3. TreeInvariant => AggregateIsBatch
  <2> SUFFICES ASSUME TreeInvariant, stage \in {"tree", "compressed"}, VerifyCore(proof),
                      NEW i \in DOMAIN frontier, ShardsOnly(frontier[i]),
                      NEW v, v = frontier[i].pv
               PROVE  v = CoreOutput(SubSeq(proof, v.start_shard, v.next_shard - 1),
                                     v.start_shard = 1, v.is_complete)
    BY DEF AggregateIsBatch
  <2>1. PICK s, d, f : s = proof /\ d = deferred /\ f = frontier
    OBVIOUS
  <2>2. Shards(s) /\ IsSeq(d) /\ DigestsDiffer(d) /\ Tree(f, s, d)
    BY <2>1 DEF TreeInvariant
  <2>3. PICK n \in Nat : n = Len(s) /\ DOMAIN s = 1 .. n
    BY <2>2, SeqIsSeq DEF Shards, IsSeq
  <2>4. PICK m \in Nat : m = Len(d)
    BY <2>2, SeqIsSeq DEF IsSeq
  <2>5. PICK l \in Nat : l = Len(f) /\ DOMAIN f = 1 .. l
    BY <2>2, SeqIsSeq DEF Tree, IsSeq
  <2>6. n < MaxShards
    <3>1. n # 0
      BY <2>2, <2>3 DEF Tree, Shards, IsSeq
    <3>2. n \in 1 .. n
      BY <3>1
    <3>3. s[n].pv.shard = n
      BY <2>1, <2>3, <3>2 DEF VerifyCore, Accepts, ShardsCountUp
    <3>4. ShardRules(s[n])
      BY <2>2, <2>3, <3>2 DEF Tree, RulesOfEach
    <3> QED
      BY <3>3, <3>4, RecursionAssumption DEF ShardRules
  <2>7. GoodShards(s, n)
    BY <2>1, <2>2, <2>3, <2>6, GoodShardsHold
  <2>8. PICK A, B : Divides(f, s, d, A, B)
    BY <2>2 DEF Tree, Divided
  <2>9. PICK a, b, c, e : Covers(s, d, v, a, b, c, e)
    BY <2>1, <2>5, <2>8 DEF Divides
  <2>10. v.start_shard = a + 1 /\ v.next_shard = b + 1 /\ a \in Nat /\ b \in Nat
    BY <2>3, <2>7, <2>9, ShardNumbers DEF GoodShards
  <2>11. a < b
    <3>1. v.next_shard > v.start_shard
      BY DEF ShardsOnly
    <3> QED
      BY <2>10, <3>1
  <2>12. c = 0 /\ e \in 0 .. m /\ 0 \in 0 .. m
    BY <2>4, <2>9, <2>11 DEF Covers, Exact, Ranges
  <2>13. DigestTo(d, e) = 0
    <3>1. v.end_reconstruct_deferred_digest = 0
      BY DEF ShardsOnly
    <3> QED
      BY <2>9, <3>1 DEF Covers, AddsUp
  <2>14. DigestTo(d, 0) = 0
    BY <2>2, <2>4, <2>12, PieceDigest
  <2>15. e = 0
    BY <2>2, <2>4, <2>12, <2>13, <2>14 DEF DigestsDiffer, DigestTo
  <2>16. Covers(s, d, v, a, b, 0, 0)
    BY <2>9, <2>12, <2>15
  <2> QED
    BY <2>1, <2>2, <2>3, <2>7, <2>11, <2>16, BatchValues
<1> QED
  BY <1>1, <1>2, <1>3, PTL DEF Spec
=============================================================================
