--------------------------- MODULE SequenceLemmas ---------------------------
(***************************************************************************)
(* Facts about numbers and sequences that the other proofs rest on.        *)
(* Induction is done with sets: a set of numbers that has 0, and n + 1     *)
(* with every n, has them all.  FlattenSeq is determined by its equations, *)
(* and so turns Append, Tail and concatenation of lists of sequences into  *)
(* concatenation.                                                          *)
(***************************************************************************)
EXTENDS Naturals, Sequences, SequencesExt, SequenceTheorems, WellFoundedInduction, TLAPS

\* Every set of natural numbers that is not empty has a least element.
LEMMA LeastNumber ==
  ASSUME NEW T \in SUBSET Nat, T # {}
  PROVE  \E x \in T : \A y \in T : x <= y
<1> DEFINE R == {ss \in Nat \X Nat : ss[1] < ss[2]}
<1>1. IsWellFoundedOn(R, Nat)
  BY NatLessThanWellFounded DEF OpToRel
<1>2. \E x \in T : \A y \in T : ~ (<<y, x>> \in R)
  <2> HIDE DEF R
  <2> QED
    BY <1>1, WFMin
<1>3. PICK x \in T : \A y \in T : ~ (<<y, x>> \in R)
  BY <1>2
<1>4. ASSUME NEW y \in T PROVE x <= y
  <2>1. ~ (<<y, x>> \in R)
    BY <1>3
  <2>2. <<y, x>> \in Nat \X Nat /\ <<y, x>>[1] = y /\ <<y, x>>[2] = x
    OBVIOUS
  <2>3. ~ (y < x)
    BY <2>1, <2>2
  <2> QED
    BY <2>3
<1> QED
  BY <1>4

\* A set of numbers that has 0, and n + 1 with every n, has every number.
LEMMA Induction ==
  ASSUME NEW G, 0 \in G, \A n \in Nat : n \in G => n + 1 \in G
  PROVE  \A n \in Nat : n \in G
<1> SUFFICES ASSUME Nat \ G # {} PROVE FALSE
  OBVIOUS
<1>1. PICK m \in Nat \ G : \A y \in Nat \ G : m <= y
  <2>1. Nat \ G \in SUBSET Nat
    OBVIOUS
  <2> QED
    BY <2>1, LeastNumber
<1>2. m # 0 /\ m - 1 \in Nat /\ ~ (m <= m - 1)
  OBVIOUS
<1>3. m - 1 \in G
  BY <1>1, <1>2
<1>4. (m - 1) + 1 \in G
  BY <1>2, <1>3
<1> QED
  BY <1>2, <1>4

\* Division with remainder.
LEMMA DivMod ==
  ASSUME NEW n \in Nat \ {0}, NEW a \in Nat
  PROVE  a = n * (a \div n) + (a % n)
OBVIOUS

\* How many chunks of n there are in l.
LEMMA Division ==
  ASSUME NEW n \in Nat \ {0}, NEW l \in Nat
  PROVE  /\ (l + n - 1) \div n \in Nat
         /\ l <= ((l + n - 1) \div n) * n
         /\ ((l + n - 1) \div n) * n <= l + n - 1
<1> DEFINE a == l + n - 1
           q == a \div n
<1>1. a \in Nat
  OBVIOUS
<1>2. a = n * (a \div n) + (a % n) /\ a % n \in 0 .. n - 1 /\ a \div n \in Nat
  <2> HIDE DEF a
  <2>1. a = n * (a \div n) + (a % n)
    BY <1>1, DivMod
  <2>2. a % n \in 0 .. n - 1
    BY <1>1
  <2>3. a \div n \in Nat
    BY <1>1
  <2> QED
    BY <2>1, <2>2, <2>3
<1>3. n * q = q * n /\ q \in Nat /\ q * n \in Nat
  BY <1>2
<1> QED
  BY <1>2, <1>3

\* The products that occur as the bounds of chunks.
LEMMA ChunkBounds ==
  ASSUME NEW n \in Nat \ {0}, NEW m \in Nat, NEW k \in 1 .. m
  PROVE  /\ k * n \in Nat /\ (k - 1) * n \in Nat /\ (k - 1) * n + n = k * n
         /\ k < m => k * n + n <= m * n
<1>1. k * n \in Nat /\ (k - 1) * n \in Nat /\ (k - 1) * n + n = k * n
  OBVIOUS
<1>2. ASSUME k < m PROVE k * n + n <= m * n
  <2>1. PICK d \in Nat : m = k + 1 + d
    <3>1. m - (k + 1) \in Nat /\ m = k + 1 + (m - (k + 1))
      BY <1>2
    <3> QED
      BY <3>1
  <2>2. (k + 1 + d) * n = k * n + n + d * n /\ d * n \in Nat
    OBVIOUS
  <2> QED
    BY <1>1, <2>1, <2>2
<1> QED
  BY <1>1, <1>2

-----------------------------------------------------------------------------
(* Sequences, whatever they contain. *)

IsSeq(s) == s \in Seq(Range(s))

\* A sequence over some set is a sequence.
LEMMA SeqIsSeq ==
  ASSUME NEW S, NEW s \in Seq(S)
  PROVE  /\ IsSeq(s) /\ Len(s) \in Nat /\ DOMAIN s = 1 .. Len(s)
         /\ Range(s) \subseteq S
<1>1. /\ Len(s) \in Nat /\ DOMAIN s = 1 .. Len(s)
  OBVIOUS
<1>2. \A i \in 1 .. Len(s) : s[i] \in Range(s)
  BY <1>1 DEF Range
<1>3. s \in Seq(Range(s))
  BY <1>2
<1>4. Range(s) \subseteq S
  BY DEF Range
<1> QED
  BY <1>1, <1>3, <1>4 DEF IsSeq

\* A function on 1 .. n is a sequence.
LEMMA FunctionIsSeq ==
  ASSUME NEW n \in Nat, NEW S, NEW f \in [1 .. n -> S]
  PROVE  f \in Seq(S) /\ Len(f) = n /\ IsSeq(f)
<1>1. f \in Seq(S) /\ Len(f) = n
  OBVIOUS
<1> QED
  BY <1>1, SeqIsSeq

\* Concatenation of sequences.
LEMMA ConcatIsSeq ==
  ASSUME NEW a, NEW b, IsSeq(a), IsSeq(b)
  PROVE  /\ IsSeq(a \o b) /\ Len(a \o b) = Len(a) + Len(b)
         /\ a \o <<>> = a /\ <<>> \o a = a
         /\ IsPrefix(a, a \o b)
<1> DEFINE S == Range(a) \cup Range(b)
<1>1. a \in Seq(S) /\ b \in Seq(S)
  <2>1. a \in Seq(Range(a)) /\ b \in Seq(Range(b))
    BY DEF IsSeq
  <2> QED
    BY <2>1
<1> HIDE DEF S
<1>2. a \o b \in Seq(S) /\ Len(a \o b) = Len(a) + Len(b)
  BY <1>1
<1>3. a \o <<>> = a /\ <<>> \o a = a
  BY <1>1
<1>4. IsPrefix(a, a \o b)
  <2>1. Len(a) <= Len(a \o b)
    BY <1>1, <1>2
  <2>2. SubSeq(a, 1, Len(a)) = SubSeq(a \o b, 1, Len(a))
    <3>1. /\ SubSeq(a, 1, Len(a)) = [i \in 1 .. Len(a) |-> a[i]]
          /\ SubSeq(a \o b, 1, Len(a)) = [i \in 1 .. Len(a) |-> (a \o b)[i]]
      BY <1>1, <1>2, <2>1
    <3>2. \A i \in 1 .. Len(a) : (a \o b)[i] = a[i]
      BY <1>1
    <3> QED
      BY <3>1, <3>2
  <2> QED
    BY <2>1, <2>2 DEF IsPrefix
<1> QED
  BY <1>2, <1>3, <1>4, SeqIsSeq

\* Concatenation of sequences over S is associative.
Associative(S) == \A a, b, c \in Seq(S) : (a \o b) \o c = a \o (b \o c)

\* It is, whatever the sequences contain.
LEMMA ConcatAssoc == \A S : Associative(S)
BY SMTT(30) DEF Associative

-----------------------------------------------------------------------------
(* FlattenSeq. *)

\* f[i] is the concatenation of the first i sequences, up to n.
Flattens(f, seqs, n) ==
    /\ f[1] = seqs[1]
    /\ \A i \in 2 .. n : f[i] = f[i - 1] \o seqs[i]

\* There is such an f for every list of sequences ...
LEMMA FlattensExists ==
  ASSUME NEW S, NEW seqs \in Seq(Seq(S)), seqs # <<>>
  PROVE  \E f \in [1 .. Len(seqs) -> Seq(S)] : Flattens(f, seqs, Len(seqs))
<1> DEFINE G == {n \in Nat : n + 1 <= Len(seqs) =>
                     \E f \in [1 .. n + 1 -> Seq(S)] : Flattens(f, seqs, n + 1)}
<1>0. Len(seqs) \in Nat \ {0}
  BY EmptySeq
<1>1. 0 \in G
  <2> DEFINE f == [i \in 1 .. 0 + 1 |-> seqs[1]]
  <2>1. f \in [1 .. 0 + 1 -> Seq(S)] /\ f[1] = seqs[1]
    BY <1>0
  <2>2. \A i \in 2 .. 0 + 1 : FALSE
    OBVIOUS
  <2>3. Flattens(f, seqs, 0 + 1)
    BY <2>1, <2>2 DEF Flattens
  <2> QED
    BY <2>1, <2>3
<1>2. ASSUME NEW n \in Nat, n \in G PROVE n + 1 \in G
  <2>1. SUFFICES ASSUME (n + 1) + 1 <= Len(seqs)
                 PROVE  \E g \in [1 .. (n + 1) + 1 -> Seq(S)] : Flattens(g, seqs, (n + 1) + 1)
    OBVIOUS
  <2>2. PICK f \in [1 .. n + 1 -> Seq(S)] : Flattens(f, seqs, n + 1)
    BY <1>0, <1>2, <2>1
  <2> DEFINE g == [i \in 1 .. (n + 1) + 1 |->
                     IF i <= n + 1 THEN f[i] ELSE f[n + 1] \o seqs[n + 2]]
  <2>3. f[n + 1] \in Seq(S) /\ seqs[n + 2] \in Seq(S)
    BY <1>0, <2>1
  <2>4. f[n + 1] \o seqs[n + 2] \in Seq(S)
    BY <2>3
  <2>5. g \in [1 .. (n + 1) + 1 -> Seq(S)]
    BY <2>4
  <2>6. g[1] = seqs[1]
    BY <2>2 DEF Flattens
  <2>7. ASSUME NEW i \in 2 .. (n + 1) + 1 PROVE g[i] = g[i - 1] \o seqs[i]
    <3>1. CASE i <= n + 1
      <4>1. i \in 2 .. n + 1 /\ g[i] = f[i] /\ g[i - 1] = f[i - 1]
        BY <3>1
      <4> QED
        BY <2>2, <4>1 DEF Flattens
    <3>2. CASE ~ (i <= n + 1)
      <4>1. /\ i = n + 2 /\ i - 1 = n + 1 /\ ~ (n + 2 <= n + 1)
            /\ n + 2 \in 1 .. (n + 1) + 1 /\ n + 1 \in 1 .. (n + 1) + 1 /\ n + 1 <= n + 1
        BY <3>2
      <4>2. g[n + 2] = f[n + 1] \o seqs[n + 2] /\ g[n + 1] = f[n + 1]
        BY <4>1
      <4> HIDE DEF g
      <4> QED
        BY <4>1, <4>2
    <3> QED
      BY <3>1, <3>2
  <2> HIDE DEF g
  <2> QED
    BY <2>5, <2>6, <2>7 DEF Flattens
<1> HIDE DEF G
<1>3. Len(seqs) - 1 \in G
  <2>1. \A n \in Nat : n \in G
    BY <1>1, <1>2, Induction
  <2>2. Len(seqs) - 1 \in Nat
    BY <1>0
  <2> QED
    BY <2>1, <2>2
<1>4. (Len(seqs) - 1) + 1 = Len(seqs)
  BY <1>0
<1> QED
  BY <1>3, <1>4 DEF G

\* ... and any such f has FlattenSeq at its end.
LEMMA FlattensUnique ==
  ASSUME NEW S, NEW seqs \in Seq(Seq(S)), seqs # <<>>,
         NEW f, Flattens(f, seqs, Len(seqs))
  PROVE  FlattenSeq(seqs) = f[Len(seqs)]
<1> DEFINE Eq(g) == g = [i \in 1 .. Len(seqs) |->
                            IF i = 1 THEN seqs[i] ELSE g[i - 1] \o seqs[i]]
           h == CHOOSE g : Eq(g)
<1>0. Len(seqs) \in Nat \ {0}
  BY EmptySeq
<1>1. \E g : Eq(g)
  <2>1. PICK g \in [1 .. Len(seqs) -> Seq(S)] : Flattens(g, seqs, Len(seqs))
    BY FlattensExists
  <2>2. ASSUME NEW i \in 1 .. Len(seqs)
        PROVE  g[i] = IF i = 1 THEN seqs[i] ELSE g[i - 1] \o seqs[i]
    <3>1. i # 1 => i \in 2 .. Len(seqs)
      BY <1>0
    <3> QED
      BY <2>1, <3>1 DEF Flattens
  <2>3. Eq(g)
    BY <2>1, <2>2
  <2> QED
    BY <2>3
<1>2. Eq(h)
  <2> HIDE DEF Eq
  <2> QED
    BY <1>1
<1>3. FlattenSeq(seqs) = h[Len(seqs)]
  BY <1>0 DEF FlattenSeq
<1>a. \A i \in 1 .. Len(seqs) : h[i] = IF i = 1 THEN seqs[i] ELSE h[i - 1] \o seqs[i]
  <2> HIDE DEF h
  <2> QED
    BY <1>2
<1> HIDE DEF h, Eq
<1> DEFINE G == {n \in Nat : n + 1 <= Len(seqs) => h[n + 1] = f[n + 1]}
<1>4. 0 \in G
  BY <1>0, <1>a DEF Flattens
<1>5. ASSUME NEW n \in Nat, n \in G PROVE n + 1 \in G
  <2>1. SUFFICES ASSUME (n + 1) + 1 <= Len(seqs) PROVE h[(n + 1) + 1] = f[(n + 1) + 1]
    OBVIOUS
  <2>2. h[n + 1] = f[n + 1]
    BY <1>0, <1>5, <2>1
  <2>3. (n + 1) + 1 \in 1 .. Len(seqs) /\ (n + 1) + 1 # 1 /\ ((n + 1) + 1) - 1 = n + 1
        /\ (n + 1) + 1 \in 2 .. Len(seqs)
    BY <1>0, <2>1
  <2>4. h[(n + 1) + 1] = h[n + 1] \o seqs[(n + 1) + 1]
    BY <1>a, <2>3
  <2>5. f[(n + 1) + 1] = f[n + 1] \o seqs[(n + 1) + 1]
    BY <2>3 DEF Flattens
  <2> QED
    BY <2>2, <2>4, <2>5
<1> HIDE DEF G
<1>6. Len(seqs) - 1 \in G
  <2>1. \A n \in Nat : n \in G
    BY <1>4, <1>5, Induction
  <2>2. Len(seqs) - 1 \in Nat
    BY <1>0
  <2> QED
    BY <2>1, <2>2
<1>7. (Len(seqs) - 1) + 1 = Len(seqs)
  BY <1>0
<1> QED
  BY <1>0, <1>3, <1>6, <1>7 DEF G

\* FlattenSeq gives a sequence, and nothing for nothing.
LEMMA FlattenType ==
  ASSUME NEW S, NEW seqs \in Seq(Seq(S))
  PROVE  FlattenSeq(seqs) \in Seq(S) /\ (seqs = <<>> => FlattenSeq(seqs) = <<>>)
<1>1. CASE seqs = <<>>
  <2>1. Len(seqs) = 0
    BY <1>1
  <2> QED
    BY <1>1, <2>1 DEF FlattenSeq
<1>2. CASE seqs # <<>>
  <2>0. Len(seqs) \in Nat \ {0}
    BY <1>2, EmptySeq
  <2>1. PICK f \in [1 .. Len(seqs) -> Seq(S)] : Flattens(f, seqs, Len(seqs))
    BY <1>2, FlattensExists
  <2>2. FlattenSeq(seqs) = f[Len(seqs)]
    BY <1>2, <2>1, FlattensUnique
  <2>3. Len(seqs) \in 1 .. Len(seqs)
    BY <2>0
  <2>4. f[Len(seqs)] \in Seq(S)
    BY <2>1, <2>3
  <2> QED
    BY <1>2, <2>2, <2>4
<1> QED
  BY <1>1, <1>2

\* An empty list.
LEMMA FlattenNothing == FlattenSeq(<<>>) = <<>>
<1>1. <<>> \in Seq(Seq({}))
  OBVIOUS
<1> QED
  BY <1>1, FlattenType

\* One more sequence at the end.
LEMMA FlattenAppend ==
  ASSUME NEW S, NEW seqs \in Seq(Seq(S)), NEW x \in Seq(S)
  PROVE  FlattenSeq(Append(seqs, x)) = FlattenSeq(seqs) \o x
<1> DEFINE t == Append(seqs, x)
<1>1. /\ t \in Seq(Seq(S)) /\ t # <<>> /\ Len(t) = Len(seqs) + 1 /\ Len(seqs) \in Nat
      /\ t[Len(seqs) + 1] = x /\ \A i \in 1 .. Len(seqs) : t[i] = seqs[i]
  BY AppendProperties
<1> HIDE DEF t
<1>2. PICK f \in [1 .. Len(t) -> Seq(S)] : Flattens(f, t, Len(t))
  BY <1>1, FlattensExists
<1>3. FlattenSeq(t) = f[Len(t)]
  BY <1>1, <1>2, FlattensUnique
<1>4. CASE seqs = <<>>
  <2>1. Len(seqs) = 0 /\ Len(t) = 1 /\ t[1] = x
    BY <1>1, <1>4
  <2>2. FlattenSeq(seqs) = <<>>
    BY <1>4, FlattenType
  <2>3. FlattenSeq(t) = x
    BY <1>2, <1>3, <2>1 DEF Flattens
  <2> QED
    BY <2>2, <2>3 DEF t
<1>5. CASE seqs # <<>>
  <2>0. Len(seqs) \in Nat \ {0}
    BY <1>5, EmptySeq
  <2>1. Flattens(f, seqs, Len(seqs))
    <3>1. f[1] = seqs[1]
      BY <1>1, <1>2, <2>0 DEF Flattens
    <3>2. ASSUME NEW i \in 2 .. Len(seqs) PROVE f[i] = f[i - 1] \o seqs[i]
      <4>1. i \in 1 .. Len(seqs) /\ i \in 2 .. Len(t)
        BY <1>1, <2>0
      <4>2. f[i] = f[i - 1] \o t[i]
        BY <1>2, <4>1 DEF Flattens
      <4> QED
        BY <1>1, <4>1, <4>2
    <3> QED
      BY <3>1, <3>2 DEF Flattens
  <2>2. FlattenSeq(seqs) = f[Len(seqs)]
    BY <1>5, <2>1, FlattensUnique
  <2>3. Len(t) \in 2 .. Len(t) /\ Len(t) - 1 = Len(seqs)
    BY <1>1, <2>0
  <2>4. f[Len(t)] = f[Len(t) - 1] \o t[Len(t)]
    BY <1>2, <2>3 DEF Flattens
  <2> QED
    BY <1>1, <1>3, <2>2, <2>3, <2>4 DEF t
<1> QED
  BY <1>4, <1>5

\* The first sequence and the others.
LEMMA FlattenTail ==
  ASSUME NEW S, NEW seqs \in Seq(Seq(S)), seqs # <<>>
  PROVE  FlattenSeq(seqs) = Head(seqs) \o FlattenSeq(Tail(seqs))
<1>0. Associative(S)
  BY ConcatAssoc
<1> DEFINE t == Tail(seqs)
<1>1. /\ Len(seqs) \in Nat \ {0} /\ t \in Seq(Seq(S)) /\ Len(t) = Len(seqs) - 1
      /\ Head(seqs) = seqs[1] /\ Head(seqs) \in Seq(S)
      /\ \A i \in 1 .. Len(t) : t[i] = seqs[i + 1]
  BY EmptySeq
<1> HIDE DEF t
<1>2. CASE t = <<>>
  <2>1. Len(seqs) = 1
    BY <1>1, <1>2
  <2>2. PICK f \in [1 .. Len(seqs) -> Seq(S)] : Flattens(f, seqs, Len(seqs))
    BY FlattensExists
  <2>3. FlattenSeq(seqs) = seqs[1]
    BY <2>1, <2>2, FlattensUnique DEF Flattens
  <2>4. FlattenSeq(t) = <<>>
    BY <1>1, <1>2, FlattenType
  <2> QED
    BY <1>1, <2>3, <2>4 DEF t
<1>3. CASE t # <<>>
  <2>0. Len(t) \in Nat \ {0}
    BY <1>1, <1>3, EmptySeq
  <2>1. PICK g \in [1 .. Len(t) -> Seq(S)] : Flattens(g, t, Len(t))
    BY <1>1, <1>3, FlattensExists
  <2>2. FlattenSeq(t) = g[Len(t)]
    BY <1>1, <1>3, <2>1, FlattensUnique, SMTT(30)
  <2> DEFINE f == [i \in 1 .. Len(seqs) |-> IF i = 1 THEN seqs[1] ELSE seqs[1] \o g[i - 1]]
  <2>3. f[1] = seqs[1]
    BY <1>1
  <2>4. ASSUME NEW i \in 2 .. Len(seqs) PROVE f[i] = f[i - 1] \o seqs[i]
    <3>1. i \in 1 .. Len(seqs) /\ i - 1 \in 1 .. Len(seqs) /\ i # 1 /\ i - 1 \in 1 .. Len(t)
      BY <1>1
    <3>a. (i - 1) + 1 = i
      OBVIOUS
    <3>b. t[i - 1] = seqs[i]
      BY <1>1, <3>1, <3>a
    <3>c. f[i] = seqs[1] \o g[i - 1]
      BY <3>1
    <3>d. seqs[i] \in Seq(S) /\ g[i - 1] \in Seq(S)
      BY <2>1, <3>1, ElementOfSeq
    <3>2. f[i] = seqs[1] \o g[i - 1] /\ t[i - 1] = seqs[i] /\ seqs[i] \in Seq(S)
          /\ g[i - 1] \in Seq(S)
      BY <3>b, <3>c, <3>d
    <3>3. CASE i = 2
      <4>1. i - 1 = 1
        BY <3>3
      <4>2. f[i - 1] = seqs[1] /\ g[i - 1] = t[i - 1]
        BY <2>1, <2>3, <4>1 DEF Flattens
      <4> HIDE DEF f
      <4> QED
        BY <3>2, <4>2
    <3>4. CASE i # 2
      <4>1. i - 1 \in 2 .. Len(t) /\ (i - 1) - 1 \in 1 .. Len(t) /\ i - 1 # 1
        BY <1>1, <3>1, <3>4
      <4>2. g[i - 1] = g[(i - 1) - 1] \o t[i - 1]
        BY <2>1, <4>1 DEF Flattens
      <4>3. f[i - 1] = seqs[1] \o g[(i - 1) - 1]
        BY <3>1, <4>1
      <4>4. g[(i - 1) - 1] \in Seq(S) /\ seqs[1] \in Seq(S)
        BY <1>1, <4>1
      <4>5. (seqs[1] \o g[(i - 1) - 1]) \o seqs[i] = seqs[1] \o (g[(i - 1) - 1] \o seqs[i])
        <5> DEFINE a == seqs[1]
                   b == g[(i - 1) - 1]
                   c == seqs[i]
        <5>1. a \in Seq(S) /\ b \in Seq(S) /\ c \in Seq(S)
          BY <3>d, <4>4
        <5> HIDE DEF a, b, c
        <5>2. (a \o b) \o c = a \o (b \o c)
          BY <1>0, <5>1, Zenon DEF Associative
        <5> QED
          BY <5>2 DEF a, b, c
      <4> HIDE DEF f
      <4> QED
        BY <3>2, <4>2, <4>3, <4>5
    <3> QED
      BY <3>3, <3>4
  <2>5. f[Len(seqs)] = seqs[1] \o g[Len(t)]
    <3>1. Len(seqs) \in 1 .. Len(seqs) /\ Len(seqs) # 1 /\ Len(seqs) - 1 = Len(t)
      BY <1>1, <2>0
    <3>2. f[Len(seqs)] = seqs[1] \o g[Len(seqs) - 1]
      BY <3>1
    <3> QED
      BY <3>1, <3>2
  <2> HIDE DEF f
  <2>6. Flattens(f, seqs, Len(seqs))
    BY <2>3, <2>4 DEF Flattens
  <2>7. FlattenSeq(seqs) = f[Len(seqs)]
    BY <2>6, FlattensUnique
  <2> QED
    BY <1>1, <2>2, <2>5, <2>7 DEF t
<1> QED
  BY <1>2, <1>3

\* The sequences of two lists, one after the other.
LEMMA FlattenConcat ==
  ASSUME NEW S, NEW a \in Seq(Seq(S)), NEW b \in Seq(Seq(S))
  PROVE  FlattenSeq(a \o b) = FlattenSeq(a) \o FlattenSeq(b)
<1> DEFINE T == Seq(S)
           G == {n \in Nat : \A s \in Seq(T) :
                    Len(s) = n => FlattenSeq(s \o b) = FlattenSeq(s) \o FlattenSeq(b)}
<1>0. Associative(S)
  BY ConcatAssoc
<1>a. \A s \in Seq(T) : FlattenSeq(s) \in T
  BY FlattenType
<1>b. \A s \in Seq(T) : s # <<>> => FlattenSeq(s) = Head(s) \o FlattenSeq(Tail(s))
  BY FlattenTail
<1>c. a \in Seq(T) /\ b \in Seq(T)
  OBVIOUS
<1>d. FlattenSeq(<<>>) = <<>>
  BY FlattenNothing
<1>1. 0 \in G
  <2> SUFFICES ASSUME NEW s \in Seq(T), Len(s) = 0
               PROVE  FlattenSeq(s \o b) = FlattenSeq(s) \o FlattenSeq(b)
    OBVIOUS
  <2>1. FlattenSeq(b) \in Seq(S)
    BY <1>a, <1>c
  <2>2. s = <<>> /\ s \o b = b
    <3> HIDE DEF T
    <3> QED
      BY <1>c
  <2>3. <<>> \o FlattenSeq(b) = FlattenSeq(b)
    BY <2>1
  <2> HIDE DEF T
  <2> QED
    BY <1>d, <2>2, <2>3
<1>2. ASSUME NEW n \in Nat, n \in G PROVE n + 1 \in G
  <2> SUFFICES ASSUME NEW s \in Seq(T), Len(s) = n + 1
               PROVE  FlattenSeq(s \o b) = FlattenSeq(s) \o FlattenSeq(b)
    OBVIOUS
  <2> DEFINE t == Tail(s)
             h == Head(s)
  <2>1. /\ s # <<>> /\ s \o b \in Seq(T) /\ s \o b # <<>> /\ h \in T /\ t \in Seq(T)
        /\ Len(t) = n /\ Head(s \o b) = h /\ Tail(s \o b) = t \o b
    <3> HIDE DEF T
    <3>1. s # <<>> /\ s \o b \in Seq(T) /\ s \o b # <<>> /\ h \in T /\ t \in Seq(T) /\ Len(t) = n
      BY <1>c
    <3>2. Head(s \o b) = h
      BY <1>c
    <3>3. Tail(s \o b) = t \o b
      BY <1>c
    <3> QED
      BY <3>1, <3>2, <3>3
  <2> HIDE DEF t, h
  <2>2. FlattenSeq(s \o b) = h \o FlattenSeq(t \o b)
    BY <1>b, <2>1
  <2>3. FlattenSeq(t \o b) = FlattenSeq(t) \o FlattenSeq(b)
    BY <1>2, <2>1
  <2>4. FlattenSeq(s) = h \o FlattenSeq(t)
    BY <1>b, <2>1 DEF t, h
  <2>5. FlattenSeq(t) \in Seq(S) /\ FlattenSeq(b) \in Seq(S) /\ h \in Seq(S)
    BY <1>a, <1>c, <2>1
  <2>6. (h \o FlattenSeq(t)) \o FlattenSeq(b) = h \o (FlattenSeq(t) \o FlattenSeq(b))
    BY <1>0, <2>5, Zenon DEF Associative
  <2> QED
    BY <2>2, <2>3, <2>4, <2>6
<1> HIDE DEF G
<1>3. Len(a) \in G
  <2>1. \A n \in Nat : n \in G
    BY <1>1, <1>2, Induction
  <2> QED
    BY <2>1
<1> QED
  BY <1>3 DEF G

\* Only one sequence of the list is not empty.
LEMMA FlattenOnly ==
  ASSUME NEW S, NEW seqs \in Seq(Seq(S)), NEW j \in 1 .. Len(seqs),
         \A i \in 1 .. Len(seqs) : i # j => seqs[i] = <<>>
  PROVE  FlattenSeq(seqs) = seqs[j]
<1>1. Len(seqs) \in Nat \ {0} /\ seqs # <<>>
  <2>1. Len(seqs) \in Nat
    OBVIOUS
  <2>2. Len(seqs) # 0
    BY <2>1
  <2> QED
    BY <2>1, <2>2
<1> DEFINE x == seqs[j]
           f == [i \in 1 .. Len(seqs) |-> IF i < j THEN <<>> ELSE x]
<1>2. x \in Seq(S)
  OBVIOUS
<1>3. x \o <<>> = x /\ <<>> \o x = x /\ <<>> \o <<>> = <<>>
  <2> HIDE DEF x
  <2> QED
    BY <1>2
<1>4. f[1] = seqs[1]
  <2>1. 1 \in 1 .. Len(seqs)
    BY <1>1
  <2>2. f[1] = IF 1 < j THEN <<>> ELSE x
    BY <2>1
  <2> QED
    BY <1>1, <2>1, <2>2
<1>5. ASSUME NEW i \in 2 .. Len(seqs) PROVE f[i] = f[i - 1] \o seqs[i]
  <2>1. i \in 1 .. Len(seqs) /\ i - 1 \in 1 .. Len(seqs)
    BY <1>1
  <2>2. f[i] = (IF i < j THEN <<>> ELSE x) /\ f[i - 1] = (IF i - 1 < j THEN <<>> ELSE x)
    BY <2>1
  <2>3. i # j => seqs[i] = <<>>
    BY <2>1
  <2> HIDE DEF f
  <2>4. CASE i < j
    <3>1. i - 1 < j /\ i # j
      BY <2>1, <2>4
    <3> QED
      BY <1>3, <2>2, <2>3, <2>4, <3>1
  <2>5. CASE i = j
    <3>1. i - 1 < j /\ ~(i < j) /\ seqs[i] = x
      BY <2>1, <2>5
    <3> HIDE DEF x
    <3> QED
      BY <1>3, <2>2, <3>1
  <2>6. CASE i > j
    <3>1. ~(i - 1 < j) /\ ~(i < j) /\ i # j
      BY <2>1, <2>6
    <3> HIDE DEF x
    <3> QED
      BY <1>3, <2>2, <2>3, <3>1
  <2>7. i < j \/ i = j \/ i > j
    BY <1>1, <2>1
  <2> QED
    BY <2>4, <2>5, <2>6, <2>7
<1>6. f[Len(seqs)] = x
  <2>1. Len(seqs) \in 1 .. Len(seqs) /\ ~(Len(seqs) < j)
    BY <1>1
  <2> HIDE DEF x
  <2> QED
    BY <2>1
<1> HIDE DEF f
<1>7. Flattens(f, seqs, Len(seqs))
  BY <1>4, <1>5 DEF Flattens
<1> QED
  BY <1>1, <1>6, <1>7, FlattensUnique

\* Nothing comes of nothing.
LEMMA FlattenSilent ==
  ASSUME NEW n \in Nat, NEW seqs, seqs = [i \in 1 .. n |-> <<>>]
  PROVE  FlattenSeq(seqs) = <<>>
<1>1. seqs \in Seq(Seq({})) /\ Len(seqs) = n
  <2>1. seqs \in [1 .. n -> Seq({})]
    OBVIOUS
  <2> QED
    BY <2>1, FunctionIsSeq
<1>2. CASE n = 0
  <2>1. seqs = <<>>
    BY <1>1, <1>2
  <2> QED
    BY <1>1, <2>1, FlattenType
<1>3. CASE n # 0
  <2>1. 1 \in 1 .. Len(seqs) /\ \A i \in 1 .. Len(seqs) : seqs[i] = <<>>
    BY <1>1, <1>3
  <2>2. FlattenSeq(seqs) = seqs[1]
    BY <1>1, <2>1, FlattenOnly
  <2> QED
    BY <2>1, <2>2
<1> QED
  BY <1>2, <1>3
=============================================================================
