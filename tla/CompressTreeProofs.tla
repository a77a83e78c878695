------------------------- MODULE CompressTreeProofs -------------------------
(***************************************************************************)
(* Proofs about CompressTree for any number of workers, provers, shards,   *)
(* deferred proofs and failures, and any channel capacities.               *)
(*                                                                         *)
(* The invariant speaks of the tree as a table of all inputs made so far,  *)
(* by index.  Each channel has two counters, of the items sent and of      *)
(* those received; its turn counter makes the items of a channel a segment *)
(* of the table, and each item between two channels is held by exactly one *)
(* thread.  The inputs whose proofs are not used form the rest of a layer  *)
(* and the beginning of the next, and the layers' lengths determine how    *)
(* many are still to come.                                                 *)
(*                                                                         *)
(* Induction over numbers is done with sets: a set of naturals that is not *)
(* empty has a least element, which follows from WFMin.                    *)
(***************************************************************************)
EXTENDS CompressTree, FiniteSetTheorems, SequenceTheorems,
        WellFoundedInduction, TLAPS

(***************************************************************************)
(* The inductive invariant.  f is the table of the tree: f[i] is the input *)
(* of index i, with the proofs it was made of.                             *)
(***************************************************************************)

Ranges == [startShard : Nat, nextShard : Nat, startDigest : Nat, endDigest : Nat]
Items == [index : Nat, height : Nat, proofs : Seq(Ranges), complete : BOOLEAN]
PCs == {"send", "advance", "last", "recv", "run"} \cup Ended

Typed ==
    /\ shards \in Nat \ {0} /\ deferreds \in Nat /\ committed \in Nat
    /\ pc \in [Threads -> PCs]
    /\ held \in [Threads -> Items]
    /\ channel \in [Channels -> Seq(Items)]
    /\ turn \in [Channels -> Nat]
    /\ batch \in Seq(Items) /\ count \in Nat
    /\ joined \in 0 .. Len(Handles)
    /\ mainPc \in {"join", "returned", "panic"}
    /\ root \in Seq(Items)
    /\ faults \in Nat
    /\ result \in {"running", "ok", "panic"}

\* The proof that a worker and a prover make of input x.
Proved(x) == [x EXCEPT !.proofs = <<Aggregate(x)>>]

\* How many items have been put into, and taken out of, channel c.
Passing(t) == pc[t] \in {"advance", "last"}
Sent(c) == turn[c] + (IF \E t \in Senders(c) : Passing(t) THEN 1 ELSE 0)
Received(c) == Sent(c) - Len(channel[c])

\* How many inputs have been made, and how many of their proofs have been used.
Made == count + (IF pc[TreeThread] \in {"send", "panic", "advance", "last"} THEN 1 ELSE 0)
Used == Received("proofs") - Len(batch) - Len(root)

Levels(n) == IF n = 1 THEN 0 ELSE 1 + Halvings[n]

Starts(x) == Aggregate(x).startShard = 1 /\ Aggregate(x).startDigest = 0
Finishes(x) == Aggregate(x).nextShard = shards + 1 /\ Aggregate(x).endDigest = deferreds
Follows(x, y) == Adjacent(Aggregate(x), Aggregate(y))

\* What is in the table: a layer begins with the first shard and ends with the last
\* deferred proof, and in between every input takes up where the one before it ends.
Table(f) ==
    /\ \A i \in 0 .. NumLeaves - 1 : f[i] = LeafInput(i)
    /\ \A i \in 0 .. Made - 1 :
          /\ f[i].index = i
          /\ f[i].complete <=> f[i].height = ExpectedHeight
          /\ Len(f[i].proofs) \in {1, 2}
          /\ Len(f[i].proofs) = 2 => Adjacent(f[i].proofs[1], f[i].proofs[2])
    /\ \A i \in 0 .. Made - 2 :
          \/ f[i + 1].height = f[i].height /\ Follows(f[i], f[i + 1])
          \/ f[i + 1].height = f[i].height + 1 /\ Finishes(f[i]) /\ Starts(f[i + 1])

\* The inputs whose proofs are not used: the rest of a layer up to b, then those
\* of the next layer that have been made.
Layers(f, b) ==
    /\ \A i \in Used .. b - 1 : f[i].height = f[Used].height
    /\ \A i \in b .. Made - 1 : f[i].height = f[Used].height + 1
    /\ f[Used].height + Levels((b - Used) + 2 * (Made - b)) = ExpectedHeight
    /\ IF b = Made THEN Starts(f[Used]) /\ Finishes(f[Made - 1])
                   ELSE Follows(f[Made - 1], f[Used])

Frontier(f) ==
    /\ Used \in Nat /\ Made \in Nat /\ NumLeaves <= count
    /\ \E b \in Used + 1 .. Made : Layers(f, b)

\* What channel c carries under index i: an input, or the proof made of it.
Form(f, c, i) == IF c = "input" THEN f[i] ELSE Proved(f[i])

\* A channel holds the items between its two counters in their order.
Contents(f, c) ==
    \A k \in 1 .. Len(channel[c]) : channel[c][k] = Form(f, c, Received(c) + k - 1)

\* The tree thread, or main, has at most the proof that is to be used next.
Taken(f) ==
    /\ Len(batch) <= 1 /\ \A k \in 1 .. Len(batch) : batch[k] = Proved(f[Used])
    /\ Len(root) <= 1 /\ \A k \in 1 .. Len(root) : root[k] = Proved(f[Used])
    /\ root # <<>> => batch = <<>> /\ mainPc = "returned"

Holds(t) == pc[t] \in {"run", "send", "err", "panic"}

\* The threads of crew G take from channel in and send to channel out.  Each item
\* that has been received and not been sent on is held by exactly one of them.
Crew(f, G, in, out) ==
    /\ Sent(out) <= Received(in)
    /\ \A t \in G :
          /\ ~Holds(t) => held[t] = NoItem
          /\ Holds(t) => held[t].index \in Sent(out) .. Received(in) - 1
          /\ Holds(t) => \/ held[t] = Proved(f[held[t].index])
                         \/ /\ in = "input" /\ pc[t] # "send"
                            /\ held[t] = f[held[t].index]
          /\ pc[t] = "run" => in = "input" /\ held[t] = f[held[t].index]
          /\ pc[t] = "err" => in = "input"
          /\ pc[t] # "last"
    /\ \A t, u \in G :
          /\ Holds(t) /\ Holds(u) /\ held[t].index = held[u].index => t = u
          /\ Passing(t) /\ Passing(u) => t = u
    /\ \A i \in Sent(out) .. Received(in) - 1 : \E t \in G : Holds(t) /\ held[t].index = i

\* The leaf sender has the turn until all leaves are sent; then the tree thread has it.
Inputs(f) ==
    /\ turn["input"] < NumLeaves =>
          pc[LeafSender] \in {"send", "advance", "panic"} /\ count = NumLeaves
    /\ turn["input"] >= NumLeaves => pc[LeafSender] = "ok" /\ turn["input"] = count
    /\ held[LeafSender] = IF pc[LeafSender] \in {"send", "panic"}
                          THEN LeafInput(turn["input"]) ELSE NoItem
    /\ pc[TreeThread] \in {"recv", "send", "advance", "last", "ok", "panic"}
    /\ held[TreeThread] = IF pc[TreeThread] \in {"send", "panic"} THEN f[count] ELSE NoItem
    /\ Passing(TreeThread) => turn["input"] = count

\* The tree thread goes on until it has sent the root.
Stops(f) ==
    /\ pc[TreeThread] \in {"recv", "advance"} => f[Used].height # ExpectedHeight
    /\ pc[TreeThread] = "last" => f[Used].height = ExpectedHeight
    /\ pc[TreeThread] = "ok" =>
          \/ f[Used].height = ExpectedHeight
          \/ channel["proofs"] = <<>> /\ root = <<>> /\ NoSender("proofs")
    /\ f[Used].height = ExpectedHeight => batch = <<>>

\* Only inputs that the recursion program accepts are proved.
Accepted(f) ==
    /\ \A i \in 0 .. Sent("traces") - 1 : Accepts(f[i])
    /\ \A w \in Workers : pc[w] = "send" => Accepts(f[held[w].index])

Main ==
    /\ \A i \in 1 .. joined : pc[Handles[i]] \in {"ok", "err"}
    /\ mainPc = "returned" => joined = Len(Handles) /\ root # <<>>
    /\ result = "ok" => mainPc = "returned" /\ \A t \in Threads : pc[t] \in {"ok", "err"}
    /\ faults > 0 => \E t \in Workers \cup ToSet(Provers) : pc[t] \in {"err", "panic"}

\* As long as nothing fails nobody stops before the threads that send to it.
Healthy ==
    faults = 0 /\ deferreds = committed =>
        /\ mainPc # "panic" /\ \A t \in Threads : pc[t] \notin {"err", "panic"}
        /\ \A w \in Workers : pc[w] = "ok" =>
              channel["input"] = <<>> /\ NoSender("input")
        /\ \A p \in ToSet(Provers) : pc[p] = "ok" =>
              channel["traces"] = <<>> /\ NoSender("traces")

TreeOf(f) ==
    /\ f \in [Nat -> Items]
    /\ Table(f) /\ Frontier(f)
    /\ Taken(f) /\ \A c \in Channels : Contents(f, c)
    /\ Crew(f, Workers, "input", "traces") /\ Crew(f, ToSet(Provers), "traces", "proofs")
    /\ Inputs(f) /\ Stops(f) /\ Accepted(f)

Sound(f) == Typed /\ Main /\ Healthy /\ TreeOf(f)

IInv == \E f : Sound(f)

-----------------------------------------------------------------------------
(* Numbers. *)

\* Every set of natural numbers that is not empty has a least element.
LEMMA LeastNumber ==
  ASSUME NEW T \in SUBSET Nat, T # {}
  PROVE  \E x \in T : \A y \in T : x <= y
<1> DEFINE R == {ss \in Nat \X Nat : ss[1] < ss[2]}
<1>1. IsWellFoundedOn(R, Nat)
  BY NatLessThanWellFounded DEF OpToRel
<1>2. \E x \in T : \A y \in T : ~ (<<y, x>> \in R)
  <2> HIDE DEF R
  <2> QED
    BY <1>1, WFMin
<1>3. PICK x \in T : \A y \in T : ~ (<<y, x>> \in R)
  BY <1>2
<1>4. ASSUME NEW y \in T PROVE x <= y
  <2>1. ~ (<<y, x>> \in R)
    BY <1>3
  <2>2. <<y, x>> \in Nat \X Nat /\ <<y, x>>[1] = y /\ <<y, x>>[2] = x
    OBVIOUS
  <2>3. ~ (y < x)
    BY <2>1, <2>2
  <2> QED
    BY <2>3
<1> QED
  BY <1>4

\* f satisfies the equation of Halvings up to m.
Halved(f, n) == IF n > 2 THEN 1 + f[(n + 1) \div 2] ELSE 0
Halves(f, m) == \A n \in 0 .. m : f[n] = Halved(f, n)

\* The equation of Halvings has a solution up to every number ...
LEMMA HalvesExists == \A m \in Nat : \E f \in [0 .. m -> Nat] : Halves(f, m)
<1> DEFINE Bad == {m \in Nat : ~ \E f \in [0 .. m -> Nat] : Halves(f, m)}
<1>1. SUFFICES ASSUME Bad # {} PROVE FALSE
  OBVIOUS
<1>2. PICK m \in Bad : \A k \in Bad : m <= k
  BY <1>1, LeastNumber
<1>3. m # 0
  <2>1. [n \in 0 .. 0 |-> 0] \in [0 .. 0 -> Nat] /\ Halves([n \in 0 .. 0 |-> 0], 0)
    BY DEF Halves, Halved
  <2> QED
    BY <2>1
<1>4. m - 1 \in Nat /\ m - 1 \notin Bad
  <2>1. m \in Nat
    OBVIOUS
  <2> HIDE DEF Bad
  <2> QED
    BY <1>2, <1>3, <2>1
<1>5. PICK f \in [0 .. m - 1 -> Nat] : Halves(f, m - 1)
  BY <1>4
<1> DEFINE g == [n \in 0 .. m |-> IF n < m THEN f[n] ELSE Halved(f, m)]
<1>6. Halved(f, m) \in Nat
  BY <1>3 DEF Halved
<1>7. g \in [0 .. m -> Nat]
  BY <1>6
<1>8. \A n \in 0 .. m : n > 2 => (n + 1) \div 2 \in 0 .. m - 1 /\ (n + 1) \div 2 < n
  OBVIOUS
<1>9. \A n \in 0 .. m : Halved(g, n) = Halved(f, n)
  BY <1>8 DEF Halved
<1>10. Halves(g, m)
  BY <1>5, <1>9 DEF Halves
<1> QED
  BY <1>7, <1>10

\* ... and any two solutions agree.
LEMMA HalvesUnique ==
  ASSUME NEW m \in Nat, NEW k \in Nat, NEW f, NEW g, Halves(f, m), Halves(g, k),
         NEW i \in 0 .. m, i <= k
  PROVE  f[i] = g[i]
<1> DEFINE Bad == {n \in Nat : n <= m /\ n <= k /\ f[n] # g[n]}
<1>1. SUFFICES ASSUME Bad # {} PROVE FALSE
  OBVIOUS
<1>2. PICK n \in Bad : \A j \in Bad : n <= j
  BY <1>1, LeastNumber
<1>3. n > 2 => f[(n + 1) \div 2] = g[(n + 1) \div 2]
  BY <1>2
<1>4. f[n] = Halved(f, n) /\ g[n] = Halved(g, n)
  BY <1>2 DEF Halves
<1> QED
  BY <1>2, <1>3, <1>4 DEF Halved

\* The loop of compress that counts the layers computes what its recursive
\* definition says, for every number of inputs.
LEMMA HalvingsDef ==
  /\ Halvings \in [Nat -> Nat]
  /\ \A n \in Nat : Halvings[n] = IF n > 2 THEN 1 + Halvings[(n + 1) \div 2] ELSE 0
<1> DEFINE some(m) == CHOOSE f \in [0 .. m -> Nat] : Halves(f, m)
           F == [n \in Nat |-> some(n)[n]]
<1>1. \A m \in Nat : some(m) \in [0 .. m -> Nat] /\ Halves(some(m), m)
  BY HalvesExists
<1> HIDE DEF some
<1>2. F \in [Nat -> Nat]
  BY <1>1
<1>3. ASSUME NEW n \in Nat, n > 2
      PROVE  F[n] = 1 + F[(n + 1) \div 2]
  <2> DEFINE h == (n + 1) \div 2
  <2>1. h \in Nat /\ h \in 0 .. n /\ h <= h
    BY <1>3
  <2>2. some(n)[n] = Halved(some(n), n)
    BY <1>1 DEF Halves
  <2>3. some(n)[n] = 1 + some(n)[h]
    BY <1>3, <2>2 DEF Halved
  <2>4. some(n)[h] = some(h)[h]
    <3> HIDE DEF h
    <3> QED
      BY <1>1, <2>1, HalvesUnique
  <2> QED
    BY <2>1, <2>3, <2>4
<1>4. ASSUME NEW n \in Nat, ~ (n > 2)
      PROVE  F[n] = 0
  <2>1. some(n)[n] = Halved(some(n), n)
    BY <1>1 DEF Halves
  <2> QED
    BY <1>4, <2>1 DEF Halved
<1> HIDE DEF F
<1>5. F = [n \in Nat |-> IF n > REDUCE_BATCH_SIZE THEN 1 + F[(n + 1) \div 2] ELSE 0]
  BY <1>2, <1>3, <1>4 DEF REDUCE_BATCH_SIZE
<1>6. \E f : f = [n \in Nat |-> IF n > REDUCE_BATCH_SIZE
                               THEN 1 + f[(n + 1) \div 2] ELSE 0]
  BY <1>5
<1>7. Halvings = [n \in Nat |-> IF n > REDUCE_BATCH_SIZE
                               THEN 1 + Halvings[(n + 1) \div 2] ELSE 0]
  BY <1>6 DEF Halvings
<1>8. \A n \in Nat : Halvings[n] = IF n > 2 THEN 1 + Halvings[(n + 1) \div 2] ELSE 0
  BY <1>7 DEF REDUCE_BATCH_SIZE
<1>9. \A m \in Nat : Halves(Halvings, m)
  BY <1>8 DEF Halves, Halved
<1>10. \A n \in Nat : Halvings[n] = some(n)[n]
  BY <1>1, <1>9, HalvesUnique
<1>11. \A n \in Nat : Halvings[n] \in Nat
  <2> TAKE n \in Nat
  <2>1. some(n) \in [0 .. n -> Nat] /\ n \in 0 .. n
    BY <1>1
  <2>2. some(n)[n] \in Nat
    BY <2>1
  <2> QED
    BY <1>10, <2>2
<1> QED
  BY <1>7, <1>8, <1>11

\* A layer of n inputs is as many layers below the root as expected_height says:
\* none if it is the root, else one more than the layer of half as many.
LEMMA LevelsDef ==
  /\ Levels(1) = 0
  /\ \A n \in Nat \ {0} : Levels(n) \in Nat
  /\ \A n \in Nat \ {0, 1} : Levels(n) = 1 + Levels((n + 1) \div 2) /\ Levels(n) >= 1
  /\ \A n \in Nat \ {0, 1, 2} : Levels(n) >= 2
<1>1. \A n \in Nat : Halvings[n] \in Nat
  BY HalvingsDef
<1>2. \A n \in Nat \ {0, 1, 2} : Halvings[n] = 1 + Halvings[(n + 1) \div 2]
  BY HalvingsDef
<1>3. Halvings[2] = 0
  BY HalvingsDef
<1> HIDE DEF Halvings
<1>4. ASSUME NEW n \in Nat \ {0, 1, 2}
      PROVE  Levels(n) = 1 + Levels((n + 1) \div 2) /\ Levels(n) >= 2
  <2>1. (n + 1) \div 2 \in Nat \ {0, 1}
    OBVIOUS
  <2> QED
    BY <1>1, <1>2, <2>1 DEF Levels
<1>5. Levels(2) = 1 + Levels((2 + 1) \div 2) /\ Levels(2) = 1
  <2>1. (2 + 1) \div 2 = 1
    OBVIOUS
  <2> QED
    BY <1>3, <2>1 DEF Levels
<1>6. \A n \in Nat \ {0} : Levels(n) \in Nat
  BY <1>1 DEF Levels
<1>7. ASSUME NEW n \in Nat \ {0, 1}
      PROVE  Levels(n) = 1 + Levels((n + 1) \div 2) /\ Levels(n) >= 1
  <2>1. CASE n = 2
    BY <1>5, <2>1
  <2>2. CASE n # 2
    BY <1>4, <1>6, <2>2
  <2> QED
    BY <2>1, <2>2
<1> QED
  BY <1>4, <1>6, <1>7 DEF Levels

-----------------------------------------------------------------------------
(* Threads and items. *)

\* Who sends to which channel, and who receives from it.
LEMMA Plan ==
  /\ LeafSender \in Threads /\ TreeThread \in Threads
  /\ LeafSender # TreeThread
  /\ \A w \in Workers :
        /\ w \in Threads /\ w \notin {LeafSender, TreeThread} /\ w \notin ToSet(Provers)
        /\ In(w) = "input" /\ Out(w) = "traces"
  /\ \A p \in ToSet(Provers) :
        /\ p \in Threads /\ p \notin {LeafSender, TreeThread} /\ p \notin Workers
        /\ In(p) = "traces" /\ Out(p) = "proofs"
  /\ Out(LeafSender) = "input" /\ Out(TreeThread) = "input" /\ In(TreeThread) = "proofs"
  /\ Senders("input") = {LeafSender, TreeThread} /\ Senders("traces") = Workers
  /\ Senders("proofs") = ToSet(Provers)
  /\ Receivers("input") = Workers /\ Receivers("traces") = ToSet(Provers)
  /\ \A t \in Threads : t \in {LeafSender, TreeThread} \cup Workers \cup ToSet(Provers)
<1> HIDE DEF ToSet
<1> QED
  BY CompressAssumption DEF Threads, In, Out, Senders, Receivers

\* A proof has the index, the height and the values of its input.
LEMMA ProvedItem ==
  ASSUME NEW x \in Items, Len(x.proofs) \in {1, 2}
  PROVE  /\ Aggregate(x) \in Ranges
         /\ Proved(x) \in Items
         /\ Proved(x).index = x.index /\ Proved(x).height = x.height
         /\ Proved(x).complete = x.complete
         /\ Proved(x).proofs = <<Aggregate(x)>>
         /\ Aggregate(Proved(x)) = Aggregate(x)
         /\ x # NoItem /\ Proved(x) # NoItem
<1>1. /\ x.proofs \in Seq(Ranges) /\ x.proofs # <<>>
      /\ Head(x.proofs) \in Ranges /\ Last(x.proofs) \in Ranges
  <2>1. x.proofs \in Seq(Ranges)
    BY DEF Items
  <2>2. x.proofs[1] \in Ranges /\ x.proofs[Len(x.proofs)] \in Ranges
    BY <2>1
  <2> QED
    BY <2>1, <2>2 DEF Last
<1>2. Aggregate(x) \in Ranges
  BY <1>1 DEF Aggregate, Ranges
<1>3. /\ Proved(x) = [index |-> x.index, height |-> x.height, proofs |-> <<Aggregate(x)>>,
                      complete |-> x.complete]
  BY DEF Items, Proved
<1>4. <<Aggregate(x)>> \in Seq(Ranges)
  BY <1>2
<1>5. Proved(x) \in Items
  BY <1>3, <1>4 DEF Items
<1>6. Proved(x).proofs = <<Aggregate(x)>>
  BY <1>3
<1>7. Aggregate(Proved(x)) = Aggregate(x)
  <2>1. Head(<<Aggregate(x)>>) = Aggregate(x) /\ Last(<<Aggregate(x)>>) = Aggregate(x)
    BY DEF Last
  <2> QED
    BY <1>2, <1>6, <2>1 DEF Aggregate, Ranges
<1>8. x # NoItem /\ Proved(x) # NoItem
  <2>1. NoItem.proofs = <<>> /\ Len(<<>>) = 0 /\ Len(<<Aggregate(x)>>) = 1
    BY DEF NoItem
  <2> QED
    BY <1>6, <2>1
<1> QED
  BY <1>2, <1>3, <1>5, <1>6, <1>7, <1>8

\* NoItem is an item; items have numbers.
LEMMA ItemTypes ==
  /\ NoItem \in Items
  /\ \A x \in Items : x.index \in Nat /\ x.height \in Nat
<1>1. <<>> \in Seq(Ranges)
  OBVIOUS
<1> QED
  BY <1>1 DEF NoItem, Items

\* What the table says of an input.
LEMMA TableItem ==
  ASSUME NEW f \in [Nat -> Items], Typed, Table(f), NEW i \in 0 .. Made - 1
  PROVE  /\ f[i] \in Items /\ Proved(f[i]) \in Items
         /\ f[i].index = i /\ Proved(f[i]).index = i
         /\ Proved(f[i]).height = f[i].height /\ Proved(f[i]).complete = f[i].complete
         /\ Proved(f[i]).proofs = <<Aggregate(f[i])>>
         /\ Aggregate(Proved(f[i])) = Aggregate(f[i]) /\ Aggregate(f[i]) \in Ranges
         /\ f[i] # NoItem /\ Proved(f[i]) # NoItem
<1>1. i \in Nat
  BY DEF Made, Typed
<1>2. f[i] \in Items
  BY <1>1
<1>3. f[i].index = i /\ Len(f[i].proofs) \in {1, 2}
  BY DEF Table
<1> QED
  BY <1>2, <1>3, ProvedItem

\* A leaf stands for one shard or one deferred proof.
LEMMA LeafItem ==
  ASSUME Typed, NEW i \in 0 .. NumLeaves - 1
  PROVE  /\ LeafInput(i) \in Items
         /\ LeafInput(i).index = i /\ LeafInput(i).height = 0
         /\ Len(LeafInput(i).proofs) = 1
         /\ LeafInput(i).complete <=> ExpectedHeight = 0
         /\ Aggregate(LeafInput(i)) =
               IF i < shards THEN CoreRange(i) ELSE DeferredRange(i - shards)
<1> DEFINE r == IF i < shards THEN CoreRange(i) ELSE DeferredRange(i - shards)
<1>1. i \in Nat /\ NumLeaves \in Nat \ {0}
  BY DEF Typed, NumLeaves
<1>2. r \in Ranges
  BY <1>1 DEF Typed, CoreRange, DeferredRange, Ranges
<1>3. /\ LeafInput(i).proofs = <<r>>
      /\ LeafInput(i).index = i /\ LeafInput(i).height = 0
      /\ LeafInput(i).complete = (i < shards /\ CoreIsComplete)
  BY DEF LeafInput
<1>4. <<r>> \in Seq(Ranges) /\ Len(<<r>>) = 1
      /\ Head(<<r>>) = r /\ Last(<<r>>) = r
  BY <1>2 DEF Last
<1>5. (i < shards /\ CoreIsComplete) \in BOOLEAN
  BY DEF CoreIsComplete
<1>6. LeafInput(i) \in Items
  BY <1>1, <1>4, <1>5 DEF LeafInput, Items
<1>7. Aggregate(LeafInput(i)) = r
  <2>1. Aggregate(LeafInput(i)) =
           [startShard |-> r.startShard, nextShard |-> r.nextShard,
            startDigest |-> r.startDigest, endDigest |-> r.endDigest]
    BY <1>3, <1>4 DEF Aggregate
  <2> QED
    BY <1>2, <2>1 DEF Ranges
<1>8. (i < shards /\ CoreIsComplete) <=> ExpectedHeight = 0
  <2>1. ExpectedHeight = Levels(NumLeaves)
    BY DEF ExpectedHeight, Levels
  <2>2. ExpectedHeight = 0 <=> NumLeaves = 1
    BY <1>1, <2>1, LevelsDef
  <2> QED
    BY <1>1, <2>2 DEF Typed, NumLeaves, CoreIsComplete
<1> QED
  BY <1>3, <1>4, <1>6, <1>7, <1>8

-----------------------------------------------------------------------------
(* Steps of a channel. *)

Counted ==
    /\ \A c \in Channels : /\ Sent(c) \in Nat /\ Received(c) \in Int
                           /\ Received(c) <= Sent(c) /\ turn[c] <= Sent(c)
                           /\ Len(channel[c]) \in Nat
                           /\ Received(c) = Sent(c) - Len(channel[c])
    /\ Made \in Nat /\ Used \in Int /\ NumLeaves \in Nat \ {0}
    /\ Len(batch) \in Nat /\ Len(root) \in Nat
    /\ "input" \in Channels /\ "traces" \in Channels /\ "proofs" \in Channels

\* The counters are numbers.
LEMMA Counters ==
  ASSUME Typed
  PROVE  Counted
<1>1. ASSUME NEW c \in Channels
      PROVE  turn[c] \in Nat /\ Len(channel[c]) \in Nat
  BY DEF Typed
<1>2. Len(batch) \in Nat /\ Len(root) \in Nat /\ count \in Nat /\ NumLeaves \in Nat \ {0}
  BY DEF Typed, NumLeaves
<1>3. ASSUME NEW c \in Channels
      PROVE  /\ Sent(c) \in Nat /\ Received(c) \in Int
             /\ Received(c) <= Sent(c) /\ turn[c] <= Sent(c)
             /\ Received(c) = Sent(c) - Len(channel[c])
  BY <1>1 DEF Sent, Received
<1>4. "proofs" \in Channels /\ "input" \in Channels /\ "traces" \in Channels
  BY DEF Channels
<1> QED
  BY <1>1, <1>2, <1>3, <1>4 DEF Counted, Made, Used

\* A send adds the item of the next index.
LEMMA ChannelSend ==
  ASSUME Typed, NEW f, NEW c \in Channels, Contents(f, c), NEW x \in Items,
         channel' = [channel EXCEPT ![c] = Append(@, x)],
         Sent(c)' = Sent(c) + 1, x = Form(f, c, Sent(c))
  PROVE  /\ Contents(f, c)' /\ Received(c)' = Received(c)
         /\ Len(channel'[c]) = Len(channel[c]) + 1
         /\ channel' \in [Channels -> Seq(Items)]
<1>1. channel[c] \in Seq(Items) /\ channel \in [Channels -> Seq(Items)]
  BY DEF Typed
<1>2. channel'[c] = Append(channel[c], x)
  BY <1>1
<1>3. /\ Len(channel'[c]) = Len(channel[c]) + 1
      /\ \A k \in 1 .. Len(channel[c]) : channel'[c][k] = channel[c][k]
      /\ channel'[c][Len(channel[c]) + 1] = x
      /\ channel'[c] \in Seq(Items)
  BY <1>1, <1>2
<1>4. Sent(c) \in Nat /\ Len(channel[c]) \in Nat
  BY Counters DEF Counted
<1>5. Received(c)' = Received(c)
  BY <1>3, <1>4 DEF Received
<1>6. Received(c) + (Len(channel[c]) + 1) - 1 = Sent(c)
  BY <1>4 DEF Received
<1>7. ASSUME NEW k \in 1 .. Len(channel'[c])
      PROVE  channel'[c][k] = Form(f, c, Received(c) + k - 1)
  <2>1. CASE k \in 1 .. Len(channel[c])
    BY <1>3, <2>1 DEF Contents
  <2>2. CASE k = Len(channel[c]) + 1
    BY <1>3, <1>6, <2>2
  <2> QED
    BY <1>3, <1>4, <2>1, <2>2
<1>8. Contents(f, c)'
  BY <1>5, <1>7 DEF Contents, Form
<1> QED
  BY <1>1, <1>3, <1>5, <1>8

\* A receive takes the item of the next index.
LEMMA ChannelReceive ==
  ASSUME Typed, NEW f, NEW c \in Channels, Contents(f, c), channel[c] # <<>>,
         channel' = [channel EXCEPT ![c] = Tail(@)], Sent(c)' = Sent(c)
  PROVE  /\ Contents(f, c)' /\ Received(c)' = Received(c) + 1
         /\ Head(channel[c]) = Form(f, c, Received(c)) /\ Received(c) < Sent(c)
         /\ Head(channel[c]) \in Items
         /\ channel' \in [Channels -> Seq(Items)]
<1>1. channel[c] \in Seq(Items) /\ channel \in [Channels -> Seq(Items)]
  BY DEF Typed
<1>2. channel'[c] = Tail(channel[c])
  BY <1>1
<1>3. /\ Len(channel'[c]) = Len(channel[c]) - 1 /\ Len(channel[c]) \in Nat \ {0}
      /\ \A k \in 1 .. Len(channel[c]) - 1 : channel'[c][k] = channel[c][k + 1]
      /\ channel'[c] \in Seq(Items)
      /\ Head(channel[c]) = channel[c][1] /\ channel[c][1] \in Items
  BY <1>1, <1>2
<1>4. Sent(c) \in Nat
  BY Counters DEF Counted
<1>5. Received(c)' = Received(c) + 1 /\ Received(c) < Sent(c)
  BY <1>3, <1>4 DEF Received
<1>6. Received(c) \in Int
  BY Counters DEF Counted
<1>7. ASSUME NEW k \in 1 .. Len(channel'[c])
      PROVE  channel'[c][k] = Form(f, c, Received(c)' + k - 1)
  <2>1. k + 1 \in 1 .. Len(channel[c]) /\ k \in 1 .. Len(channel[c]) - 1
    BY <1>3
  <2>2. Received(c) + (k + 1) - 1 = Received(c)' + k - 1
    BY <1>5, <1>6
  <2> QED
    BY <1>3, <2>1, <2>2 DEF Contents
<1>8. Contents(f, c)'
  BY <1>7 DEF Contents, Form
<1>9. Head(channel[c]) = Form(f, c, Received(c))
  <2>1. 1 \in 1 .. Len(channel[c]) /\ Received(c) + 1 - 1 = Received(c)
    BY <1>3, <1>6
  <2> QED
    BY <1>3, <2>1 DEF Contents
<1> QED
  BY <1>1, <1>3, <1>5, <1>8, <1>9

\* A channel that nobody touches stays as it is.
LEMMA ChannelIdle ==
  ASSUME NEW f, NEW c \in Channels, Contents(f, c), channel'[c] = channel[c],
         Sent(c)' = Sent(c)
  PROVE  Contents(f, c)' /\ Received(c)' = Received(c)
BY DEF Contents, Form, Received

\* The counter of the items sent moves with a sender's step only.
LEMMA SentIdle ==
  ASSUME NEW c, turn'[c] = turn[c], \A t \in Senders(c) : Passing(t)' <=> Passing(t)
  PROVE  Sent(c)' = Sent(c)
BY DEF Sent, Senders

-----------------------------------------------------------------------------
(* Steps of a crew. *)

\* Nothing changes for a crew when another thread takes a step.
LEMMA CrewIdle ==
  ASSUME NEW f, NEW G, NEW in, NEW out, Crew(f, G, in, out),
         \A t \in G : pc'[t] = pc[t] /\ held'[t] = held[t],
         Sent(out)' = Sent(out), Received(in)' = Received(in)
  PROVE  Crew(f, G, in, out)'
BY SMTT(40) DEF Crew, Holds, Passing, Proved, NoItem, Aggregate

\* A thread of the crew receives the next item.
LEMMA CrewReceive ==
  ASSUME Typed, NEW f, NEW G \in SUBSET Threads, NEW in \in Channels, NEW out \in Channels,
         Crew(f, G, in, out), NEW t \in G, pc[t] = "recv",
         NEW x \in Items, x = Form(f, in, Received(in)), x.index = Received(in),
         pc' = [pc EXCEPT ![t] = IF in = "input" THEN "run" ELSE "send"],
         held' = [held EXCEPT ![t] = x],
         Sent(out)' = Sent(out), Received(in)' = Received(in) + 1
  PROVE  Crew(f, G, in, out)'
<1>1. pc \in [Threads -> PCs] /\ held \in [Threads -> Items] /\ t \in Threads
  BY DEF Typed
<1>2. Sent(out) \in Nat /\ Received(in) \in Int
  BY Counters DEF Counted
<1>3. /\ pc'[t] = IF in = "input" THEN "run" ELSE "send"
      /\ held'[t] = x
      /\ \A u \in G : u # t => pc'[u] = pc[u] /\ held'[u] = held[u]
  BY <1>1
<1>4. /\ Holds(t)' /\ ~ Holds(t) /\ ~ Passing(t) /\ ~ Passing(t)'
      /\ \A u \in G : u # t => (Holds(u)' <=> Holds(u)) /\ (Passing(u)' <=> Passing(u))
  BY <1>3 DEF Holds, Passing
<1>5. \A i \in Sent(out)' .. Received(in)' - 1 :
         i \in Sent(out) .. Received(in) - 1 \/ i = Received(in)
  BY <1>2
<1>6. Sent(out)' <= Received(in)'
  BY <1>2 DEF Crew
<1>7. \A u \in G : held'[u].index = IF u = t THEN Received(in) ELSE held[u].index
  BY <1>3
<1>8. \A i \in Sent(out)' .. Received(in)' - 1 :
         \E u \in G : Holds(u)' /\ held'[u].index = i
  BY <1>4, <1>5, <1>7 DEF Crew
<1>9. \A u, v \in G :
        /\ Holds(u)' /\ Holds(v)' /\ held'[u].index = held'[v].index => u = v
        /\ Passing(u)' /\ Passing(v)' => u = v
  BY <1>2, <1>4, <1>7 DEF Crew
<1>10. ASSUME NEW u \in G
       PROVE  /\ ~ Holds(u)' => held'[u] = NoItem
              /\ Holds(u)' => held'[u].index \in Sent(out)' .. Received(in)' - 1
              /\ Holds(u)' => \/ held'[u] = Proved(f[held'[u].index])
                              \/ /\ in = "input" /\ pc'[u] # "send"
                                 /\ held'[u] = f[held'[u].index]
              /\ pc'[u] = "run" => in = "input" /\ held'[u] = f[held'[u].index]
              /\ pc'[u] = "err" => in = "input"
              /\ pc'[u] # "last"
  <2>1. CASE u = t
    BY <1>2, <1>3, <1>4, <1>6, <2>1 DEF Crew, Form
  <2>2. CASE u # t
    <3>1. pc'[u] = pc[u] /\ held'[u] = held[u] /\ (Holds(u)' <=> Holds(u))
      BY <1>3, <1>4, <2>2
    <3>2. Holds(u) => held[u].index \in Sent(out) .. Received(in) - 1
      BY DEF Crew
    <3>3. Holds(u) => held[u].index \in Sent(out)' .. Received(in)' - 1
      BY <1>2, <3>2
    <3> QED
      BY <3>1, <3>3 DEF Crew
  <2> QED
    BY <2>1, <2>2
<1> QED
  BY <1>6, <1>8, <1>9, <1>10 DEF Crew, Proved, NoItem, Aggregate

\* The thread in turn sends: the turn was not being passed on.
LEMMA CrewSend ==
  ASSUME Typed, NEW f, NEW G \in SUBSET Threads, NEW in \in Channels, NEW out \in Channels,
         Crew(f, G, in, out), G = Senders(out), NEW t \in G, HasTurn(t), Out(t) = out,
         pc' = [pc EXCEPT ![t] = "advance"],
         held' = [held EXCEPT ![t] = NoItem],
         turn' = turn, Received(in)' = Received(in)
  PROVE  /\ Crew(f, G, in, out)' /\ Sent(out)' = Sent(out) + 1
         /\ held[t] = Proved(f[Sent(out)]) /\ held[t].index = Sent(out)
<1>1. /\ pc \in [Threads -> PCs] /\ held \in [Threads -> Items] /\ t \in Threads
      /\ turn[out] \in Nat
  BY DEF Typed
<1>2. Sent(out) \in Nat /\ Received(in) \in Int
  BY Counters DEF Counted
<1>3. pc[t] = "send" /\ turn[out] = held[t].index
  BY DEF HasTurn
<1>4. /\ pc'[t] = "advance" /\ held'[t] = NoItem
      /\ \A u \in G : u # t => pc'[u] = pc[u] /\ held'[u] = held[u]
  BY <1>1
<1>5. /\ Holds(t) /\ ~ Holds(t)' /\ ~ Passing(t) /\ Passing(t)'
      /\ \A u \in G : u # t => (Holds(u)' <=> Holds(u)) /\ (Passing(u)' <=> Passing(u))
  BY <1>3, <1>4 DEF Holds, Passing
<1>6. held[t].index \in Sent(out) .. Received(in) - 1 /\ held[t] = Proved(f[held[t].index])
  BY <1>3, <1>5 DEF Crew
<1>7. \A u \in G : ~ Passing(u)
  BY <1>1, <1>3, <1>6 DEF Sent
<1>8. Sent(out) = turn[out]
  BY <1>1, <1>7 DEF Sent
<1>9. Sent(out)' = Sent(out) + 1
  BY <1>5, <1>8 DEF Sent, Senders
<1>10. \A u \in G : u # t => (Holds(u)' => held'[u].index # Sent(out))
  BY <1>3, <1>4, <1>5, <1>8 DEF Crew
<1>11. \A i \in Sent(out)' .. Received(in)' - 1 :
          \E u \in G : Holds(u)' /\ held'[u].index = i
  <2> TAKE i \in Sent(out)' .. Received(in)' - 1
  <2>1. i \in Sent(out) .. Received(in) - 1 /\ i # Sent(out)
    BY <1>2, <1>9
  <2>2. PICK u \in G : Holds(u) /\ held[u].index = i
    BY <2>1 DEF Crew
  <2>3. u # t
    BY <1>3, <1>8, <2>1, <2>2
  <2> QED
    BY <1>4, <1>5, <2>2, <2>3
<1>12. \A u, v \in G :
         /\ Holds(u)' /\ Holds(v)' /\ held'[u].index = held'[v].index => u = v
         /\ Passing(u)' /\ Passing(v)' => u = v
  BY <1>4, <1>5, <1>7 DEF Crew
<1>13. ASSUME NEW u \in G
       PROVE  /\ ~ Holds(u)' => held'[u] = NoItem
              /\ Holds(u)' => held'[u].index \in Sent(out)' .. Received(in)' - 1
              /\ Holds(u)' => \/ held'[u] = Proved(f[held'[u].index])
                              \/ /\ in = "input" /\ pc'[u] # "send"
                                 /\ held'[u] = f[held'[u].index]
              /\ pc'[u] = "run" => in = "input" /\ held'[u] = f[held'[u].index]
              /\ pc'[u] = "err" => in = "input"
              /\ pc'[u] # "last"
  <2>1. CASE u = t
    BY <1>4, <1>5, <2>1
  <2>2. CASE u # t
    <3>1. pc'[u] = pc[u] /\ held'[u] = held[u] /\ (Holds(u)' <=> Holds(u))
      BY <1>4, <1>5, <2>2
    <3>2. Holds(u) => held[u].index \in Sent(out) .. Received(in) - 1
      BY DEF Crew
    <3>3. Holds(u) => held[u].index \in Sent(out)' .. Received(in)' - 1
      BY <1>2, <1>9, <1>10, <2>2, <3>1, <3>2
    <3> QED
      BY <3>1, <3>3 DEF Crew
  <2> QED
    BY <2>1, <2>2
<1>14. Sent(out)' <= Received(in)'
  BY <1>2, <1>3, <1>6, <1>8, <1>9
<1> QED
  BY <1>3, <1>6, <1>8, <1>9, <1>11, <1>12, <1>13, <1>14, ZenonT(60)
  DEF Crew, Proved, NoItem, Aggregate

\* The thread that has sent passes the turn on.
LEMMA CrewAdvance ==
  ASSUME Typed, NEW f, NEW G \in SUBSET Threads, NEW in \in Channels, NEW out \in Channels,
         Crew(f, G, in, out), G = Senders(out), NEW t \in G, pc[t] = "advance",
         pc'[t] = "recv", \A u \in G : u # t => pc'[u] = pc[u], held' = held,
         turn'[out] = turn[out] + 1, Received(in)' = Received(in)
  PROVE  Crew(f, G, in, out)' /\ Sent(out)' = Sent(out)
<1>1. /\ pc \in [Threads -> PCs] /\ turn \in [Channels -> Nat] /\ t \in Threads
  BY DEF Typed
<1>2. /\ pc'[t] = "recv" /\ turn'[out] = turn[out] + 1
      /\ \A u \in G : u # t => pc'[u] = pc[u]
  BY <1>1
<1>3. /\ Passing(t) /\ ~ Passing(t)' /\ ~ Holds(t) /\ ~ Holds(t)'
      /\ \A u \in G : u # t => (Holds(u)' <=> Holds(u)) /\ (Passing(u)' <=> Passing(u))
  BY <1>2 DEF Holds, Passing
<1>4. \A u \in G : Passing(u) => u = t
  BY <1>3 DEF Crew
<1>5. \A u \in G : ~ Passing(u)'
  BY <1>3, <1>4
<1>6. Sent(out) = turn[out] + 1
  BY <1>3 DEF Sent
<1>7. Sent(out)' = turn'[out]
  <2>1. Senders(out)' = Senders(out)
    BY DEF Senders
  <2>2. turn'[out] \in Nat
    BY <1>1, <1>2
  <2> QED
    BY <1>5, <2>1, <2>2 DEF Sent
<1>8. Sent(out)' = Sent(out)
  BY <1>2, <1>6, <1>7
<1>9. \A u \in G : /\ Holds(u)' <=> Holds(u)
                   /\ held'[u] = held[u]
                   /\ u # t => pc'[u] = pc[u]
  BY <1>2, <1>3
<1>10. \A i \in Sent(out) .. Received(in) - 1 :
          \E u \in G : Holds(u)' /\ held'[u].index = i
  BY <1>9 DEF Crew
<1>11. \A u, v \in G :
         /\ Holds(u)' /\ Holds(v)' /\ held'[u].index = held'[v].index => u = v
         /\ Passing(u)' /\ Passing(v)' => u = v
  BY <1>5, <1>9, SMTT(40) DEF Crew
<1> QED
  BY <1>2, <1>3, <1>8, <1>9, <1>10, <1>11 DEF Crew, Proved, NoItem, Aggregate

\* A thread of the crew ends, fails, or makes a proof of the input it holds.
LEMMA CrewTurns ==
  ASSUME Typed, NEW f, NEW G \in SUBSET Threads, NEW in \in Channels, NEW out \in Channels,
         Crew(f, G, in, out), G = Senders(out), NEW t \in G, NEW to, turn' = turn,
         pc'[t] = to, \A u \in G : u # t => pc'[u] = pc[u] /\ held'[u] = held[u],
         \/ pc[t] = "recv" /\ to = "ok" /\ held'[t] = held[t]
         \/ /\ Holds(t) /\ to \in {"err", "panic"} /\ held'[t] = held[t]
            /\ to = "err" => in = "input"
         \/ /\ pc[t] = "run" /\ to = "send" /\ held'[t] = Proved(f[held[t].index])
            /\ Proved(f[held[t].index]).index = held[t].index,
         Received(in)' = Received(in)
  PROVE  Crew(f, G, in, out)' /\ Sent(out)' = Sent(out)
<1>1. pc \in [Threads -> PCs] /\ held \in [Threads -> Items] /\ t \in Threads
  BY DEF Typed
<1>2. /\ pc'[t] = to
      /\ \A u \in G : u # t => pc'[u] = pc[u] /\ held'[u] = held[u]
  BY <1>1
<1>3. /\ Holds(t)' <=> Holds(t)
      /\ ~ Passing(t) /\ ~ Passing(t)'
      /\ \A u \in G : u # t => (Holds(u)' <=> Holds(u)) /\ (Passing(u)' <=> Passing(u))
  BY <1>2 DEF Holds, Passing
<1>4. Sent(out)' = Sent(out)
  BY <1>3, SentIdle
<1>5. \A u \in G : (Holds(u)' <=> Holds(u)) /\ (Passing(u)' <=> Passing(u))
  BY <1>3
<1>6. \A u \in G : held'[u].index = held[u].index
  BY <1>1, <1>2
<1>7. \A i \in Sent(out) .. Received(in) - 1 :
         \E u \in G : Holds(u)' /\ held'[u].index = i
  BY <1>5, <1>6 DEF Crew
<1>8. \A u, v \in G :
        /\ Holds(u)' /\ Holds(v)' /\ held'[u].index = held'[v].index => u = v
        /\ Passing(u)' /\ Passing(v)' => u = v
  BY <1>5, <1>6 DEF Crew
<1>9. ASSUME NEW u \in G
      PROVE  /\ ~ Holds(u)' => held'[u] = NoItem
             /\ Holds(u)' => held'[u].index \in Sent(out) .. Received(in) - 1
             /\ Holds(u)' => \/ held'[u] = Proved(f[held'[u].index])
                             \/ /\ in = "input" /\ pc'[u] # "send"
                                /\ held'[u] = f[held'[u].index]
             /\ pc'[u] = "run" => in = "input" /\ held'[u] = f[held'[u].index]
             /\ pc'[u] = "err" => in = "input"
             /\ pc'[u] # "last"
  <2>1. CASE u = t
    BY <1>1, <1>2, <1>5, <1>6, <2>1 DEF Crew, Holds
  <2>2. CASE u # t
    BY <1>2, <1>5, <2>2 DEF Crew
  <2> QED
    BY <2>1, <2>2
<1> QED
  BY <1>4, <1>7, <1>8, <1>9, ZenonT(60) DEF Crew, Proved, NoItem, Aggregate

-----------------------------------------------------------------------------
(* Consequences of the invariant. *)

Ordered ==
    /\ Used \in Nat /\ Made \in Nat
    /\ Received("proofs") \in Nat /\ Received("traces") \in Nat /\ Received("input") \in Nat
    /\ Sent("proofs") \in Nat /\ Sent("traces") \in Nat /\ Sent("input") \in Nat
    /\ 0 <= Used /\ Used <= Received("proofs")
    /\ Used + Len(batch) + Len(root) = Received("proofs")
    /\ Received("proofs") <= Sent("proofs") /\ Sent("proofs") <= Received("traces")
    /\ Received("traces") <= Sent("traces") /\ Sent("traces") <= Received("input")
    /\ Received("input") <= Sent("input")
    /\ Sent("input") <= Made /\ Used < Made
    /\ pc[TreeThread] \in {"send", "panic"} => Sent("input") <= count

\* The counters are in the order of the pipeline.
LEMMA Order ==
  ASSUME Typed, NEW f, TreeOf(f)
  PROVE  Counted /\ Ordered
<1>1. Counted
  BY Counters
<1>2. Used + Len(batch) + Len(root) = Received("proofs")
  BY <1>1 DEF Used, Counted
<1>3. Used \in Nat /\ NumLeaves <= count /\ \E b \in Used + 1 .. Made : TRUE
  BY DEF TreeOf, Frontier
<1>4. Sent("proofs") <= Received("traces") /\ Sent("traces") <= Received("input")
  BY DEF TreeOf, Crew
<1>5. Sent("input") = turn["input"] + IF Passing(LeafSender) \/ Passing(TreeThread)
                                      THEN 1 ELSE 0
  <2>1. (\E t \in Senders("input") : Passing(t)) <=>
           Passing(LeafSender) \/ Passing(TreeThread)
    BY Plan
  <2> QED
    BY <2>1 DEF Sent
<1>6. Inputs(f) /\ turn["input"] \in Nat /\ count \in Nat
  BY <1>1 DEF TreeOf, Typed, Counted
<1>8. NumLeaves \in Nat \ {0}
  BY <1>1 DEF Counted
<1>7. Sent("input") <= Made /\ (pc[TreeThread] \in {"send", "panic"} => Sent("input") <= count)
  BY <1>8, <1>3, <1>5, <1>6 DEF Inputs, Made, Passing
<1> QED
  BY <1>1, <1>2, <1>3, <1>4, <1>7 DEF Counted, Ordered

\* An unused input of the height of the root is the root, and the last one.
LEMMA RootItem ==
  ASSUME Typed, NEW f \in [Nat -> Items], Frontier(f), NEW i \in Used .. Made - 1,
         f[i].height = ExpectedHeight
  PROVE  i = Used /\ Used = Made - 1 /\ Starts(f[i]) /\ Finishes(f[i])
<1>1. PICK b \in Used + 1 .. Made : Layers(f, b)
  BY DEF Frontier
<1>2. Used \in Nat /\ Made \in Nat
  BY DEF Frontier
<1> DEFINE n == (b - Used) + 2 * (Made - b)
<1>3. n \in Nat \ {0} /\ b \in Nat
  BY <1>2
<1>4. f[Used].height \in Nat /\ f[Used].height + Levels(n) = ExpectedHeight
  BY <1>1, <1>2, ItemTypes DEF Layers
<1>5. Levels(n) \in Nat
  BY <1>3, LevelsDef
<1>6. CASE i < b
  <2>1. f[i].height = f[Used].height
    BY <1>1, <1>3, <1>6 DEF Layers
  <2>2. Levels(n) = 0
    BY <1>4, <1>5, <2>1
  <2>3. n = 1
    <3> HIDE DEF n
    <3> QED
      BY <1>3, <2>2, LevelsDef
  <2>4. b = Used + 1 /\ Made = b /\ i = Used
    BY <1>2, <1>3, <1>6, <2>3
  <2> QED
    BY <1>1, <1>2, <2>4 DEF Layers
<1>7. CASE ~ (i < b)
  <2>1. f[i].height = f[Used].height + 1
    BY <1>1, <1>3, <1>7 DEF Layers
  <2>2. Levels(n) = 1
    BY <1>4, <1>5, <2>1
  <2>3. n \in Nat \ {0, 1, 2}
    BY <1>2, <1>3, <1>7
  <2>4. Levels(n) >= 2
    <3> HIDE DEF n
    <3> QED
      BY <2>3, LevelsDef
  <2> QED
    BY <2>2, <2>4
<1> QED
  BY <1>6, <1>7

\* The recursion programs accept every input, if the caller's deferred proofs are
\* those the program has committed to.
LEMMA InputAccepted ==
  ASSUME Typed, NEW f, TreeOf(f), NEW i \in Used .. Made - 1, deferreds = committed
  PROVE  Accepts(f[i])
<1>1. i \in 0 .. Made - 1 /\ i \in Nat
  BY Order DEF Ordered
<1>2. /\ f[i] \in Items
      /\ f[i].complete <=> f[i].height = ExpectedHeight
      /\ Len(f[i].proofs) \in {1, 2}
      /\ Len(f[i].proofs) = 2 => Adjacent(f[i].proofs[1], f[i].proofs[2])
  BY <1>1 DEF TreeOf, Table
<1>3. \A k \in 1 .. Len(f[i].proofs) - 1 : Adjacent(f[i].proofs[k], f[i].proofs[k + 1])
  BY <1>2
<1>4. f[i].complete => CompleteRange(Aggregate(f[i]))
  BY <1>2, RootItem DEF TreeOf, Starts, Finishes, CompleteRange
<1> QED
  BY <1>3, <1>4 DEF Accepts

\* Main joins threads.
LEMMA HandlesAreThreads ==
  /\ Len(Handles) = Len(Provers) + 1 /\ Len(Provers) \in Nat
  /\ \A i \in 1 .. Len(Provers) : Handles[i] = Provers[i]
  /\ Handles[Len(Provers) + 1] = TreeThread
  /\ \A i \in 1 .. Len(Handles) : Handles[i] \in Threads
<1>1. Provers \in Seq(ToSet(Provers))
  BY CompressAssumption
<1> DEFINE T == ToSet(Provers) \cup {TreeThread}
<1>2. Provers \in Seq(T) /\ TreeThread \in T /\ T \subseteq Threads
  BY <1>1, Plan
<1> HIDE DEF T
<1> QED
  BY <1>2 DEF Handles

\* When main has joined every handle the provers and the tree thread have ended.
LEMMA JoinedAll ==
  ASSUME Typed, Main, joined = Len(Handles)
  PROVE  /\ \A p \in ToSet(Provers) : pc[p] \in {"ok", "err"}
         /\ pc[TreeThread] \in {"ok", "err"}
<1>1. Provers \in Seq(ToSet(Provers))
  BY CompressAssumption
<1>2. ASSUME NEW p \in ToSet(Provers)
      PROVE  \E i \in 1 .. Len(Provers) : Provers[i] = p
  BY <1>1 DEF ToSet
<1> QED
  BY <1>2, HandlesAreThreads DEF Main

\* In a healthy run nobody finds that the receivers of its channel are gone.
LEMMA NobodyIsDeserted ==
  ASSUME Typed, Main, Healthy, faults = 0, deferreds = committed,
         NEW t \in Threads, pc[t] = "send"
  PROVE  ~ NoReceiver(Out(t))
<1>1. SUFFICES ASSUME NoReceiver(Out(t)) PROVE FALSE
  OBVIOUS
<1>2. mainPc = "returned"
  BY <1>1 DEF Healthy, NoReceiver, MainHolds, Typed
<1>3. /\ \A p \in ToSet(Provers) : pc[p] = "ok"
      /\ pc[TreeThread] = "ok"
  BY <1>2, JoinedAll, Plan DEF Main, Healthy
<1>4. \E p \in ToSet(Provers) : TRUE
  <2>1. Provers \in Seq(ToSet(Provers)) /\ Provers # <<>>
    BY CompressAssumption
  <2>2. Provers[1] \in ToSet(Provers)
    BY <2>1
  <2> QED
    BY <2>2
<1>5. \A w \in Workers : pc[w] \in Ended
  BY <1>3, <1>4, Plan DEF Healthy, NoSender
<1>6. \E w \in Workers : TRUE
  BY CompressAssumption
<1>7. \A w \in Workers : pc[w] = "ok"
  BY <1>5, Plan DEF Healthy, Ended
<1>8. pc[LeafSender] \in Ended
  BY <1>6, <1>7, Plan DEF Healthy, NoSender
<1> QED
  BY <1>3, <1>5, <1>8, Plan DEF Ended

-----------------------------------------------------------------------------
(* Steps of workers and provers. *)

\* What depends on the sizes, and on the tree thread's progress, only.
LEMMA TreeIdle ==
  ASSUME Typed, NEW f, Table(f), Frontier(f), UNCHANGED sizes,
         Made' = Made, Used' = Used, count' >= count, count' \in Nat
  PROVE  /\ Table(f)' /\ Frontier(f)' /\ ExpectedHeight' = ExpectedHeight
         /\ NumLeaves' = NumLeaves /\ \A x : Accepts(x)' <=> Accepts(x)
         /\ \A i : LeafInput(i)' = LeafInput(i)
<1> USE DEF sizes
<1>1. ExpectedHeight' = ExpectedHeight /\ NumLeaves' = NumLeaves
  BY DEF ExpectedHeight, NumLeaves
<1>2. \A i : LeafInput(i)' = LeafInput(i)
  BY DEF LeafInput, CoreRange, DeferredRange, CoreIsComplete
<1>3. \A x : Accepts(x)' <=> Accepts(x)
  BY DEF Accepts, CompleteRange, Adjacent, Aggregate
<1>4. \A x : /\ Starts(x)' <=> Starts(x)
             /\ Finishes(x)' <=> Finishes(x)
             /\ \A y : Follows(x, y)' <=> Follows(x, y)
  BY DEF Starts, Finishes, Follows, Adjacent, Aggregate
<1>5. Table(f)'
  BY <1>1, <1>2, <1>4 DEF Table, Adjacent
<1>6. \A b : Layers(f, b)' <=> Layers(f, b)
  BY <1>1, <1>4 DEF Layers, Levels
<1>7. Frontier(f)'
  <2>1. count \in Nat /\ NumLeaves \in Nat
    BY Counters DEF Typed, Counted
  <2> QED
    BY <1>1, <1>6, <2>1 DEF Frontier
<1> QED
  BY <1>1, <1>2, <1>3, <1>5, <1>7

\* A step of a worker or a prover leaves the tree thread and main alone.
LEMMA CrewFrame ==
  ASSUME Typed, Main, NEW f, TreeOf(f), NEW t \in Workers \cup ToSet(Provers),
         UNCHANGED <<sizes, tree, main>>, turn'["input"] = turn["input"],
         pc[t] \notin Ended,
         \A u \in Threads : u # t => pc'[u] = pc[u] /\ held'[u] = held[u],
         Received("proofs")' = Received("proofs"),
         t \in Workers => channel'["proofs"] = channel["proofs"],
         faults' = faults \/ pc'[t] \in {"err", "panic"}
  PROVE  /\ Table(f)' /\ Frontier(f)' /\ Taken(f)' /\ Inputs(f)' /\ Stops(f)' /\ Main'
         /\ Sent("input")' = Sent("input")
         /\ \A x : Accepts(x)' <=> Accepts(x)
<1> USE DEF sizes, tree, main
<1>1. /\ pc'[LeafSender] = pc[LeafSender] /\ held'[LeafSender] = held[LeafSender]
      /\ pc'[TreeThread] = pc[TreeThread] /\ held'[TreeThread] = held[TreeThread]
  BY Plan
<1>2. Made' = Made /\ Used' = Used /\ count \in Nat
  BY <1>1 DEF Made, Used, Typed
<1>3. /\ Table(f)' /\ Frontier(f)' /\ ExpectedHeight' = ExpectedHeight
      /\ NumLeaves' = NumLeaves /\ \A x : Accepts(x)' <=> Accepts(x)
      /\ \A i : LeafInput(i)' = LeafInput(i)
  BY <1>2, TreeIdle DEF TreeOf
<1>4. Sent("input")' = Sent("input")
  <2>1. \A u \in Senders("input") : Passing(u)' <=> Passing(u)
    BY <1>1, Plan DEF Passing
  <2> QED
    BY <2>1, SentIdle
<1>5. Taken(f)'
  <2>1. Taken(f)
    BY DEF TreeOf
  <2>2. \A x : Proved(x)' = Proved(x)
    BY DEF Proved, Aggregate
  <2> QED
    BY <1>2, <2>1, <2>2 DEF Taken
<1>6. Inputs(f)'
  <2>1. Inputs(f)
    BY DEF TreeOf
  <2> QED
    BY <1>1, <1>3, <2>1 DEF Inputs, Passing, NoItem
<1>7. Stops(f)'
  <2>1. Stops(f)
    BY DEF TreeOf
  <2>2. NoSender("proofs") => NoSender("proofs")' /\ channel'["proofs"] = channel["proofs"]
    BY Plan DEF NoSender, Senders
  <2> QED
    BY <1>1, <1>2, <1>3, <2>1, <2>2 DEF Stops
<1>8. Main'
  <2>1. \A i \in 1 .. joined : Handles[i] \in Threads
    BY Plan, HandlesAreThreads DEF Typed
  <2>2. \A i \in 1 .. joined' : pc'[Handles[i]] \in {"ok", "err"}
    BY <2>1 DEF Main, Ended
  <2>3. result' # "ok"
    BY Plan DEF Main, Ended
  <2>4. faults' > 0 => \E u \in Workers \cup ToSet(Provers) : pc'[u] \in {"err", "panic"}
    BY Plan DEF Main, Ended
  <2> QED
    BY <2>2, <2>3, <2>4 DEF Main, Handles
<1> QED
  BY <1>3, <1>4, <1>5, <1>6, <1>7, <1>8

\* What a step of a worker or a prover does to the health of the run.
LEMMA CrewHealthy ==
  ASSUME Typed, Healthy, NEW t \in Workers \cup ToSet(Provers),
         UNCHANGED <<sizes, main>>, pc[t] \notin Ended, faults' >= faults, faults' \in Nat,
         \A u \in Threads : u # t => pc'[u] = pc[u],
         faults' = 0 /\ deferreds = committed => pc'[t] \notin {"err", "panic"},
         pc'[t] = "ok" => channel[In(t)] = <<>> /\ NoSender(In(t)) /\ channel' = channel,
         \A c \in {"input", "traces"} :
            channel[c] = <<>> => channel'[c] = <<>> \/ t \in Senders(c)
  PROVE  Healthy'
<1> USE DEF sizes, main
<1>1. SUFFICES ASSUME faults' = 0, deferreds = committed
               PROVE  /\ mainPc' # "panic"
                      /\ \A u \in Threads : pc'[u] \notin {"err", "panic"}
                      /\ \A w \in Workers : pc'[w] = "ok" =>
                            channel'["input"] = <<>> /\ NoSender("input")'
                      /\ \A p \in ToSet(Provers) : pc'[p] = "ok" =>
                            channel'["traces"] = <<>> /\ NoSender("traces")'
  BY DEF Healthy
<1>2. faults = 0
  BY <1>1 DEF Typed
<1>3. /\ mainPc # "panic" /\ \A u \in Threads : pc[u] \notin {"err", "panic"}
      /\ \A w \in Workers : pc[w] = "ok" => channel["input"] = <<>> /\ NoSender("input")
      /\ \A p \in ToSet(Provers) : pc[p] = "ok" =>
            channel["traces"] = <<>> /\ NoSender("traces")
  BY <1>1, <1>2 DEF Healthy
<1>4. mainPc' # "panic" /\ \A u \in Threads : pc'[u] \notin {"err", "panic"}
  BY <1>1, <1>3
<1>5. \A c \in {"input", "traces"} : NoSender(c) => t \notin Senders(c) /\ NoSender(c)'
  BY Plan DEF NoSender, Senders
<1>6. ASSUME NEW w \in Workers, pc'[w] = "ok"
      PROVE  channel'["input"] = <<>> /\ NoSender("input")'
  <2>1. channel["input"] = <<>> /\ NoSender("input")
    BY <1>3, <1>6, Plan
  <2> QED
    BY <1>5, <2>1
<1>7. ASSUME NEW p \in ToSet(Provers), pc'[p] = "ok"
      PROVE  channel'["traces"] = <<>> /\ NoSender("traces")'
  <2>1. channel["traces"] = <<>> /\ NoSender("traces")
    BY <1>3, <1>7, Plan
  <2> QED
    BY <1>5, <2>1
<1> QED
  BY <1>4, <1>6, <1>7

\* A step of a worker or a prover is sound if it is for its own crew and channels.
LEMMA CrewSound ==
  ASSUME NEW f, Sound(f), NEW t \in Workers \cup ToSet(Provers), pc[t] \notin Ended,
         UNCHANGED <<sizes, tree, main>>, turn'["input"] = turn["input"],
         \A u \in Threads : u # t => pc'[u] = pc[u] /\ held'[u] = held[u],
         pc' \in [Threads -> PCs], held' \in [Threads -> Items],
         channel' \in [Channels -> Seq(Items)], turn' \in [Channels -> Nat],
         faults' \in Nat, faults' >= faults,
         faults' = faults \/ pc'[t] \in {"err", "panic"},
         faults' = 0 /\ deferreds = committed => pc'[t] \notin {"err", "panic"},
         pc'[t] = "ok" => channel[In(t)] = <<>> /\ NoSender(In(t)) /\ channel' = channel,
         t \in Workers => channel'["proofs"] = channel["proofs"],
         \A c \in {"input", "traces"} :
            channel[c] = <<>> => channel'[c] = <<>> \/ t \in Senders(c),
         Crew(f, Senders(Out(t)), In(t), Out(t))',
         \A c \in Channels : Contents(f, c)',
         \A c \in Channels : c # In(t) => Received(c)' = Received(c),
         \A c \in Channels : c # Out(t) => Sent(c)' = Sent(c),
         \A i \in Sent("traces") .. Sent("traces")' - 1 : Accepts(f[i]),
         t \in Workers /\ pc'[t] = "send" => Accepts(f[held'[t].index])
  PROVE  Sound(f)'
<1>1. Typed /\ Main /\ Healthy /\ TreeOf(f) /\ Counted
  BY Counters DEF Sound
<1>2. /\ Crew(f, Workers, "input", "traces")'
      /\ Crew(f, ToSet(Provers), "traces", "proofs")'
  <2>1. CASE t \in Workers
    <3>1. Crew(f, ToSet(Provers), "traces", "proofs")'
      BY <1>1, <2>1, CrewIdle, Plan DEF TreeOf, Counted
    <3> QED
      BY <2>1, <3>1, Plan
  <2>2. CASE t \in ToSet(Provers)
    <3>1. Crew(f, Workers, "input", "traces")'
      BY <1>1, <2>2, CrewIdle, Plan DEF TreeOf, Counted
    <3> QED
      BY <2>2, <3>1, Plan
  <2> QED
    BY <2>1, <2>2
<1>3. /\ Table(f)' /\ Frontier(f)' /\ Taken(f)' /\ Inputs(f)' /\ Stops(f)' /\ Main'
      /\ \A x : Accepts(x)' <=> Accepts(x)
  <2>1. Received("proofs")' = Received("proofs")
    BY <1>1, Plan DEF Counted
  <2> QED
    BY <1>1, <2>1, CrewFrame
<1>4. Accepted(f)'
  <2>1. Accepted(f)
    BY <1>1 DEF TreeOf
  <2>2. Sent("traces")' \in Nat /\ Sent("traces") \in Nat
    <3>1. turn'["traces"] \in Nat /\ turn["traces"] \in Nat
      BY <1>1 DEF Channels, Typed
    <3> QED
      BY <3>1 DEF Sent
  <2>3. ASSUME NEW i \in 0 .. Sent("traces")' - 1
        PROVE  Accepts(f[i])'
    <3>1. Accepts(f[i])
      <4>1. CASE i < Sent("traces")
        BY <2>1, <2>2, <4>1 DEF Accepted
      <4>2. CASE ~ (i < Sent("traces"))
        BY <2>2, <4>2
      <4> QED
        BY <4>1, <4>2
    <3> QED
      BY <1>3, <3>1
  <2>4. ASSUME NEW w \in Workers, pc'[w] = "send"
        PROVE  Accepts(f[held'[w].index])
    BY <2>1, <2>4, Plan DEF Accepted
  <2> QED
    BY <1>3, <2>3, <2>4 DEF Accepted
<1>5. Healthy'
  BY <1>1, CrewHealthy
<1>6. Typed'
  BY <1>1 DEF Typed, sizes, tree, main, Handles
<1> QED
  BY <1>1, <1>2, <1>3, <1>4, <1>5, <1>6 DEF Sound, TreeOf

\* What is known of a worker or a prover and its two channels.
About(f, t) ==
    /\ In(t) \in {"input", "traces"} /\ Out(t) \in Channels /\ In(t) \in Channels
    /\ In(t) # Out(t) /\ t \in Senders(Out(t)) /\ Senders(Out(t)) \in SUBSET Threads
    /\ t \in Threads /\ (In(t) = "input" <=> t \in Workers) /\ Out(t) # "input"
    /\ Out(t) = "traces" <=> t \in Workers
    /\ Crew(f, Senders(Out(t)), In(t), Out(t))
    /\ \A c \in Channels : Contents(f, c) /\ Senders(c) \in SUBSET Threads
    /\ \A c \in Channels : c # Out(t) => t \notin Senders(c)

Types ==
    /\ pc \in [Threads -> PCs] /\ held \in [Threads -> Items]
    /\ channel \in [Channels -> Seq(Items)] /\ turn \in [Channels -> Nat]
    /\ faults \in Nat /\ "input" \in Channels /\ "traces" \in Channels /\ "proofs" \in Channels

\* It holds for every worker and every prover.
LEMMA CrewOf ==
  ASSUME NEW f, Sound(f), NEW t \in Workers \cup ToSet(Provers)
  PROVE  About(f, t) /\ Types /\ Typed /\ TreeOf(f) /\ Counted /\ Ordered
<1>1. Typed /\ Main /\ Healthy /\ TreeOf(f) /\ Counted /\ Ordered
  BY Order DEF Sound
<1> QED
  BY <1>1, Plan DEF About, Types, Channels, TreeOf, Typed

\* A worker or a prover receives.
LEMMA ReceiveSound ==
  ASSUME NEW f, Sound(f), NEW t \in Workers \cup ToSet(Provers), Receive(t)
  PROVE  Sound(f)'
<1>0. About(f, t) /\ Types /\ Typed /\ TreeOf(f) /\ Counted /\ Ordered
  BY CrewOf
<1>1. /\ pc[t] = "recv" /\ channel[In(t)] # <<>>
      /\ held' = [held EXCEPT ![t] = Head(channel[In(t)])]
      /\ channel' = [channel EXCEPT ![In(t)] = Tail(@)]
      /\ pc' = [pc EXCEPT ![t] = IF In(t) = "input" THEN "run" ELSE "send"]
      /\ UNCHANGED <<sizes, turn, tree, main, faults>>
  BY <1>0 DEF Receive, About
<1>2. /\ pc'[t] \in {"run", "send"} /\ (pc'[t] = "run" <=> t \in Workers)
      /\ \A u \in Threads : u # t => pc'[u] = pc[u] /\ held'[u] = held[u]
      /\ \A c \in Channels : c # In(t) => channel'[c] = channel[c]
      /\ pc[t] \notin Ended
  BY <1>0, <1>1 DEF Ended, About, Types
<1>3. \A c \in Channels : Sent(c)' = Sent(c)
  <2>1. \A u \in Threads : Passing(u)' <=> Passing(u)
    BY <1>1, <1>2 DEF Passing
  <2> QED
    BY <1>0, <1>1, <2>1, SentIdle DEF About
<1>4. /\ Contents(f, In(t))' /\ Received(In(t))' = Received(In(t)) + 1
      /\ Head(channel[In(t)]) = Form(f, In(t), Received(In(t)))
      /\ Received(In(t)) < Sent(In(t))
      /\ Head(channel[In(t)]) \in Items /\ channel' \in [Channels -> Seq(Items)]
  BY <1>0, <1>1, <1>3, ChannelReceive DEF About
<1>5. \A c \in Channels : c # In(t) => Contents(f, c)' /\ Received(c)' = Received(c)
  BY <1>0, <1>2, <1>3, ChannelIdle DEF About
<1>6. Head(channel[In(t)]).index = Received(In(t))
  <2>1. Received(In(t)) \in 0 .. Made - 1
    <3>1. CASE In(t) = "input"
      BY <1>0, <1>4, <3>1 DEF Ordered
    <3>2. CASE In(t) = "traces"
      BY <1>0, <1>4, <3>2 DEF Ordered
    <3> QED
      BY <1>0, <3>1, <3>2 DEF About
  <2>2. Table(f) /\ f \in [Nat -> Items]
    BY <1>0 DEF TreeOf
  <2>3. /\ f[Received(In(t))].index = Received(In(t))
        /\ Proved(f[Received(In(t))]).index = Received(In(t))
    BY <1>0, <2>1, <2>2, TableItem
  <2> QED
    BY <1>4, <2>3 DEF Form
<1>7. Crew(f, Senders(Out(t)), In(t), Out(t))'
  BY <1>0, <1>1, <1>3, <1>4, <1>6, CrewReceive DEF About
<1>8. pc' \in [Threads -> PCs] /\ held' \in [Threads -> Items]
  BY <1>0, <1>1, <1>2, <1>4 DEF PCs, Types
<1>9. \A c \in {"input", "traces"} : channel[c] = <<>> => channel'[c] = <<>>
  BY <1>1, <1>2 DEF Channels
<1>a. \A i \in Sent("traces") .. Sent("traces")' - 1 : Accepts(f[i])
  <2>1. Sent("traces") \in Nat /\ Sent("traces")' = Sent("traces")
    BY <1>0, <1>3 DEF Types, Ordered
  <2> QED
    BY <2>1
<1>10. /\ \A c \in Channels : Contents(f, c)'
       /\ t \in Workers => channel'["proofs"] = channel["proofs"]
       /\ faults' \in Nat /\ faults' = faults /\ turn' \in [Channels -> Nat] /\ turn' = turn
  BY <1>0, <1>1, <1>2, <1>4, <1>5 DEF Types, About
<1>b. /\ faults' >= faults /\ pc'[t] \notin {"ok", "err", "panic"}
      /\ t \in Workers => pc'[t] # "send"
      /\ channel' \in [Channels -> Seq(Items)]
      /\ \A c \in Channels : c # In(t) => Received(c)' = Received(c)
      /\ UNCHANGED <<sizes, tree, main>> /\ turn'["input"] = turn["input"]
  BY <1>1, <1>2, <1>4, <1>5, <1>10
<1>c. \A c \in Channels : c # Out(t) => Sent(c)' = Sent(c)
  BY <1>3
<1> QED
  BY <1>2, <1>7, <1>8, <1>9, <1>10, <1>a, <1>b, <1>c, CrewSound

\* A worker or a prover sends.
LEMMA SendSound ==
  ASSUME NEW f, Sound(f), NEW t \in Workers \cup ToSet(Provers), Send(t)
  PROVE  Sound(f)'
<1>0. About(f, t) /\ Types /\ Typed /\ TreeOf(f) /\ Counted /\ Ordered
  BY CrewOf
<1>1. /\ HasTurn(t) /\ pc[t] = "send" /\ t # TreeThread
      /\ channel' = [channel EXCEPT ![Out(t)] = Append(@, held[t])]
      /\ held' = [held EXCEPT ![t] = NoItem]
      /\ pc' = [pc EXCEPT ![t] = "advance"]
      /\ UNCHANGED <<sizes, turn, tree, main, faults>>
  BY Plan DEF Send, HasTurn
<1>2. /\ pc'[t] = "advance" /\ held[t] \in Items
      /\ \A u \in Threads : u # t => pc'[u] = pc[u] /\ held'[u] = held[u]
      /\ \A c \in Channels : c # Out(t) => channel'[c] = channel[c]
      /\ pc[t] \notin Ended
  BY <1>0, <1>1 DEF Ended, About, Types
<1>3. \A c \in Channels : c # Out(t) => Sent(c)' = Sent(c)
  <2>1. ASSUME NEW c \in Channels, c # Out(t)
        PROVE  \A u \in Senders(c) : Passing(u)' <=> Passing(u)
    BY <1>0, <1>2, <2>1 DEF About, Passing
  <2> QED
    BY <1>1, <2>1, SentIdle
<1>4. \A c \in Channels : c # Out(t) => Contents(f, c)' /\ Received(c)' = Received(c)
  BY <1>0, <1>2, <1>3, ChannelIdle DEF About
<1>5. /\ Crew(f, Senders(Out(t)), In(t), Out(t))' /\ Sent(Out(t))' = Sent(Out(t)) + 1
      /\ held[t] = Proved(f[Sent(Out(t))]) /\ held[t].index = Sent(Out(t))
  <2>1. Received(In(t))' = Received(In(t)) /\ turn' = turn
    BY <1>0, <1>1, <1>4 DEF About
  <2>2. /\ Out(t) \in Channels /\ In(t) \in Channels /\ t \in Senders(Out(t))
        /\ Senders(Out(t)) \in SUBSET Threads /\ Crew(f, Senders(Out(t)), In(t), Out(t))
    BY <1>0 DEF About
  <2> QED
    BY <1>0, <1>1, <2>1, <2>2, CrewSend, ZenonT(60)
<1>6. /\ Contents(f, Out(t))' /\ Received(Out(t))' = Received(Out(t))
      /\ channel' \in [Channels -> Seq(Items)]
  <2>1. held[t] = Form(f, Out(t), Sent(Out(t)))
    BY <1>0, <1>5 DEF Form, About
  <2> QED
    BY <1>0, <1>1, <1>2, <1>5, <2>1, ChannelSend DEF About
<1>7. pc' \in [Threads -> PCs] /\ held' \in [Threads -> Items]
  BY <1>0, <1>1, <1>2, ItemTypes DEF PCs, Types
<1>8. \A i \in Sent("traces") .. Sent("traces")' - 1 : Accepts(f[i])
  <2>1. Sent("traces") \in Nat /\ "traces" \in Channels
    BY <1>0 DEF Counted
  <2>2. CASE t \in Workers
    <3>1. Out(t) = "traces" /\ Accepts(f[held[t].index])
      BY <1>0, <1>1, <2>2 DEF TreeOf, Accepted, About
    <3> QED
      BY <1>5, <2>1, <3>1
  <2>3. CASE t \notin Workers
    BY <1>0, <1>3, <2>1, <2>3 DEF About
  <2> QED
    BY <2>2, <2>3
<1>9. \A c \in {"input", "traces"} :
         channel[c] = <<>> => channel'[c] = <<>> \/ t \in Senders(c)
  BY <1>0, <1>2 DEF Channels, About
<1>10. /\ \A c \in Channels : Contents(f, c)' /\ Received(c)' = Received(c)
       /\ t \in Workers => channel'["proofs"] = channel["proofs"]
       /\ faults' \in Nat /\ faults' = faults /\ turn' \in [Channels -> Nat] /\ turn' = turn
  BY <1>0, <1>1, <1>2, <1>4, <1>6 DEF Types, About
<1>11. faults' >= faults
  BY <1>10
<1> QED
  BY <1>1, <1>2, <1>3, <1>5, <1>6, <1>7, <1>8, <1>9, <1>10, <1>11, CrewSound, ZenonT(60)

\* A worker or a prover passes the turn on.
LEMMA AdvanceSound ==
  ASSUME NEW f, Sound(f), NEW t \in Workers \cup ToSet(Provers), Advance(t)
  PROVE  Sound(f)'
<1>0. About(f, t) /\ Types /\ Typed /\ TreeOf(f) /\ Counted /\ Ordered
  BY CrewOf
<1>1. /\ pc[t] = "advance" /\ turn' = [turn EXCEPT ![Out(t)] = @ + 1]
      /\ pc' = [pc EXCEPT ![t] = "recv"]
      /\ UNCHANGED <<sizes, held, channel, tree, main, faults>>
  BY DEF Advance
<1>2. /\ pc'[t] = "recv" /\ pc[t] \notin Ended
      /\ \A u \in Threads : u # t => pc'[u] = pc[u] /\ held'[u] = held[u]
      /\ \A c \in Channels : c # Out(t) => turn'[c] = turn[c]
      /\ turn' \in [Channels -> Nat]
  BY <1>0, <1>1 DEF Ended, About, Types
<1>3. \A c \in Channels : c # Out(t) => Sent(c)' = Sent(c)
  <2>1. ASSUME NEW c \in Channels, c # Out(t)
        PROVE  \A u \in Senders(c) : Passing(u)' <=> Passing(u)
    BY <1>0, <1>2, <2>1 DEF About, Passing
  <2> QED
    BY <1>2, <2>1, SentIdle
<1>4. \A c \in Channels : c # Out(t) => Contents(f, c)' /\ Received(c)' = Received(c)
  BY <1>0, <1>1, <1>3, ChannelIdle DEF About
<1>5. Crew(f, Senders(Out(t)), In(t), Out(t))' /\ Sent(Out(t))' = Sent(Out(t))
  <2>1. Received(In(t))' = Received(In(t)) /\ held' = held
    BY <1>0, <1>1, <1>4 DEF About
  <2>2. /\ Out(t) \in Channels /\ In(t) \in Channels /\ t \in Senders(Out(t))
        /\ Senders(Out(t)) \in SUBSET Threads /\ Crew(f, Senders(Out(t)), In(t), Out(t))
    BY <1>0 DEF About
  <2>3. /\ turn'[Out(t)] = turn[Out(t)] + 1
        /\ \A u \in Senders(Out(t)) : u # t => pc'[u] = pc[u]
    BY <1>0, <1>1, <1>2, <2>2 DEF Types
  <2> QED
    BY <1>0, <1>1, <1>2, <2>1, <2>2, <2>3, CrewAdvance
<1>6. Contents(f, Out(t))' /\ Received(Out(t))' = Received(Out(t))
  BY <1>0, <1>1, <1>5, ChannelIdle DEF About
<1>7. pc' \in [Threads -> PCs] /\ turn'["input"] = turn["input"]
  BY <1>0, <1>1, <1>2 DEF PCs, Types, About
<1>a. \A i \in Sent("traces") .. Sent("traces")' - 1 : Accepts(f[i])
  <2>1. Sent("traces") \in Nat /\ Sent("traces")' = Sent("traces")
    BY <1>0, <1>3, <1>5 DEF Types, Ordered
  <2> QED
    BY <2>1
<1>8. /\ \A c \in Channels : Contents(f, c)' /\ Received(c)' = Received(c)
      /\ faults' \in Nat /\ faults' = faults
      /\ channel' = channel /\ channel' \in [Channels -> Seq(Items)]
      /\ held' \in [Threads -> Items]
  BY <1>0, <1>1, <1>4, <1>6 DEF Types
<1>b. faults' >= faults
  BY <1>8
<1> QED
  BY <1>1, <1>2, <1>3, <1>5, <1>7, <1>8, <1>a, <1>b, CrewSound

\* A worker or a prover ends or fails, or a worker makes a proof.
LEMMA TurnsSound ==
  ASSUME NEW f, Sound(f), NEW t \in Workers \cup ToSet(Provers), NEW to \in PCs,
         pc' = [pc EXCEPT ![t] = to], pc[t] \notin Ended,
         \/ /\ pc[t] = "recv" /\ to = "ok" /\ held' = held
            /\ channel[In(t)] = <<>> /\ NoSender(In(t))
         \/ /\ Holds(t) /\ to \in {"err", "panic"} /\ held' = held
            /\ to = "err" => t \in Workers
         \/ /\ pc[t] = "run" /\ to = "send" /\ Accepts(held[t])
            /\ held' = [held EXCEPT ![t] = Proved(held[t])],
         UNCHANGED <<sizes, channel, turn, tree, main>>,
         faults' \in Nat, faults' >= faults,
         faults' = faults \/ to \in {"err", "panic"},
         faults' = 0 /\ deferreds = committed => to \notin {"err", "panic"}
  PROVE  Sound(f)'
<1>0. About(f, t) /\ Types /\ Typed /\ TreeOf(f) /\ Counted /\ Ordered
  BY CrewOf
<1>1. /\ pc'[t] = to
      /\ \A u \in Threads : u # t => pc'[u] = pc[u] /\ held'[u] = held[u]
  BY <1>0 DEF About, Types
<1>2. \A c \in Channels : c # Out(t) => Sent(c)' = Sent(c)
  <2>1. ASSUME NEW c \in Channels, c # Out(t)
        PROVE  \A u \in Senders(c) : Passing(u)' <=> Passing(u)
    BY <1>0, <1>1, <2>1 DEF About, Passing
  <2> QED
    BY <2>1, SentIdle
<1>3. \A c \in Channels : c # Out(t) => Contents(f, c)' /\ Received(c)' = Received(c)
  BY <1>0, <1>2, ChannelIdle DEF About
<1>4. ASSUME pc[t] = "run"
      PROVE  /\ held[t] = f[held[t].index] /\ Proved(f[held[t].index]).index = held[t].index
             /\ Proved(held[t]) \in Items
  <2>1. /\ In(t) = "input" /\ held[t] = f[held[t].index] /\ Out(t) = "traces"
        /\ held[t].index \in Sent("traces") .. Received("input") - 1
    BY <1>0, <1>4 DEF Crew, Holds, About
  <2>2. held[t].index \in 0 .. Made - 1
    BY <1>0, <2>1 DEF Ordered
  <2>3. Table(f) /\ f \in [Nat -> Items]
    BY <1>0 DEF TreeOf
  <2> QED
    BY <1>0, <2>1, <2>2, <2>3, TableItem
<1>5. Crew(f, Senders(Out(t)), In(t), Out(t))' /\ Sent(Out(t))' = Sent(Out(t))
  <2>1. Received(In(t))' = Received(In(t)) /\ turn' = turn
    BY <1>0, <1>3 DEF About
  <2>2. /\ Out(t) \in Channels /\ In(t) \in Channels /\ t \in Senders(Out(t))
        /\ Senders(Out(t)) \in SUBSET Threads /\ Crew(f, Senders(Out(t)), In(t), Out(t))
        /\ t \in Workers => In(t) = "input"
    BY <1>0 DEF About
  <2>3. /\ \A u \in Senders(Out(t)) : u # t => pc'[u] = pc[u] /\ held'[u] = held[u]
        /\ \/ pc[t] = "recv" /\ to = "ok" /\ held'[t] = held[t]
           \/ /\ Holds(t) /\ to \in {"err", "panic"} /\ held'[t] = held[t]
              /\ to = "err" => In(t) = "input"
           \/ /\ pc[t] = "run" /\ to = "send" /\ held'[t] = Proved(f[held[t].index])
              /\ Proved(f[held[t].index]).index = held[t].index
    BY <1>0, <1>1, <1>4, <2>2 DEF Types, About
  <2> QED
    BY <1>0, <1>1, <2>1, <2>2, <2>3, CrewTurns
<1>6. Contents(f, Out(t))' /\ Received(Out(t))' = Received(Out(t))
  BY <1>0, <1>5, ChannelIdle DEF About
<1>7. pc' \in [Threads -> PCs] /\ held' \in [Threads -> Items]
  BY <1>0, <1>4 DEF Types
<1>8. t \in Workers /\ pc'[t] = "send" => Accepts(f[held'[t].index])
  BY <1>0, <1>1, <1>4 DEF About, Types, Ended
<1>a. \A i \in Sent("traces") .. Sent("traces")' - 1 : Accepts(f[i])
  <2>1. Sent("traces") \in Nat /\ Sent("traces")' = Sent("traces")
    BY <1>0, <1>2, <1>5 DEF Types, Ordered
  <2> QED
    BY <2>1
<1>9. /\ \A c \in Channels : Contents(f, c)' /\ Received(c)' = Received(c)
      /\ channel' = channel /\ channel' \in [Channels -> Seq(Items)]
      /\ turn' = turn /\ turn' \in [Channels -> Nat]
  BY <1>0, <1>3, <1>6 DEF Types
<1> QED
  BY <1>1, <1>2, <1>5, <1>7, <1>8, <1>9, <1>a, CrewSound

\* A worker or a prover finds its channel closed, or that of the next crew.
LEMMA ClosedSound ==
  ASSUME NEW f, Sound(f), NEW t \in Workers \cup ToSet(Provers),
         Disconnected(t) \/ SendPanics(t)
  PROVE  Sound(f)'
<1>1. Typed /\ Main /\ Healthy /\ faults \in Nat /\ t \in Threads
  BY Plan DEF Sound, Typed
<1>2. CASE Disconnected(t)
  <2>1. /\ pc[t] = "recv" /\ channel[In(t)] = <<>> /\ NoSender(In(t))
        /\ pc' = [pc EXCEPT ![t] = "ok"] /\ held' = held /\ faults' = faults
        /\ UNCHANGED <<sizes, channel, turn, tree, main>>
    BY <1>2 DEF Disconnected
  <2>2. "ok" \in PCs /\ pc[t] \notin Ended /\ faults' \in Nat /\ faults' >= faults
    BY <1>1, <2>1 DEF PCs, Ended
  <2> QED
    BY <2>1, <2>2, TurnsSound
<1>3. CASE SendPanics(t)
  <2>1. /\ HasTurn(t) /\ pc[t] = "send" /\ NoReceiver(Out(t))
        /\ pc' = [pc EXCEPT ![t] = "panic"] /\ held' = held /\ faults' = faults
        /\ UNCHANGED <<sizes, channel, turn, tree, main>>
    BY <1>3 DEF SendPanics, HasTurn
  <2>2. /\ "panic" \in PCs /\ pc[t] \notin Ended /\ faults' \in Nat /\ faults' >= faults
        /\ Holds(t)
    BY <1>1, <2>1 DEF PCs, Ended, Holds
  <2>3. ~ (faults' = 0 /\ deferreds = committed)
    BY <1>1, <2>1, NobodyIsDeserted
  <2> QED
    BY <2>1, <2>2, <2>3, TurnsSound
<1> QED
  BY <1>2, <1>3

\* A worker runs the recursion program, or fails.
LEMMA RunSound ==
  ASSUME NEW f, Sound(f), NEW w \in Workers,
         GenerateTraces(w) \/ ProgramRejects(w) \/ WorkerFails(w)
  PROVE  Sound(f)'
<1>1. Typed /\ Main /\ Healthy /\ TreeOf(f) /\ faults \in Nat /\ w \in Threads
  BY Plan DEF Sound, Typed
<1>2. pc[w] = "run" /\ pc[w] \notin Ended /\ Holds(w)
  BY DEF GenerateTraces, ProgramRejects, WorkerFails, Ended, Holds
<1>3. "err" \in PCs /\ "panic" \in PCs /\ "send" \in PCs
  BY DEF PCs, Ended
<1>4. CASE GenerateTraces(w)
  <2>1. held' = [held EXCEPT ![w] = Proved(held[w])]
    <3>1. held \in [Threads -> Items]
      BY <1>1 DEF Typed
    <3> QED
      BY <1>1, <1>4, <3>1 DEF GenerateTraces, Proved
  <2>2. /\ Accepts(held[w]) /\ pc' = [pc EXCEPT ![w] = "send"]
        /\ UNCHANGED <<sizes, channel, turn, tree, main>> /\ faults' = faults
    BY <1>4 DEF GenerateTraces
  <2>3. faults' \in Nat /\ faults' >= faults
    BY <1>1, <2>2
  <2> QED
    BY <1>2, <1>3, <2>1, <2>2, <2>3, TurnsSound
<1>5. CASE ProgramRejects(w)
  <2>1. /\ ~ Accepts(held[w]) /\ pc' = [pc EXCEPT ![w] = "panic"] /\ held' = held
        /\ UNCHANGED <<sizes, channel, turn, tree, main>> /\ faults' = faults
    BY <1>5 DEF ProgramRejects
  <2>2. ~ (deferreds = committed)
    <3>1. Ordered
      BY <1>1, Order
    <3>2. /\ held[w] = f[held[w].index]
          /\ held[w].index \in Sent("traces") .. Received("input") - 1
      BY <1>1, <1>2 DEF TreeOf, Crew
    <3>3. held[w].index \in Used .. Made - 1
      BY <3>1, <3>2 DEF Ordered
    <3> QED
      BY <1>1, <2>1, <3>2, <3>3, InputAccepted
  <2>3. faults' \in Nat /\ faults' >= faults
    BY <1>1, <2>1
  <2> QED
    BY <1>2, <1>3, <2>1, <2>2, <2>3, TurnsSound
<1>6. CASE WorkerFails(w)
  <2>1. PICK end \in {"err", "panic"} : pc' = [pc EXCEPT ![w] = end]
    BY <1>6 DEF WorkerFails
  <2>2. /\ held' = held /\ UNCHANGED <<sizes, channel, turn, tree, main>>
        /\ faults' = faults + 1
    BY <1>6 DEF WorkerFails
  <2>3. faults' \in Nat /\ faults' >= faults /\ faults' # 0 /\ end \in PCs
    BY <1>1, <1>3, <2>2
  <2> QED
    BY <1>2, <2>1, <2>2, <2>3, TurnsSound
<1> QED
  BY <1>4, <1>5, <1>6

\* A prover fails before it waits for its turn.
LEMMA ProverFailsSound ==
  ASSUME NEW f, Sound(f), NEW p \in ToSet(Provers), ProverFails(p)
  PROVE  Sound(f)'
<1>1. /\ pc[p] = "send" /\ pc' = [pc EXCEPT ![p] = "panic"] /\ held' = held
      /\ UNCHANGED <<sizes, channel, turn, tree, main>> /\ faults' = faults + 1
  BY DEF ProverFails
<1>2. faults \in Nat
  BY DEF Sound, Typed
<1>3. /\ faults' \in Nat /\ faults' >= faults /\ faults' # 0
      /\ "panic" \in PCs /\ pc[p] \notin Ended /\ Holds(p)
  BY <1>1, <1>2 DEF PCs, Ended, Holds
<1> QED
  BY <1>1, <1>3, TurnsSound

\* Every step of a worker or of a prover is sound.
LEMMA CrewStepSound ==
  ASSUME NEW f, Sound(f),
         \/ \E w \in Workers : WorkerStep(w) \/ WorkerFails(w)
         \/ \E p \in ToSet(Provers) : LoopStep(p) \/ ProverFails(p)
  PROVE  Sound(f)'
<1>1. ASSUME NEW t \in Workers \cup ToSet(Provers), LoopStep(t)
      PROVE  Sound(f)'
  BY <1>1, ReceiveSound, SendSound, AdvanceSound, ClosedSound DEF LoopStep
<1> QED
  BY <1>1, RunSound, ProverFailsSound DEF WorkerStep

-----------------------------------------------------------------------------
(* Steps of the leaf sender and of the tree thread. *)

\* They leave the two crews alone.
LEMMA CrewsIdle ==
  ASSUME NEW f, Sound(f), UNCHANGED <<sizes, faults>>,
         \A t \in Workers \cup ToSet(Provers) : pc'[t] = pc[t] /\ held'[t] = held[t],
         turn'["traces"] = turn["traces"], turn'["proofs"] = turn["proofs"],
         Received("input")' = Received("input"), channel'["traces"] = channel["traces"]
  PROVE  /\ Crew(f, Workers, "input", "traces")'
         /\ Crew(f, ToSet(Provers), "traces", "proofs")'
         /\ Accepted(f)' /\ Contents(f, "traces")' /\ Received("traces")' = Received("traces")
         /\ Sent("proofs")' = Sent("proofs")
         /\ NoSender("proofs")' <=> NoSender("proofs")
         /\ NoSender("traces")' <=> NoSender("traces")
<1>1. Typed /\ TreeOf(f) /\ Counted
  BY Counters DEF Sound
<1>2. Sent("traces")' = Sent("traces") /\ Sent("proofs")' = Sent("proofs")
  <2>1. \A c \in {"traces", "proofs"} :
           \A t \in Senders(c) : t \in Workers \cup ToSet(Provers)
    BY Plan
  <2>2. \A c \in {"traces", "proofs"} : \A t \in Senders(c) : Passing(t)' <=> Passing(t)
    BY <2>1 DEF Passing
  <2> QED
    BY <2>2, SentIdle
<1>3. Contents(f, "traces")' /\ Received("traces")' = Received("traces")
  BY <1>1, <1>2, ChannelIdle DEF TreeOf, Counted
<1>4. Crew(f, Workers, "input", "traces")' /\ Crew(f, ToSet(Provers), "traces", "proofs")'
  BY <1>1, <1>2, <1>3, CrewIdle DEF TreeOf
<1>5. Accepted(f)'
  <2>1. \A x : Accepts(x)' <=> Accepts(x)
    BY DEF Accepts, CompleteRange, Adjacent, Aggregate, sizes
  <2> QED
    BY <1>1, <1>2, <2>1 DEF Accepted, TreeOf
<1>6. /\ NoSender("proofs")' <=> NoSender("proofs")
      /\ NoSender("traces")' <=> NoSender("traces")
  BY Plan DEF NoSender, Senders
<1> QED
  BY <1>2, <1>3, <1>4, <1>5, <1>6


\* A step of the leaf sender or of the tree thread is sound if the tree is as the
\* invariant says and what it feeds is in order.
LEMMA FeederSound ==
  ASSUME NEW f, Sound(f), NEW t \in {LeafSender, TreeThread}, pc[t] \notin Ended,
         UNCHANGED <<sizes, main, faults>>,
         \A u \in Threads : u # t => pc'[u] = pc[u] /\ held'[u] = held[u],
         pc' \in [Threads -> PCs], held' \in [Threads -> Items],
         channel' \in [Channels -> Seq(Items)], turn' \in [Channels -> Nat],
         batch' \in Seq(Items), count' \in Nat,
         turn'["traces"] = turn["traces"], turn'["proofs"] = turn["proofs"],
         channel'["traces"] = channel["traces"],
         faults = 0 /\ deferreds = committed => pc'[t] \notin {"err", "panic"},
         Received("input")' = Received("input"),
         Contents(f, "input")', Contents(f, "proofs")',
         Table(f)', Frontier(f)', Taken(f)', Inputs(f)', Stops(f)'
  PROVE  Sound(f)'
<1> USE DEF sizes, main
<1>1. Typed /\ Main /\ Healthy /\ TreeOf(f)
  BY DEF Sound
<1>2. \A u \in Workers \cup ToSet(Provers) : pc'[u] = pc[u] /\ held'[u] = held[u]
  BY Plan
<1>3. /\ Crew(f, Workers, "input", "traces")'
      /\ Crew(f, ToSet(Provers), "traces", "proofs")'
      /\ Accepted(f)' /\ Contents(f, "traces")'
      /\ NoSender("traces")' <=> NoSender("traces")
  BY <1>2, CrewsIdle
<1>4. Typed'
  BY <1>1 DEF Typed, Handles
<1>5. Main'
  <2>1. \A i \in 1 .. joined : Handles[i] \in Threads
    BY <1>1, Plan, HandlesAreThreads DEF Typed
  <2>2. \A i \in 1 .. joined' : pc'[Handles[i]] \in {"ok", "err"}
    BY <1>1, <2>1 DEF Main, Ended
  <2>3. result' # "ok"
    BY <1>1, Plan DEF Main, Ended
  <2>4. faults' > 0 => \E u \in Workers \cup ToSet(Provers) : pc'[u] \in {"err", "panic"}
    BY <1>1, <1>2 DEF Main
  <2> QED
    BY <1>1, <2>2, <2>3, <2>4 DEF Main, Handles
<1>6. Healthy'
  <2>1. SUFFICES ASSUME faults = 0, deferreds = committed
                 PROVE  Healthy'
    BY DEF Healthy
  <2>2. mainPc' # "panic" /\ \A u \in Threads : pc'[u] \notin {"err", "panic"}
    BY <1>1, <2>1 DEF Healthy
  <2>3. ~ NoSender("input")
    BY Plan DEF NoSender
  <2>4. \A w \in Workers : pc'[w] # "ok"
    BY <1>1, <1>2, <2>1, <2>3 DEF Healthy
  <2>5. \A p \in ToSet(Provers) : pc'[p] = "ok" =>
           channel'["traces"] = <<>> /\ NoSender("traces")'
    BY <1>1, <1>2, <1>3, <2>1 DEF Healthy
  <2> QED
    BY <2>2, <2>4, <2>5 DEF Healthy
<1>7. \A c \in Channels : Contents(f, c)'
  BY <1>3 DEF Channels
<1>8. f \in [Nat -> Items]
  BY <1>1 DEF TreeOf
<1> QED
  BY <1>3, <1>4, <1>5, <1>6, <1>7, <1>8 DEF Sound, TreeOf

\* How much has been sent to the workers.
LEMMA SentInput ==
  Sent("input") = turn["input"] + IF Passing(LeafSender) \/ Passing(TreeThread) THEN 1 ELSE 0
<1>1. (\E t \in Senders("input") : Passing(t)) <=> Passing(LeafSender) \/ Passing(TreeThread)
  BY Plan
<1> QED
  BY <1>1 DEF Sent

\* The tree thread and its proofs are as before.
LEMMA LeafFrame ==
  ASSUME NEW f, Sound(f), UNCHANGED <<sizes, tree, main, faults>>,
         \A u \in Threads : u # LeafSender => pc'[u] = pc[u] /\ held'[u] = held[u],
         channel'["proofs"] = channel["proofs"], channel'["traces"] = channel["traces"],
         turn'["traces"] = turn["traces"], turn'["proofs"] = turn["proofs"],
         Received("input")' = Received("input")
  PROVE  /\ Table(f)' /\ Frontier(f)' /\ Taken(f)' /\ Stops(f)' /\ Contents(f, "proofs")'
         /\ NumLeaves' = NumLeaves /\ \A i : LeafInput(i)' = LeafInput(i)
         /\ pc'[TreeThread] = pc[TreeThread] /\ held'[TreeThread] = held[TreeThread]
         /\ batch' \in Seq(Items) /\ count' \in Nat /\ count' = count
<1> USE DEF sizes, tree, main
<1>1. Typed /\ TreeOf(f) /\ Counted
  BY Counters DEF Sound
<1>2. pc'[TreeThread] = pc[TreeThread] /\ held'[TreeThread] = held[TreeThread]
      /\ \A u \in Workers \cup ToSet(Provers) : pc'[u] = pc[u] /\ held'[u] = held[u]
  BY Plan
<1>3. Sent("proofs")' = Sent("proofs") /\ (NoSender("proofs")' <=> NoSender("proofs"))
  BY <1>2, CrewsIdle
<1>4. Contents(f, "proofs")' /\ Received("proofs")' = Received("proofs")
  BY <1>1, <1>3, ChannelIdle DEF TreeOf, Counted
<1>5. Made' = Made /\ Used' = Used /\ count \in Nat /\ batch \in Seq(Items)
  BY <1>1, <1>2, <1>4 DEF Made, Used, Typed
<1>6. /\ Table(f)' /\ Frontier(f)' /\ ExpectedHeight' = ExpectedHeight
      /\ NumLeaves' = NumLeaves /\ \A i : LeafInput(i)' = LeafInput(i)
  BY <1>1, <1>5, TreeIdle DEF TreeOf
<1>7. Taken(f)'
  <2>1. Taken(f)
    BY <1>1 DEF TreeOf
  <2>2. \A x : Proved(x)' = Proved(x)
    BY DEF Proved, Aggregate
  <2> QED
    BY <1>5, <2>1, <2>2 DEF Taken
<1>8. Stops(f)'
  <2>1. Stops(f)
    BY <1>1 DEF TreeOf
  <2> QED
    BY <1>2, <1>3, <1>5, <1>6, <2>1 DEF Stops
<1> QED
  BY <1>2, <1>4, <1>5, <1>6, <1>7, <1>8

\* The leaf sender's steps are sound.
LEMMA LeafStepSound ==
  ASSUME NEW f, Sound(f), LeafStep
  PROVE  Sound(f)'
<1>1. Typed /\ Main /\ Healthy /\ TreeOf(f) /\ Counted /\ Types
  BY Counters DEF Sound, Typed, Types, Counted
<1>2. Inputs(f) /\ Table(f) /\ NumLeaves <= count /\ NumLeaves \in Nat /\ count \in Nat
  BY <1>1 DEF TreeOf, Frontier, Counted, Typed
<1>3. turn["input"] \in Nat /\ LeafSender \in Threads
  BY <1>1, Plan DEF Types
<1>4. LeafSender \in {LeafSender, TreeThread} /\ LeafSender # TreeThread
  BY Plan
<1>5. CASE Send(LeafSender)
  <2>1. /\ pc[LeafSender] = "send" /\ turn["input"] = held[LeafSender].index
        /\ channel' = [channel EXCEPT !["input"] = Append(@, held[LeafSender])]
        /\ held' = [held EXCEPT ![LeafSender] = NoItem]
        /\ pc' = [pc EXCEPT ![LeafSender] = "advance"]
        /\ UNCHANGED <<sizes, turn, tree, main, faults>>
    BY <1>4, <1>5, Plan DEF Send, HasTurn
  <2>2. turn["input"] < NumLeaves /\ turn["input"] \in 0 .. NumLeaves - 1
    BY <1>2, <1>3, <2>1 DEF Inputs
  <2>3. held[LeafSender] = f[turn["input"]] /\ held[LeafSender] \in Items
    BY <1>1, <1>2, <1>3, <2>1, <2>2 DEF Inputs, Table, Types
  <2>4. /\ pc'[LeafSender] = "advance" /\ held'[LeafSender] = NoItem
        /\ \A u \in Threads : u # LeafSender => pc'[u] = pc[u] /\ held'[u] = held[u]
        /\ channel'["proofs"] = channel["proofs"] /\ channel'["traces"] = channel["traces"]
        /\ turn' = turn
    BY <1>1, <1>3, <2>1 DEF Types
  <2>5. ~ Passing(LeafSender) /\ ~ Passing(TreeThread) /\ Passing(LeafSender)'
    BY <1>2, <1>3, <2>1, <2>2, <2>4 DEF Inputs, Passing
  <2>6. Sent("input") = turn["input"] /\ Sent("input")' = Sent("input") + 1
    <3>1. Sent("input") = turn["input"]
      BY <1>3, <2>5, SentInput
    <3>2. \E t \in Senders("input")' : Passing(t)'
      BY <2>5, Plan DEF Senders
    <3> QED
      BY <2>4, <3>1, <3>2 DEF Sent
  <2>7. Contents(f, "input")' /\ Received("input")' = Received("input")
        /\ channel' \in [Channels -> Seq(Items)]
    <3>1. Contents(f, "input") /\ "input" \in Channels
      BY <1>1 DEF TreeOf, Types
    <3>2. held[LeafSender] = Form(f, "input", Sent("input"))
      BY <2>3, <2>6 DEF Form
    <3> QED
      BY <1>1, <2>1, <2>3, <2>6, <3>1, <3>2, ChannelSend
  <2>8. /\ Table(f)' /\ Frontier(f)' /\ Taken(f)' /\ Stops(f)' /\ Contents(f, "proofs")'
        /\ NumLeaves' = NumLeaves /\ \A i : LeafInput(i)' = LeafInput(i)
        /\ pc'[TreeThread] = pc[TreeThread] /\ held'[TreeThread] = held[TreeThread]
        /\ batch' \in Seq(Items) /\ count' \in Nat /\ count' = count
    BY <2>1, <2>4, <2>7, LeafFrame
  <2>9. Inputs(f)'
    BY <1>2, <2>1, <2>2, <2>4, <2>8 DEF Inputs, Passing, NoItem
  <2>10. pc' \in [Threads -> PCs] /\ held' \in [Threads -> Items]
         /\ turn' \in [Channels -> Nat] /\ pc[LeafSender] \notin Ended
    BY <1>1, <2>1, <2>4, ItemTypes DEF PCs, Types, Ended
  <2> QED
    BY <1>4, <2>1, <2>4, <2>7, <2>8, <2>9, <2>10, FeederSound
<1>6. CASE SendPanics(LeafSender)
  <2>1. /\ pc[LeafSender] = "send" /\ NoReceiver(Out(LeafSender))
        /\ pc' = [pc EXCEPT ![LeafSender] = "panic"]
        /\ UNCHANGED <<sizes, held, channel, turn, tree, main, faults>>
    BY <1>6 DEF SendPanics, HasTurn
  <2>2. /\ pc'[LeafSender] = "panic"
        /\ \A u \in Threads : u # LeafSender => pc'[u] = pc[u] /\ held'[u] = held[u]
        /\ turn' = turn /\ channel' = channel /\ held' = held
    BY <1>1, <1>3, <2>1 DEF Types
  <2>3. Sent("input")' = Sent("input")
    <3>1. \A t \in Senders("input") : Passing(t)' <=> Passing(t)
      BY <2>1, <2>2, Plan DEF Passing
    <3> QED
      BY <2>2, <3>1, SentIdle
  <2>4. Contents(f, "input")' /\ Received("input")' = Received("input")
    <3>1. Contents(f, "input") /\ "input" \in Channels
      BY <1>1 DEF TreeOf, Types
    <3> QED
      BY <2>2, <2>3, <3>1, ChannelIdle
  <2>8. /\ Table(f)' /\ Frontier(f)' /\ Taken(f)' /\ Stops(f)' /\ Contents(f, "proofs")'
        /\ NumLeaves' = NumLeaves /\ \A i : LeafInput(i)' = LeafInput(i)
        /\ pc'[TreeThread] = pc[TreeThread] /\ held'[TreeThread] = held[TreeThread]
        /\ batch' \in Seq(Items) /\ count' \in Nat /\ count' = count
    BY <2>1, <2>2, <2>4, LeafFrame
  <2>9. Inputs(f)'
    BY <1>2, <2>1, <2>2, <2>8 DEF Inputs, Passing, NoItem
  <2>10. pc' \in [Threads -> PCs] /\ held' \in [Threads -> Items]
         /\ turn' \in [Channels -> Nat] /\ channel' \in [Channels -> Seq(Items)]
         /\ pc[LeafSender] \notin Ended
    BY <1>1, <2>1, <2>2 DEF PCs, Types, Ended
  <2>11. ~ (faults = 0 /\ deferreds = committed)
    BY <1>1, <1>3, <2>1, NobodyIsDeserted
  <2> QED
    BY <1>4, <2>1, <2>2, <2>4, <2>8, <2>9, <2>10, <2>11, FeederSound
<1>7. CASE AdvanceLeaf
  <2>1. /\ pc[LeafSender] = "advance"
        /\ turn' = [turn EXCEPT !["input"] = @ + 1]
        /\ IF turn'["input"] = NumLeaves
           THEN pc' = [pc EXCEPT ![LeafSender] = "ok"] /\ UNCHANGED held
           ELSE /\ pc' = [pc EXCEPT ![LeafSender] = "send"]
                /\ held' = [held EXCEPT ![LeafSender] = LeafInput(turn'["input"])]
        /\ UNCHANGED <<sizes, channel, tree, main, faults>>
    BY <1>7 DEF AdvanceLeaf
  <2>2. /\ turn'["input"] = turn["input"] + 1
        /\ turn'["traces"] = turn["traces"] /\ turn'["proofs"] = turn["proofs"]
        /\ turn' \in [Channels -> Nat] /\ channel' = channel
        /\ pc'[LeafSender] = IF turn["input"] + 1 = NumLeaves THEN "ok" ELSE "send"
        /\ held'[LeafSender] = IF turn["input"] + 1 = NumLeaves THEN held[LeafSender]
                               ELSE LeafInput(turn["input"] + 1)
        /\ \A u \in Threads : u # LeafSender => pc'[u] = pc[u] /\ held'[u] = held[u]
    BY <1>1, <1>3, <2>1 DEF Types
  <2>3. turn["input"] < NumLeaves /\ ~ Passing(TreeThread) /\ Passing(LeafSender)
        /\ held[LeafSender] = NoItem
    BY <1>2, <1>3, <2>1 DEF Inputs, Passing
  <2>4. Sent("input")' = Sent("input")
    <3>1. Sent("input") = turn["input"] + 1
      BY <2>3, SentInput
    <3>2. ~ Passing(LeafSender)' /\ ~ Passing(TreeThread)'
      BY <1>4, <2>2, <2>3, Plan DEF Passing
    <3>3. ~ \E t \in Senders("input")' : Passing(t)'
      BY <3>2, Plan DEF Senders
    <3> QED
      BY <1>3, <2>2, <3>1, <3>3 DEF Sent
  <2>5. Contents(f, "input")' /\ Received("input")' = Received("input")
    <3>1. Contents(f, "input") /\ "input" \in Channels
      BY <1>1 DEF TreeOf, Types
    <3> QED
      BY <2>2, <2>4, <3>1, ChannelIdle
  <2>8. /\ Table(f)' /\ Frontier(f)' /\ Taken(f)' /\ Stops(f)' /\ Contents(f, "proofs")'
        /\ NumLeaves' = NumLeaves /\ \A i : LeafInput(i)' = LeafInput(i)
        /\ pc'[TreeThread] = pc[TreeThread] /\ held'[TreeThread] = held[TreeThread]
        /\ batch' \in Seq(Items) /\ count' \in Nat /\ count' = count
    BY <2>1, <2>2, <2>5, LeafFrame
  <2>9. Inputs(f)'
    <3>1. turn'["input"] >= NumLeaves => turn'["input"] = NumLeaves
      BY <1>2, <1>3, <2>2, <2>3
    <3>2. pc[TreeThread] # "advance" /\ pc[TreeThread] # "last"
      BY <2>3 DEF Passing
    <3>3. turn'["input"] >= NumLeaves => turn'["input"] = count
      BY <1>2, <1>3, <2>2, <2>3, <3>1 DEF Inputs
    <3> QED
      BY <1>2, <1>3, <2>2, <2>3, <2>8, <3>1, <3>2, <3>3 DEF Inputs, Passing, NoItem
  <2>10. pc' \in [Threads -> PCs] /\ held' \in [Threads -> Items]
         /\ channel' \in [Channels -> Seq(Items)] /\ pc[LeafSender] \notin Ended
    <3>1. turn["input"] + 1 # NumLeaves => LeafInput(turn["input"] + 1) \in Items
      BY <1>1, <1>2, <1>3, <2>3, LeafItem
    <3> QED
      BY <1>1, <2>1, <2>2, <3>1 DEF PCs, Types, Ended
  <2> QED
    BY <1>4, <2>1, <2>2, <2>5, <2>8, <2>9, <2>10, FeederSound
<1> QED
  BY <1>5, <1>6, <1>7 DEF LeafStep

\* What a step of the tree thread that neither takes a proof nor makes an input keeps.
LEMMA TreeFrame ==
  ASSUME NEW f, Sound(f), UNCHANGED <<sizes, batch, main, faults>>,
         \A u \in Threads : u # TreeThread => pc'[u] = pc[u] /\ held'[u] = held[u],
         channel'["proofs"] = channel["proofs"], channel'["traces"] = channel["traces"],
         turn'["traces"] = turn["traces"], turn'["proofs"] = turn["proofs"],
         Received("input")' = Received("input"),
         Made' = Made, count' \in Nat, count' >= count
  PROVE  /\ Table(f)' /\ Frontier(f)' /\ Taken(f)' /\ Contents(f, "proofs")'
         /\ NumLeaves' = NumLeaves /\ \A i : LeafInput(i)' = LeafInput(i)
         /\ pc'[LeafSender] = pc[LeafSender] /\ held'[LeafSender] = held[LeafSender]
         /\ batch' \in Seq(Items) /\ batch' = batch /\ root' = root
         /\ Used' = Used /\ ExpectedHeight' = ExpectedHeight
         /\ NoSender("proofs")' <=> NoSender("proofs")
<1> USE DEF sizes, main
<1>1. Typed /\ TreeOf(f) /\ Counted
  BY Counters DEF Sound
<1>2. pc'[LeafSender] = pc[LeafSender] /\ held'[LeafSender] = held[LeafSender]
      /\ \A u \in Workers \cup ToSet(Provers) : pc'[u] = pc[u] /\ held'[u] = held[u]
  BY Plan
<1>3. Sent("proofs")' = Sent("proofs") /\ (NoSender("proofs")' <=> NoSender("proofs"))
  BY <1>2, CrewsIdle
<1>4. Contents(f, "proofs")' /\ Received("proofs")' = Received("proofs")
  BY <1>1, <1>3, ChannelIdle DEF TreeOf, Counted
<1>5. Used' = Used /\ batch \in Seq(Items)
  BY <1>1, <1>4 DEF Used, Typed
<1>6. /\ Table(f)' /\ Frontier(f)' /\ ExpectedHeight' = ExpectedHeight
      /\ NumLeaves' = NumLeaves /\ \A i : LeafInput(i)' = LeafInput(i)
  BY <1>1, <1>5, TreeIdle DEF TreeOf
<1>7. Taken(f)'
  <2>1. Taken(f)
    BY <1>1 DEF TreeOf
  <2>2. \A x : Proved(x)' = Proved(x)
    BY DEF Proved, Aggregate
  <2> QED
    BY <1>5, <2>1, <2>2 DEF Taken
<1> QED
  BY <1>2, <1>3, <1>4, <1>5, <1>6, <1>7

\* As long as the tree thread runs main has not taken a proof.
LEMMA RunningNoRoot ==
  ASSUME NEW f, Sound(f), pc[TreeThread] \notin Ended
  PROVE  root = <<>>
<1>1. Typed /\ Main /\ Taken(f)
  BY DEF Sound, TreeOf
<1>2. SUFFICES ASSUME root # <<>> PROVE FALSE
  OBVIOUS
<1>3. joined = Len(Handles)
  BY <1>1, <1>2 DEF Taken, Main
<1> QED
  BY <1>1, <1>3, JoinedAll DEF Ended

\* The tree thread sends an input that it has made, passes the turn on, or finds a
\* channel closed.
LEMMA TreeSendSound ==
  ASSUME NEW f, Sound(f),
         \/ Send(TreeThread) \/ SendPanics(TreeThread) \/ AdvanceNextInput
         \/ Disconnected(TreeThread)
  PROVE  Sound(f)'
<1>1. Typed /\ Main /\ Healthy /\ TreeOf(f) /\ Counted /\ Types /\ Ordered
  BY Order DEF Sound, Typed, Types, Counted
<1>2. /\ Inputs(f) /\ Stops(f) /\ Table(f) /\ Frontier(f) /\ f \in [Nat -> Items]
      /\ NumLeaves <= count /\ NumLeaves \in Nat /\ count \in Nat /\ Used < Made
      /\ Used \in Nat /\ Made \in Nat
  BY <1>1 DEF TreeOf, Frontier, Counted, Typed, Ordered
<1>3. turn["input"] \in Nat /\ TreeThread \in Threads
  BY <1>1, Plan DEF Types
<1>4. TreeThread \in {LeafSender, TreeThread} /\ LeafSender # TreeThread
      /\ Out(TreeThread) = "input"
  BY Plan
<1>i. Contents(f, "input") /\ "input" \in Channels
  BY <1>1 DEF TreeOf, Types
<1>5. CASE Send(TreeThread)
  <2>1. /\ pc[TreeThread] = "send" /\ turn["input"] = held[TreeThread].index
        /\ channel' = [channel EXCEPT !["input"] = Append(@, held[TreeThread])]
        /\ held' = [held EXCEPT ![TreeThread] = NoItem]
        /\ pc' = [pc EXCEPT ![TreeThread] =
                     IF held[TreeThread].complete THEN "last" ELSE "advance"]
        /\ UNCHANGED <<sizes, turn, tree, main, faults>>
    BY <1>4, <1>5 DEF Send, HasTurn
  <2>2. Made = count + 1
    BY <1>2, <2>1 DEF Made
  <2>3. /\ held[TreeThread] = f[count] /\ held[TreeThread] \in Items
        /\ turn["input"] = count
        /\ f[count].complete <=> f[count].height = ExpectedHeight
    <3>1. count \in 0 .. Made - 1
      BY <1>2, <2>2
    <3> QED
      BY <1>1, <1>2, <1>3, <2>1, <3>1 DEF Inputs, Table, Types
  <2>4. /\ pc'[TreeThread] = IF f[count].height = ExpectedHeight THEN "last" ELSE "advance"
        /\ held'[TreeThread] = NoItem
        /\ \A u \in Threads : u # TreeThread => pc'[u] = pc[u] /\ held'[u] = held[u]
        /\ channel'["proofs"] = channel["proofs"] /\ channel'["traces"] = channel["traces"]
        /\ turn' = turn /\ batch' = batch /\ count' = count /\ count' >= count
    BY <1>1, <1>2, <1>3, <2>1, <2>3 DEF Types, tree
  <2>5. /\ ~ Passing(LeafSender) /\ ~ Passing(TreeThread) /\ Passing(TreeThread)'
        /\ pc[LeafSender] = "ok"
    BY <1>2, <1>3, <2>1, <2>3, <2>4 DEF Inputs, Passing
  <2>6. Sent("input") = turn["input"] /\ Sent("input")' = Sent("input") + 1
    <3>1. Sent("input") = turn["input"]
      BY <1>3, <2>5, SentInput
    <3>2. \E t \in Senders("input")' : Passing(t)'
      BY <2>5, Plan DEF Senders
    <3> QED
      BY <2>4, <3>1, <3>2 DEF Sent
  <2>7. Contents(f, "input")' /\ Received("input")' = Received("input")
        /\ channel' \in [Channels -> Seq(Items)]
    <3>2. held[TreeThread] = Form(f, "input", Sent("input"))
      BY <2>3, <2>6 DEF Form
    <3> QED
      BY <1>1, <1>i, <2>1, <2>3, <2>6, <3>2, ChannelSend
  <2>m. Made' = Made
    BY <2>2, <2>4 DEF Made
  <2>8. /\ Table(f)' /\ Frontier(f)' /\ Taken(f)' /\ Contents(f, "proofs")'
        /\ NumLeaves' = NumLeaves /\ \A i : LeafInput(i)' = LeafInput(i)
        /\ pc'[LeafSender] = pc[LeafSender] /\ held'[LeafSender] = held[LeafSender]
        /\ batch' \in Seq(Items)
        /\ Used' = Used /\ ExpectedHeight' = ExpectedHeight
    BY <1>2, <2>1, <2>4, <2>7, <2>m, TreeFrame
  <2>9. Inputs(f)'
    BY <1>2, <2>1, <2>3, <2>4, <2>5, <2>8 DEF Inputs, Passing, NoItem
  <2>10. pc' \in [Threads -> PCs] /\ held' \in [Threads -> Items]
         /\ turn' \in [Channels -> Nat] /\ pc[TreeThread] \notin Ended
    BY <1>1, <2>1, <2>4, ItemTypes DEF PCs, Types, Ended
  <2>11. Stops(f)'
    <3>1. count \in Used .. Made - 1 /\ Used \in Used .. Made - 1
      BY <1>2, <2>2
    <3>2. f[count].height = ExpectedHeight <=> f[Used].height = ExpectedHeight
      BY <1>1, <1>2, <2>2, <3>1, RootItem
    <3> QED
      BY <1>2, <2>4, <2>8, <3>2 DEF Stops
  <2>12. /\ pc'[TreeThread] \notin {"err", "panic"} /\ count' \in Nat
         /\ turn'["traces"] = turn["traces"] /\ turn'["proofs"] = turn["proofs"]
         /\ UNCHANGED <<sizes, main, faults>>
    BY <1>2, <2>1, <2>4
  <2> QED
    BY <1>4, <2>4, <2>7, <2>8, <2>9, <2>10, <2>11, <2>12, FeederSound
<1>6. CASE SendPanics(TreeThread) \/ Disconnected(TreeThread)
  <2>1. /\ \/ /\ pc[TreeThread] = "send" /\ NoReceiver(Out(TreeThread))
              /\ pc' = [pc EXCEPT ![TreeThread] = "panic"]
           \/ /\ pc[TreeThread] = "recv" /\ channel["proofs"] = <<>> /\ NoSender("proofs")
              /\ pc' = [pc EXCEPT ![TreeThread] = "ok"]
        /\ UNCHANGED <<sizes, held, channel, turn, tree, main, faults>>
    BY <1>6, Plan DEF SendPanics, HasTurn, Disconnected
  <2>2. /\ \/ /\ pc[TreeThread] = "send" /\ NoReceiver(Out(TreeThread))
              /\ pc'[TreeThread] = "panic"
           \/ /\ pc[TreeThread] = "recv" /\ channel["proofs"] = <<>> /\ NoSender("proofs")
              /\ pc'[TreeThread] = "ok"
        /\ \A u \in Threads : u # TreeThread => pc'[u] = pc[u] /\ held'[u] = held[u]
        /\ turn' = turn /\ channel' = channel /\ held' = held
        /\ batch' = batch /\ count' = count /\ count' >= count
    BY <1>1, <1>2, <1>3, <2>1 DEF Types, tree
  <2>3. Sent("input")' = Sent("input")
    <3>1. \A t \in Senders("input") : Passing(t)' <=> Passing(t)
      BY <2>2, Plan DEF Passing
    <3> QED
      BY <2>2, <3>1, SentIdle
  <2>4. Contents(f, "input")' /\ Received("input")' = Received("input")
    BY <1>i, <2>2, <2>3, ChannelIdle
  <2>5. Made' = Made /\ ~ Passing(TreeThread) /\ ~ Passing(TreeThread)'
    BY <2>2 DEF Made, Passing
  <2>6. root = <<>>
    BY <2>2, RunningNoRoot DEF Ended
  <2>8. /\ Table(f)' /\ Frontier(f)' /\ Taken(f)' /\ Contents(f, "proofs")'
        /\ NumLeaves' = NumLeaves /\ \A i : LeafInput(i)' = LeafInput(i)
        /\ pc'[LeafSender] = pc[LeafSender] /\ held'[LeafSender] = held[LeafSender]
        /\ batch' \in Seq(Items) /\ root' = root
        /\ Used' = Used /\ ExpectedHeight' = ExpectedHeight
        /\ NoSender("proofs")' <=> NoSender("proofs")
    BY <1>2, <2>1, <2>2, <2>4, <2>5, TreeFrame
  <2>9. Inputs(f)'
    BY <1>2, <2>2, <2>5, <2>8 DEF Inputs, NoItem
  <2>10. pc' \in [Threads -> PCs] /\ held' \in [Threads -> Items]
         /\ turn' \in [Channels -> Nat] /\ channel' \in [Channels -> Seq(Items)]
         /\ pc[TreeThread] \notin Ended
    BY <1>1, <2>1, <2>2 DEF PCs, Types, Ended
  <2>11. Stops(f)'
    BY <1>2, <2>2, <2>6, <2>8 DEF Stops
  <2>12. faults = 0 /\ deferreds = committed => pc'[TreeThread] \notin {"err", "panic"}
    BY <1>1, <1>3, <2>2, NobodyIsDeserted
  <2> QED
    BY <1>2, <1>4, <2>1, <2>2, <2>4, <2>8, <2>9, <2>10, <2>11, <2>12, FeederSound
<1>7. CASE AdvanceNextInput
  <2>1. /\ pc[TreeThread] \in {"advance", "last"}
        /\ turn' = [turn EXCEPT !["input"] = @ + 1]
        /\ count' = count + 1
        /\ pc' = [pc EXCEPT ![TreeThread] = IF pc[TreeThread] = "last" THEN "ok" ELSE "recv"]
        /\ UNCHANGED <<sizes, held, channel, batch, main, faults>>
    BY <1>7 DEF AdvanceNextInput
  <2>2. /\ turn'["input"] = turn["input"] + 1
        /\ turn'["traces"] = turn["traces"] /\ turn'["proofs"] = turn["proofs"]
        /\ turn' \in [Channels -> Nat] /\ channel' = channel /\ held' = held
        /\ pc'[TreeThread] = IF pc[TreeThread] = "last" THEN "ok" ELSE "recv"
        /\ \A u \in Threads : u # TreeThread => pc'[u] = pc[u] /\ held'[u] = held[u]
        /\ batch' = batch /\ count' \in Nat /\ count' >= count
    BY <1>1, <1>2, <1>3, <2>1 DEF Types
  <2>3. /\ turn["input"] = count /\ ~ Passing(LeafSender) /\ Passing(TreeThread)
        /\ pc[LeafSender] = "ok"
    BY <1>2, <1>3, <2>1 DEF Inputs, Passing
  <2>4. Sent("input")' = Sent("input")
    <3>1. Sent("input") = turn["input"] + 1
      BY <2>3, SentInput
    <3>2. ~ Passing(LeafSender)' /\ ~ Passing(TreeThread)'
      BY <1>4, <2>1, <2>2, <2>3, Plan DEF Passing
    <3>3. ~ \E t \in Senders("input")' : Passing(t)'
      BY <3>2, Plan DEF Senders
    <3> QED
      BY <1>3, <2>2, <3>1, <3>3 DEF Sent
  <2>5. Contents(f, "input")' /\ Received("input")' = Received("input")
    BY <1>i, <2>2, <2>4, ChannelIdle
  <2>6. Made' = Made
    BY <1>2, <2>1, <2>2 DEF Made
  <2>8. /\ Table(f)' /\ Frontier(f)' /\ Taken(f)' /\ Contents(f, "proofs")'
        /\ NumLeaves' = NumLeaves /\ \A i : LeafInput(i)' = LeafInput(i)
        /\ pc'[LeafSender] = pc[LeafSender] /\ held'[LeafSender] = held[LeafSender]
        /\ batch' \in Seq(Items)
        /\ Used' = Used /\ ExpectedHeight' = ExpectedHeight
    BY <2>1, <2>2, <2>5, <2>6, TreeFrame
  <2>9. Inputs(f)'
    BY <1>2, <1>3, <2>1, <2>2, <2>3, <2>8 DEF Inputs, Passing, NoItem
  <2>10. pc' \in [Threads -> PCs] /\ held' \in [Threads -> Items]
         /\ channel' \in [Channels -> Seq(Items)] /\ pc[TreeThread] \notin Ended
         /\ pc'[TreeThread] \notin {"err", "panic"}
    BY <1>1, <2>1, <2>2 DEF PCs, Types, Ended
  <2>11. Stops(f)'
    BY <1>2, <2>1, <2>2, <2>8 DEF Stops
  <2> QED
    BY <1>4, <2>1, <2>2, <2>5, <2>8, <2>9, <2>10, <2>11, FeederSound
<1> QED
  BY <1>5, <1>6, <1>7

\* The invariant speaks of the inputs that have been made only.
LEMMA Agree ==
  ASSUME NEW f, Sound(f), NEW g \in [Nat -> Items], \A i \in 0 .. Made - 1 : g[i] = f[i]
  PROVE  Sound(g)
<1>1. Typed /\ Main /\ Healthy /\ TreeOf(f) /\ Counted /\ Ordered
  BY Order DEF Sound
<1>2. /\ Used \in Nat /\ Made \in Nat /\ Used < Made /\ NumLeaves <= count
      /\ count \in Nat /\ NumLeaves \in Nat /\ count <= Made
      /\ pc[TreeThread] \in {"send", "panic"} => count < Made
  <2>1. count \in Nat /\ NumLeaves \in Nat /\ NumLeaves <= count
    BY <1>1 DEF TreeOf, Frontier, Typed, Counted
  <2>2. count <= Made /\ (pc[TreeThread] \in {"send", "panic"} => count < Made)
    BY <2>1 DEF Made
  <2> QED
    BY <1>1, <2>1, <2>2 DEF Ordered
<1>3. Table(g)
  <2>1. Table(f)
    BY <1>1 DEF TreeOf
  <2>2. \A i \in 0 .. NumLeaves - 1 : i \in 0 .. Made - 1
    BY <1>2
  <2>3. \A i \in 0 .. Made - 2 : i \in 0 .. Made - 1 /\ i + 1 \in 0 .. Made - 1
    BY <1>2
  <2> QED
    BY <2>1, <2>2, <2>3 DEF Table
<1>4. Frontier(g)
  <2>1. PICK b \in Used + 1 .. Made : Layers(f, b)
    BY <1>1 DEF TreeOf, Frontier
  <2>2. /\ \A i \in Used .. b - 1 : i \in 0 .. Made - 1
        /\ \A i \in b .. Made - 1 : i \in 0 .. Made - 1
        /\ Used \in 0 .. Made - 1 /\ Made - 1 \in 0 .. Made - 1
    BY <1>2
  <2>3. Layers(g, b)
    BY <2>1, <2>2 DEF Layers
  <2> QED
    BY <1>1, <2>3 DEF TreeOf, Frontier
<1>5. Used \in 0 .. Made - 1
  BY <1>2
<1>6. Taken(g) /\ Inputs(g) /\ Stops(g)
  <2>1. Taken(f) /\ Inputs(f) /\ Stops(f)
    BY <1>1 DEF TreeOf
  <2>2. pc[TreeThread] \in {"send", "panic"} => count \in 0 .. Made - 1
    BY <1>2
  <2> QED
    BY <1>5, <2>1, <2>2 DEF Taken, Inputs, Stops
<1>7. ASSUME NEW c \in Channels
      PROVE  Contents(g, c)
  <2>1. Contents(f, c)
    BY <1>1 DEF TreeOf
  <2>2. Sent(c) <= Made /\ Received(c) \in Nat /\ Received(c) + Len(channel[c]) = Sent(c)
        /\ Len(channel[c]) \in Nat
    <3>1. CASE c = "input"
      BY <1>1, <3>1 DEF Ordered, Counted
    <3>2. CASE c = "traces"
      BY <1>1, <3>2 DEF Ordered, Counted
    <3>3. CASE c = "proofs"
      BY <1>1, <3>3 DEF Ordered, Counted
    <3> QED
      BY <3>1, <3>2, <3>3 DEF Channels
  <2>3. \A k \in 1 .. Len(channel[c]) : Received(c) + k - 1 \in 0 .. Made - 1
    BY <1>2, <2>2
  <2> QED
    BY <2>1, <2>3 DEF Contents, Form
<1>8. ASSUME NEW G, NEW in, NEW out, Crew(f, G, in, out),
             Received(in) <= Made, Received(in) \in Nat, Sent(out) \in Nat
      PROVE  Crew(g, G, in, out)
  <2>1. \A t \in G : Holds(t) => held[t].index \in 0 .. Made - 1
    BY <1>2, <1>8 DEF Crew
  <2>2. \A t \in G : Holds(t) => g[held[t].index] = f[held[t].index]
    BY <2>1
  <2>3. \A t \in G : pc[t] = "run" => Holds(t)
    BY DEF Holds
  <2> QED
    BY <1>8, <2>2, <2>3 DEF Crew
<1>9. Crew(g, Workers, "input", "traces") /\ Crew(g, ToSet(Provers), "traces", "proofs")
  <2>1. /\ Received("input") <= Made /\ Received("traces") <= Made
        /\ Received("input") \in Nat /\ Received("traces") \in Nat
        /\ Sent("traces") \in Nat /\ Sent("proofs") \in Nat
    BY <1>1 DEF Ordered
  <2> QED
    BY <1>1, <1>8, <2>1 DEF TreeOf
<1>10. Accepted(g)
  <2>1. Accepted(f) /\ Crew(f, Workers, "input", "traces")
    BY <1>1 DEF TreeOf
  <2>2. \A i \in 0 .. Sent("traces") - 1 : i \in 0 .. Made - 1
    BY <1>1 DEF Ordered
  <2>3. \A w \in Workers : pc[w] = "send" =>
           held[w].index \in Sent("traces") .. Received("input") - 1
    BY <2>1 DEF Crew, Holds
  <2>4. \A i \in Sent("traces") .. Received("input") - 1 : i \in 0 .. Made - 1
    BY <1>1 DEF Ordered
  <2> QED
    BY <2>1, <2>2, <2>3, <2>4 DEF Accepted
<1> QED
  BY <1>1, <1>3, <1>4, <1>6, <1>7, <1>9, <1>10 DEF Sound, TreeOf

\* The input made of the proofs of inputs k and k + 1: the pair, or input k alone.
Paired(f, k, m) ==
    [index |-> m, height |-> f[k].height + 1,
     proofs |-> IF f[k].height # f[k + 1].height THEN <<Aggregate(f[k])>>
                ELSE <<Aggregate(f[k]), Aggregate(f[k + 1])>>,
     complete |-> f[k].height + 1 = ExpectedHeight]

\* It has the values of what it is made of.
LEMMA PairedItem ==
  ASSUME Typed, NEW f \in [Nat -> Items], Table(f), NEW k \in Nat, NEW m \in Nat,
         k + 1 < Made
  PROVE  /\ Paired(f, k, m) \in Items /\ Paired(f, k, m).index = m
         /\ Paired(f, k, m).height = f[k].height + 1
         /\ Paired(f, k, m).complete <=> f[k].height + 1 = ExpectedHeight
         /\ Len(Paired(f, k, m).proofs) \in {1, 2}
         /\ Len(Paired(f, k, m).proofs) = 2 =>
               Adjacent(Paired(f, k, m).proofs[1], Paired(f, k, m).proofs[2])
         /\ Starts(Paired(f, k, m)) <=> Starts(f[k])
         /\ \A x : Follows(x, Paired(f, k, m)) <=> Follows(x, f[k])
         /\ f[k].height = f[k + 1].height =>
               /\ Finishes(Paired(f, k, m)) <=> Finishes(f[k + 1])
               /\ \A x : Follows(Paired(f, k, m), x) <=> Follows(f[k + 1], x)
         /\ f[k].height # f[k + 1].height =>
               /\ Finishes(Paired(f, k, m)) <=> Finishes(f[k])
               /\ \A x : Follows(Paired(f, k, m), x) <=> Follows(f[k], x)
<1> DEFINE x == Paired(f, k, m)
           a == Aggregate(f[k])
           b == Aggregate(f[k + 1])
<1>1. Made \in Nat
  BY Counters DEF Counted
<1>2. a \in Ranges /\ b \in Ranges /\ f[k] \in Items /\ f[k + 1] \in Items
  BY <1>1, TableItem
<1>3. f[k].height \in Nat /\ f[k + 1].height \in Nat
  BY <1>2, ItemTypes
<1>4. /\ x.index = m /\ x.height = f[k].height + 1
      /\ x.complete = (f[k].height + 1 = ExpectedHeight)
      /\ x.proofs = IF f[k].height # f[k + 1].height THEN <<a>> ELSE <<a, b>>
  BY DEF Paired
<1>5. /\ <<a>> \in Seq(Ranges) /\ <<a, b>> \in Seq(Ranges)
      /\ Len(<<a>>) = 1 /\ Len(<<a, b>>) = 2 /\ <<a, b>>[1] = a /\ <<a, b>>[2] = b
      /\ Head(<<a>>) = a /\ Last(<<a>>) = a /\ Head(<<a, b>>) = a /\ Last(<<a, b>>) = b
  <2> HIDE DEF a, b
  <2> QED
    BY <1>2 DEF Last
<1>6. x \in Items
  <2> DEFINE s == IF f[k].height # f[k + 1].height THEN <<a>> ELSE <<a, b>>
             c == f[k].height + 1 = ExpectedHeight
             n == f[k].height + 1
  <2>1. x = [index |-> m, height |-> n, proofs |-> s, complete |-> c]
    BY DEF Paired
  <2>2. s \in Seq(Ranges) /\ c \in BOOLEAN /\ n \in Nat
    <3> HIDE DEF a, b
    <3> QED
      BY <1>3, <1>5
  <2> HIDE DEF x, s, c, n
  <2> QED
    BY <2>1, <2>2 DEF Items
<1>7. f[k].height = f[k + 1].height => Adjacent(a, b)
  BY <1>1, <1>3 DEF Table, Follows
<1> HIDE DEF a, b
<1>8. /\ Aggregate(x).startShard = a.startShard /\ Aggregate(x).startDigest = a.startDigest
      /\ f[k].height = f[k + 1].height =>
            Aggregate(x).nextShard = b.nextShard /\ Aggregate(x).endDigest = b.endDigest
      /\ f[k].height # f[k + 1].height =>
            Aggregate(x).nextShard = a.nextShard /\ Aggregate(x).endDigest = a.endDigest
  <2>1. Aggregate(x) =
          [startShard |-> Head(x.proofs).startShard, nextShard |-> Last(x.proofs).nextShard,
           startDigest |-> Head(x.proofs).startDigest, endDigest |-> Last(x.proofs).endDigest]
    BY DEF Aggregate
  <2> HIDE DEF x
  <2> QED
    BY <1>4, <1>5, <2>1
<1>9. /\ Starts(x) <=> Starts(f[k])
      /\ \A y : Follows(y, x) <=> Follows(y, f[k])
      /\ f[k].height = f[k + 1].height =>
            /\ Finishes(x) <=> Finishes(f[k + 1])
            /\ \A y : Follows(x, y) <=> Follows(f[k + 1], y)
      /\ f[k].height # f[k + 1].height =>
            /\ Finishes(x) <=> Finishes(f[k])
            /\ \A y : Follows(x, y) <=> Follows(f[k], y)
  <2> HIDE DEF x
  <2> QED
    BY <1>8 DEF Starts, Finishes, Follows, Adjacent, a, b
<1>10. /\ Len(x.proofs) \in {1, 2}
       /\ Len(x.proofs) = 2 => Adjacent(x.proofs[1], x.proofs[2])
  <2> HIDE DEF x
  <2> QED
    BY <1>4, <1>5, <1>7
<1> QED
  BY <1>4, <1>6, <1>9, <1>10

\* The tree thread extends the table: the layers stay in order, and when it has used
\* up a layer, it goes on with the next, of half as many inputs.
LEMMA Grows ==
  ASSUME Typed, NEW f \in [Nat -> Items], Table(f), Frontier(f), Used + 1 < Made,
         NEW g, g = [f EXCEPT ![Made] = Paired(f, Used, Made)],
         UNCHANGED sizes, count' = count, Made' = Made + 1,
         Used' = IF f[Used].height = f[Used + 1].height THEN Used + 2 ELSE Used + 1
  PROVE  /\ Table(g)' /\ Frontier(g)' /\ g \in [Nat -> Items]
         /\ f[Used].height # f[Used + 1].height => g[Used'].height # ExpectedHeight
         /\ ExpectedHeight' = ExpectedHeight /\ NumLeaves' = NumLeaves
         /\ \A i : LeafInput(i)' = LeafInput(i)
<1> DEFINE k == Used
           m == Made
           x == Paired(f, k, m)
           h == f[k].height
<1>1. PICK b \in Used + 1 .. Made : Layers(f, b)
  BY DEF Frontier
<1>2. /\ Used \in Nat /\ Made \in Nat /\ NumLeaves <= count /\ count \in Nat
      /\ NumLeaves \in Nat \ {0} /\ count <= Made
  BY Counters DEF Frontier, Typed, Counted, Made
<1>3. k \in Nat /\ m \in Nat /\ k + 1 < m /\ b \in Nat /\ k + 1 <= b /\ b <= m
  BY <1>2
<1>4. /\ x \in Items /\ x.index = m /\ x.height = h + 1
      /\ x.complete <=> h + 1 = ExpectedHeight
      /\ Len(x.proofs) \in {1, 2}
      /\ Len(x.proofs) = 2 => Adjacent(x.proofs[1], x.proofs[2])
      /\ Starts(x) <=> Starts(f[k])
      /\ \A y : Follows(y, x) <=> Follows(y, f[k])
      /\ h = f[k + 1].height =>
            /\ Finishes(x) <=> Finishes(f[k + 1])
            /\ \A y : Follows(x, y) <=> Follows(f[k + 1], y)
      /\ h # f[k + 1].height =>
            /\ Finishes(x) <=> Finishes(f[k])
            /\ \A y : Follows(x, y) <=> Follows(f[k], y)
  BY <1>2, PairedItem
<1>5. /\ g \in [Nat -> Items] /\ g[m] = x
      /\ \A i \in Nat : i # m => g[i] = f[i]
  BY <1>2, <1>4
<1>6. /\ \A i \in k .. b - 1 : f[i].height = h
      /\ \A i \in b .. m - 1 : f[i].height = h + 1
      /\ h + Levels((b - k) + 2 * (m - b)) = ExpectedHeight
      /\ b = m => Starts(f[k]) /\ Finishes(f[m - 1])
      /\ b # m => Follows(f[m - 1], f[k])
  BY <1>1 DEF Layers
<1>7. \A i \in 0 .. m - 2 :
         \/ f[i + 1].height = f[i].height /\ Follows(f[i], f[i + 1])
         \/ f[i + 1].height = f[i].height + 1 /\ Finishes(f[i]) /\ Starts(f[i + 1])
  BY DEF Table
<1>8. h \in Nat /\ \A i \in Nat : f[i].height \in Nat
  BY <1>3, ItemTypes
<1>t. /\ \A i \in 0 .. NumLeaves - 1 : f[i] = LeafInput(i)
      /\ \A i \in 0 .. m - 1 :
          /\ f[i].index = i
          /\ f[i].complete <=> f[i].height = ExpectedHeight
          /\ Len(f[i].proofs) \in {1, 2}
          /\ Len(f[i].proofs) = 2 => Adjacent(f[i].proofs[1], f[i].proofs[2])
  BY DEF Table
<1>9. /\ \A i \in 0 .. NumLeaves - 1 : g[i] = LeafInput(i)
      /\ \A i \in 0 .. m :
          /\ g[i].index = i
          /\ g[i].complete <=> g[i].height = ExpectedHeight
          /\ Len(g[i].proofs) \in {1, 2}
          /\ Len(g[i].proofs) = 2 => Adjacent(g[i].proofs[1], g[i].proofs[2])
  <2>1. \A i \in 0 .. NumLeaves - 1 : i \in Nat /\ i # m
    BY <1>2
  <2>2. \A i \in 0 .. m : i = m \/ (i \in 0 .. m - 1 /\ i # m /\ i \in Nat)
    BY <1>3
  <2> HIDE DEF k, m, x, h
  <2> QED
    BY <1>4, <1>5, <1>t, <2>1, <2>2
<1>10. \A i \in 0 .. m - 1 :
         \/ g[i + 1].height = g[i].height /\ Follows(g[i], g[i + 1])
         \/ g[i + 1].height = g[i].height + 1 /\ Finishes(g[i]) /\ Starts(g[i + 1])
  <2> TAKE i \in 0 .. m - 1
  <2>1. CASE i # m - 1
    <3>1. i \in 0 .. m - 2 /\ g[i] = f[i] /\ g[i + 1] = f[i + 1]
      BY <1>3, <1>5, <2>1
    <3> HIDE DEF k, m, x, h
    <3> QED
      BY <1>7, <3>1
  <2>2. CASE i = m - 1
    <3>1. g[i] = f[m - 1] /\ g[i + 1] = x
      BY <1>3, <1>5, <2>2
    <3>2. CASE b = m
      <4>1. f[m - 1].height = h
        BY <1>3, <1>6, <3>2
      <4> HIDE DEF k, m, x, h
      <4> QED
        BY <1>4, <1>6, <3>1, <3>2, <4>1
    <3>3. CASE b # m
      <4>1. f[m - 1].height = h + 1
        BY <1>3, <1>6, <3>3
      <4> HIDE DEF k, m, x, h
      <4> QED
        BY <1>4, <1>6, <3>1, <3>3, <4>1
    <3> QED
      BY <3>2, <3>3
  <2> QED
    BY <2>1, <2>2
<1>11. /\ ExpectedHeight' = ExpectedHeight /\ NumLeaves' = NumLeaves
       /\ \A i : LeafInput(i)' = LeafInput(i)
       /\ \A y : /\ Starts(y)' <=> Starts(y)
                 /\ Finishes(y)' <=> Finishes(y)
                 /\ \A z : Follows(y, z)' <=> Follows(y, z)
  BY DEF ExpectedHeight, NumLeaves, LeafInput, CoreRange, DeferredRange, CoreIsComplete,
         Starts, Finishes, Follows, Adjacent, Aggregate, sizes
<1>12. Table(g)'
  <2>1. Made' - 1 = m /\ Made' - 2 = m - 1
    BY <1>2
  <2> HIDE DEF k, m, x, h
  <2> QED
    BY <1>9, <1>10, <1>11, <2>1 DEF Table, Adjacent
\* The layers of the table after the step, for the three ways the frontier moves.
<1>13. ASSUME NEW kk \in Nat, kk = Used', NEW bb \in kk + 1 .. m + 1,
              \A i \in kk .. bb - 1 : g[i].height = g[kk].height,
              \A i \in bb .. m : g[i].height = g[kk].height + 1,
              g[kk].height + Levels((bb - kk) + 2 * (m + 1 - bb)) = ExpectedHeight,
              bb = m + 1 => Starts(g[kk]) /\ Finishes(g[m]),
              bb # m + 1 => Follows(g[m], g[kk])
       PROVE  Frontier(g)'
  <2>1. Made' = m + 1 /\ Made' - 1 = m /\ Made' \in Nat
    BY <1>2
  <2>2. Layers(g, bb)'
    <3>1. /\ \A i \in Used' .. bb - 1 : g[i].height = g[Used'].height
          /\ \A i \in bb .. Made' - 1 : g[i].height = g[Used'].height + 1
          /\ g[Used'].height + Levels((bb - Used') + 2 * (Made' - bb)) = ExpectedHeight'
      BY <1>11, <1>13, <2>1
    <3>2. IF bb = Made' THEN Starts(g[Used])' /\ Finishes(g[Made - 1])'
                        ELSE Follows(g[Made - 1], g[Used])'
      <4> HIDE DEF k, m, x, h
      <4> QED
        BY <1>11, <1>13, <2>1
    <3> QED
      BY <3>1, <3>2 DEF Layers, Levels
  <2> QED
    BY <1>2, <1>11, <1>13, <2>1, <2>2 DEF Frontier
<1>14. CASE h = f[k + 1].height /\ b # k + 2
  <2>1. b > k + 1
    <3>1. b # k + 1
      <4>1. SUFFICES ASSUME b = k + 1 PROVE FALSE
        OBVIOUS
      <4>2. f[k + 1].height = h + 1
        BY <1>3, <1>6, <4>1
      <4> QED
        BY <1>8, <1>14, <4>2
    <3> QED
      BY <1>3, <3>1
  <2>2. k + 2 \in Nat /\ k + 2 = Used' /\ b \in (k + 2) + 1 .. m + 1 /\ b # m + 1
    BY <1>3, <1>14, <2>1
  <2>3. g[k + 2] = f[k + 2] /\ f[k + 2].height = h
    BY <1>3, <1>5, <1>6, <2>2
  <2>4. \A i \in k + 2 .. b - 1 : g[i].height = h
    BY <1>3, <1>5, <1>6
  <2>5. \A i \in b .. m : g[i].height = h + 1
    <3>1. \A i \in b .. m : i = m \/ (i \in b .. m - 1 /\ i # m /\ i \in Nat)
      BY <1>3
    <3> HIDE DEF k, m, x, h
    <3> QED
      BY <1>4, <1>5, <1>6, <3>1
  <2>6. (b - (k + 2)) + 2 * (m + 1 - b) = (b - k) + 2 * (m - b)
    BY <1>3
  <2>7. Follows(g[m], g[k + 2])
    <3>1. k + 1 \in 0 .. m - 2 /\ (k + 1) + 1 = k + 2 /\ k + 1 \in k .. b - 1
      BY <1>3, <2>2
    <3>2. Follows(f[k + 1], f[k + 2])
      BY <1>7, <1>8, <1>14, <2>3, <3>1
    <3> HIDE DEF k, m, x, h
    <3> QED
      BY <1>4, <1>5, <1>14, <2>3, <3>2
  <2>8. Frontier(g)'
    <3>1. /\ \A i \in k + 2 .. b - 1 : g[i].height = g[k + 2].height
          /\ \A i \in b .. m : g[i].height = g[k + 2].height + 1
          /\ g[k + 2].height + Levels((b - (k + 2)) + 2 * (m + 1 - b)) = ExpectedHeight
      BY <1>6, <2>3, <2>4, <2>5, <2>6
    <3> DEFINE kk == k + 2
    <3> HIDE DEF k, m, x, h, kk
    <3> QED
      BY <1>13, <2>2, <2>7, <3>1 DEF kk
  <2> QED
    BY <1>5, <1>11, <1>12, <1>14, <2>8
<1>15. CASE h = f[k + 1].height /\ b = k + 2
  <2>1. k + 2 \in Nat /\ k + 2 = Used' /\ m + 1 \in (k + 2) + 1 .. m + 1 /\ k + 2 <= m
    BY <1>3, <1>15
  <2>2. \A i \in k + 2 .. m : g[i].height = h + 1
    <3>1. \A i \in k + 2 .. m : i = m \/ (i \in b .. m - 1 /\ i # m /\ i \in Nat)
      BY <1>3, <1>15
    <3> HIDE DEF k, m, x, h
    <3> QED
      BY <1>4, <1>5, <1>6, <3>1
  <2>3. g[k + 2].height = h + 1
    BY <2>1, <2>2
  <2>4. /\ \A i \in k + 2 .. (m + 1) - 1 : g[i].height = g[k + 2].height
        /\ \A i \in m + 1 .. m : g[i].height = g[k + 2].height + 1
    BY <1>3, <2>2, <2>3
  <2>5. g[k + 2].height + Levels(m - (k + 1)) = ExpectedHeight
    <3> DEFINE n == (b - k) + 2 * (m - b)
               p == m - (k + 1)
    <3>1. n \in Nat \ {0, 1} /\ (n + 1) \div 2 = p /\ p \in Nat \ {0}
      <4>1. p \in Nat \ {0} /\ n = 2 * p
        BY <1>3, <1>15
      <4> HIDE DEF n, p
      <4> QED
        BY <4>1
    <3>2. h + Levels(n) = ExpectedHeight
      BY <1>6
    <3> HIDE DEF n, p
    <3>3. Levels(n) = 1 + Levels(p) /\ Levels(p) \in Nat
      BY <3>1, LevelsDef
    <3>4. (h + 1) + Levels(p) = ExpectedHeight
      BY <1>8, <3>2, <3>3
    <3> QED
      BY <2>3, <3>4 DEF p
  <2>6. Starts(g[k + 2]) /\ Finishes(g[m])
    <3>1. CASE k + 2 = m
      <4>1. m - 1 = k + 1 /\ b = m /\ g[k + 2] = x
        BY <1>3, <1>5, <1>15, <3>1
      <4> HIDE DEF k, m, x, h
      <4> QED
        BY <1>4, <1>5, <1>6, <1>15, <4>1
    <3>2. CASE k + 2 # m
      <4>1. /\ k + 1 \in 0 .. m - 2 /\ (k + 1) + 1 = k + 2 /\ k + 2 \in b .. m - 1
            /\ g[k + 2] = f[k + 2] /\ k + 1 \in Nat
        BY <1>3, <1>5, <1>15, <3>2
      <4>2. f[k + 2].height = h + 1 /\ f[k + 1].height # f[k + 2].height
        BY <1>6, <1>8, <1>15, <4>1
      <4>3. Finishes(f[k + 1]) /\ Starts(f[k + 2])
        BY <1>7, <4>1, <4>2
      <4> HIDE DEF k, m, x, h
      <4> QED
        BY <1>4, <1>5, <1>15, <4>1, <4>3
    <3> QED
      BY <3>1, <3>2
  <2>7. Frontier(g)'
    <3> DEFINE kk == k + 2
               bb == m + 1
    <3>1. kk \in Nat /\ kk = Used' /\ bb \in kk + 1 .. m + 1 /\ bb = m + 1
      BY <2>1
    <3>2. /\ \A i \in kk .. bb - 1 : g[i].height = g[kk].height
          /\ \A i \in bb .. m : g[i].height = g[kk].height + 1
      BY <2>4
    <3>3. g[kk].height + Levels((bb - kk) + 2 * (m + 1 - bb)) = ExpectedHeight
      <4>1. (bb - kk) + 2 * (m + 1 - bb) = m - (k + 1)
        BY <1>3
      <4> QED
        BY <2>5, <4>1
    <3>4. Starts(g[kk]) /\ Finishes(g[m])
      BY <2>6
    <3> HIDE DEF k, m, x, h, kk, bb
    <3> QED
      BY <1>13, <3>1, <3>2, <3>3, <3>4
  <2> QED
    BY <1>5, <1>11, <1>12, <1>15, <2>7
<1>16. CASE h # f[k + 1].height
  <2>1. b = k + 1
    <3>1. SUFFICES ASSUME b # k + 1 PROVE FALSE
      OBVIOUS
    <3>2. k + 1 \in k .. b - 1
      BY <1>3, <3>1
    <3> QED
      BY <1>6, <1>16, <3>2
  <2>2. k + 1 \in Nat /\ k + 1 = Used' /\ m + 1 \in (k + 1) + 1 .. m + 1 /\ k + 1 # m
    BY <1>3, <1>16
  <2>3. \A i \in k + 1 .. m : g[i].height = h + 1
    <3>1. \A i \in k + 1 .. m : i = m \/ (i \in b .. m - 1 /\ i # m /\ i \in Nat)
      BY <1>3, <2>1
    <3> HIDE DEF k, m, x, h
    <3> QED
      BY <1>4, <1>5, <1>6, <3>1
  <2>4. g[k + 1].height = h + 1 /\ g[k + 1] = f[k + 1]
    BY <1>3, <1>5, <2>2, <2>3
  <2>5. /\ \A i \in k + 1 .. (m + 1) - 1 : g[i].height = g[k + 1].height
        /\ \A i \in m + 1 .. m : g[i].height = g[k + 1].height + 1
    BY <1>3, <2>3, <2>4
  <2>6. /\ g[k + 1].height + Levels(m - k) = ExpectedHeight
        /\ g[k + 1].height # ExpectedHeight
    <3> DEFINE n == (b - k) + 2 * (m - b)
               p == m - k
    <3>1. n \in Nat \ {0, 1} /\ (n + 1) \div 2 = p /\ p \in Nat \ {0, 1}
      <4>1. p \in Nat \ {0, 1} /\ n = 2 * p - 1
        BY <1>3, <2>1
      <4> HIDE DEF n, p
      <4> QED
        BY <4>1
    <3>2. h + Levels(n) = ExpectedHeight
      BY <1>6
    <3> HIDE DEF n, p
    <3>3. Levels(n) = 1 + Levels(p) /\ Levels(p) \in Nat /\ Levels(p) >= 1
      BY <3>1, LevelsDef
    <3>4. (h + 1) + Levels(p) = ExpectedHeight /\ h + 1 # ExpectedHeight
      BY <1>8, <3>2, <3>3
    <3> QED
      BY <2>4, <3>4 DEF p
  <2>7. Starts(g[k + 1]) /\ Finishes(g[m])
    <3>1. k \in 0 .. m - 2
      BY <1>3
    <3>2. Finishes(f[k]) /\ Starts(f[k + 1])
      BY <1>7, <1>16, <3>1
    <3> HIDE DEF k, m, x, h
    <3> QED
      BY <1>4, <1>5, <1>16, <2>4, <3>2
  <2>8. Frontier(g)'
    <3> DEFINE kk == k + 1
               bb == m + 1
    <3>1. kk \in Nat /\ kk = Used' /\ bb \in kk + 1 .. m + 1 /\ bb = m + 1
      BY <2>2
    <3>2. /\ \A i \in kk .. bb - 1 : g[i].height = g[kk].height
          /\ \A i \in bb .. m : g[i].height = g[kk].height + 1
      BY <2>5
    <3>3. g[kk].height + Levels((bb - kk) + 2 * (m + 1 - bb)) = ExpectedHeight
      <4>1. (bb - kk) + 2 * (m + 1 - bb) = m - k
        BY <1>3
      <4> QED
        BY <2>6, <4>1
    <3>4. Starts(g[kk]) /\ Finishes(g[m])
      BY <2>7
    <3> HIDE DEF k, m, x, h, kk, bb
    <3> QED
      BY <1>13, <3>1, <3>2, <3>3, <3>4
  <2> QED
    BY <1>5, <1>11, <1>12, <2>2, <2>6, <2>8
<1> QED
  BY <1>14, <1>15, <1>16

\* Sequences of one and of two.
LEMMA Pair ==
  ASSUME NEW S, NEW a \in S, NEW c \in S
  PROVE  /\ Append(<<a>>, c) = <<a, c>> /\ <<a>> \o <<c>> = <<a, c>>
         /\ Len(<<a, c>>) = 2 /\ Head(<<a, c>>) = a /\ Last(<<a, c>>) = c
         /\ Tail(<<a, c>>) = <<c>>
<1>1. <<a>> \in Seq(S) /\ <<c>> \in Seq(S) /\ <<a, c>> \in Seq(S)
  OBVIOUS
<1> DEFINE t == <<a, c>>
<1>t. t \in Seq(S) /\ Len(t) = 2 /\ t[1] = a /\ t[2] = c
  OBVIOUS
<1>2. ASSUME NEW s \in Seq(S), Len(s) = 2, s[1] = a, s[2] = c
      PROVE  s = t
  <2> HIDE DEF t
  <2>1. \A i \in 1 .. Len(s) : s[i] = t[i]
    BY <1>2, <1>t
  <2> QED
    BY <1>2, <1>t, <2>1, SeqEqual
<1>3. Append(<<a>>, c) = t /\ <<a>> \o <<c>> = t
  <2>1. /\ Append(<<a>>, c) \in Seq(S) /\ Len(Append(<<a>>, c)) = 2
        /\ Append(<<a>>, c)[1] = a /\ Append(<<a>>, c)[2] = c
    BY <1>1
  <2>2. /\ <<a>> \o <<c>> \in Seq(S) /\ Len(<<a>> \o <<c>>) = 2
        /\ (<<a>> \o <<c>>)[1] = a /\ (<<a>> \o <<c>>)[2] = c
    BY <1>1
  <2> HIDE DEF t
  <2> QED
    BY <1>2, <2>1, <2>2
<1>4. Tail(<<a, c>>) = <<c>>
  BY <1>1
<1> QED
  BY <1>1, <1>3, <1>4 DEF Last

\* The tree thread takes the proof that is next in order.
LEMMA ReceiveProofSound ==
  ASSUME NEW f, Sound(f), ReceiveProof
  PROVE  \E g : Sound(g)'
<1> DEFINE p == Head(channel["proofs"])
           b == Append(batch, p)
<1>1. Typed /\ Main /\ Healthy /\ TreeOf(f) /\ Counted /\ Types /\ Ordered
  BY Order DEF Sound, Typed, Types, Counted
<1>2. /\ Inputs(f) /\ Stops(f) /\ Table(f) /\ Frontier(f) /\ Taken(f) /\ f \in [Nat -> Items]
      /\ NumLeaves <= count /\ NumLeaves \in Nat /\ count \in Nat /\ Used < Made
      /\ Used \in Nat /\ Made \in Nat /\ Contents(f, "proofs") /\ Contents(f, "input")
  BY <1>1 DEF TreeOf, Frontier, Counted, Typed, Ordered
<1>3. /\ pc[TreeThread] = "recv" /\ channel["proofs"] # <<>>
      /\ channel' = [channel EXCEPT !["proofs"] = Tail(@)]
      /\ IF Len(b) < 2
         THEN batch' = b /\ UNCHANGED <<pc, held>>
         ELSE /\ held' = [held EXCEPT ![TreeThread] = NextInput(b)]
              /\ batch' = IF IsLast(b) THEN Tail(b) ELSE <<>>
              /\ pc' = [pc EXCEPT ![TreeThread] = "send"]
      /\ UNCHANGED <<sizes, turn, count, main, faults>>
  BY DEF ReceiveProof, REDUCE_BATCH_SIZE
<1>4. TreeThread \in Threads /\ TreeThread \in {LeafSender, TreeThread}
      /\ LeafSender # TreeThread /\ LeafSender \in Threads
  BY Plan
<1>5. /\ pc' \in [Threads -> PCs] /\ pc'[TreeThread] \in {"recv", "send"}
      /\ \A u \in Threads : u # TreeThread => pc'[u] = pc[u] /\ held'[u] = held[u]
      /\ turn' = turn /\ turn' \in [Channels -> Nat] /\ count' = count /\ count' \in Nat
      /\ channel'["traces"] = channel["traces"] /\ channel'["input"] = channel["input"]
  BY <1>1, <1>2, <1>3, <1>4 DEF Types, PCs
<1>6. \A u \in Threads : Passing(u)' <=> Passing(u)
  BY <1>3, <1>5 DEF Passing
<1>7. \A c \in Channels : Sent(c)' = Sent(c)
  <2>1. \A c \in Channels : Senders(c) \subseteq Threads
    BY Plan DEF Channels
  <2> QED
    BY <1>5, <1>6, <2>1, SentIdle
<1>8. /\ Received("proofs")' = Received("proofs") + 1
      /\ p = Form(f, "proofs", Received("proofs")) /\ Received("proofs") < Sent("proofs")
      /\ p \in Items /\ channel' \in [Channels -> Seq(Items)]
  BY <1>1, <1>2, <1>3, <1>7, ChannelReceive DEF Types
<1>9. Received("input")' = Received("input")
  BY <1>1, <1>2, <1>5, <1>7, ChannelIdle DEF Types
<1>10. root = <<>> /\ Len(root) = 0 /\ root' = root
  BY <1>3, RunningNoRoot DEF Ended, main
<1>11. /\ batch \in Seq(Items) /\ Len(batch) \in {0, 1}
       /\ b \in Seq(Items) /\ Len(b) = Len(batch) + 1
       /\ Received("proofs") = Used + Len(batch)
       /\ \A k \in 1 .. Len(batch) : batch[k] = Proved(f[Used])
       /\ f[Used].height # ExpectedHeight
  <2>1. batch \in Seq(Items) /\ Len(batch) \in Nat /\ Len(batch) <= 1
    BY <1>1, <1>2 DEF Typed, Taken, Counted
  <2>2. b \in Seq(Items) /\ Len(b) = Len(batch) + 1
    BY <1>8, <2>1
  <2>3. Received("proofs") = Used + Len(batch)
    <3>1. Used + Len(batch) + Len(root) = Received("proofs") /\ Used \in Nat
      BY <1>1 DEF Ordered
    <3> QED
      BY <1>10, <2>1, <3>1
  <2>4. /\ \A k \in 1 .. Len(batch) : batch[k] = Proved(f[Used])
        /\ f[Used].height # ExpectedHeight
    BY <1>2, <1>3 DEF Taken, Stops
  <2>5. Len(batch) \in {0, 1}
    <3>1. \A n \in Nat : n <= 1 => n \in {0, 1}
      OBVIOUS
    <3> QED
      BY <2>1, <3>1
  <2> HIDE DEF b
  <2> QED
    BY <2>1, <2>2, <2>3, <2>4, <2>5
<1>12. p = Proved(f[Received("proofs")])
  BY <1>8 DEF Form
<1>13. /\ ExpectedHeight' = ExpectedHeight /\ NumLeaves' = NumLeaves
       /\ \A i : LeafInput(i)' = LeafInput(i)
       /\ pc'[LeafSender] = pc[LeafSender] /\ held'[LeafSender] = held[LeafSender]
       /\ UNCHANGED <<sizes, main, faults>>
  BY <1>3, <1>4, <1>5 DEF ExpectedHeight, NumLeaves, LeafInput, CoreRange, DeferredRange, CoreIsComplete, sizes
<1>14. \A x : Proved(x)' = Proved(x)
  BY DEF Proved, Aggregate
<1>t. ~ Passing(TreeThread) /\ ~ Passing(TreeThread)'
  BY <1>3, <1>4, <1>6 DEF Passing
<1>h. /\ pc'[TreeThread] \notin {"err", "panic"} /\ pc[TreeThread] \notin Ended
      /\ turn'["traces"] = turn["traces"] /\ turn'["proofs"] = turn["proofs"]
  BY <1>3, <1>5 DEF Ended
\* The batch was empty: the proof waits in it for its neighbour.
<1>15. CASE Len(batch) = 0
  <2>1. batch = <<>> /\ b = <<p>> /\ Len(b) = 1 /\ b[1] = p
    BY <1>8, <1>11, <1>15
  <2>2. batch' = <<p>> /\ pc' = pc /\ held' = held /\ batch' \in Seq(Items)
        /\ Len(batch') = 1 /\ batch'[1] = p
    <3>1. Len(b) < 2
      BY <2>1
    <3>2. batch' = b /\ pc' = pc /\ held' = held
      <4> HIDE DEF b
      <4> QED
        BY <1>3, <3>1
    <3> QED
      BY <1>11, <2>1, <3>2
  <2>3. Made' = Made /\ Used' = Used
    BY <1>1, <1>2, <1>5, <1>8, <1>10, <1>11, <1>15, <2>2 DEF Made, Used, Ordered
  <2>4. Table(f)' /\ Frontier(f)'
    BY <1>1, <1>2, <1>5, <1>13, <2>3, TreeIdle
  <2>5. Taken(f)'
    <3>1. p = Proved(f[Used])
      BY <1>2, <1>11, <1>12, <1>15
    <3>2. \A k \in 1 .. Len(batch') : k = 1
      BY <2>2
    <3>3. Len(batch') <= 1 /\ Len(root') <= 1 /\ \A k \in 1 .. Len(root') : FALSE
      BY <1>10, <2>2
    <3> QED
      BY <1>10, <1>14, <2>2, <2>3, <3>1, <3>2, <3>3 DEF Taken
  <2>6. Inputs(f)'
    BY <1>2, <1>5, <1>13, <2>2 DEF Inputs, Passing, NoItem
  <2>7. Stops(f)'
    BY <1>3, <1>11, <1>13, <2>2, <2>3 DEF Stops
  <2>8. Contents(f, "proofs")' /\ Contents(f, "input")'
    <3>1. Contents(f, "proofs")'
      BY <1>1, <1>2, <1>3, <1>7, ChannelReceive DEF Types
    <3>2. Contents(f, "input")'
      BY <1>1, <1>2, <1>5, <1>7, ChannelIdle DEF Types
    <3> QED
      BY <3>1, <3>2
  <2>9. held' \in [Threads -> Items]
    BY <1>1, <2>2 DEF Types
  <2>10. Sound(f)'
    BY <1>4, <1>5, <1>8, <1>9, <1>13, <1>h, <2>2, <2>4, <2>5, <2>6, <2>7, <2>8, <2>9,
       FeederSound
  <2> QED
    BY <2>10
\* The batch is full: the next input is made of it.
<1>16. CASE Len(batch) = 1
  <2> DEFINE x == Paired(f, Used, Made)
             same == f[Used].height = f[Used + 1].height
  <2>1. Received("proofs") = Used + 1 /\ Used + 1 < Made
    BY <1>1, <1>2, <1>8, <1>11, <1>16 DEF Ordered
  <2>2. Made = count
    BY <1>2, <1>3 DEF Made
  <2>3. /\ f[Used] \in Items /\ f[Used + 1] \in Items
        /\ Proved(f[Used]).height = f[Used].height
        /\ Proved(f[Used]).proofs = <<Aggregate(f[Used])>>
        /\ Proved(f[Used + 1]).height = f[Used + 1].height
        /\ Proved(f[Used + 1]).proofs = <<Aggregate(f[Used + 1])>>
        /\ Aggregate(f[Used]) \in Ranges /\ Aggregate(f[Used + 1]) \in Ranges
        /\ Proved(f[Used]) \in Items /\ Proved(f[Used + 1]) \in Items
    <3>1. Used \in 0 .. Made - 1 /\ Used + 1 \in 0 .. Made - 1
      BY <1>2, <2>1
    <3> QED
      BY <1>1, <1>2, <3>1, TableItem
  <2>4. /\ Len(b) = 2 /\ Head(b) = Proved(f[Used]) /\ Last(b) = Proved(f[Used + 1])
        /\ Tail(b) = <<Proved(f[Used + 1])>>
    <3>1. batch = <<Proved(f[Used])>>
      BY <1>11, <1>16, <2>3
    <3>2. b = <<Proved(f[Used]), Proved(f[Used + 1])>>
      <4>1. b = Append(<<Proved(f[Used])>>, Proved(f[Used + 1]))
        BY <1>12, <2>1, <3>1
      <4>2. Proved(f[Used]) \in Items /\ Proved(f[Used + 1]) \in Items
        BY <2>3
      <4> HIDE DEF b
      <4> QED
        BY <4>1, <4>2, Pair
    <3> HIDE DEF b
    <3> QED
      BY <2>3, <3>2, Pair
  <2> HIDE DEF b
  <2>5. IsLast(b) <=> ~ same
    BY <2>3, <2>4 DEF IsLast
  <2>6. NextInput(b) = x
    <3>1. <<Aggregate(f[Used])>> \o <<Aggregate(f[Used + 1])>> =
             <<Aggregate(f[Used]), Aggregate(f[Used + 1])>>
      BY <2>3, Pair
    <3> QED
      BY <2>2, <2>3, <2>4, <2>5, <3>1 DEF NextInput, Paired
  <2>7. x \in Items
    BY <1>1, <1>2, <2>1, PairedItem
  <2>8. /\ held' = [held EXCEPT ![TreeThread] = x]
        /\ batch' = IF same THEN <<>> ELSE <<Proved(f[Used + 1])>>
        /\ pc' = [pc EXCEPT ![TreeThread] = "send"]
    <3>1. ~ (Len(b) < 2)
      BY <2>4
    <3>2. /\ held' = [held EXCEPT ![TreeThread] = NextInput(b)]
          /\ batch' = IF IsLast(b) THEN Tail(b) ELSE <<>>
          /\ pc' = [pc EXCEPT ![TreeThread] = "send"]
      BY <1>3, <3>1
    <3> QED
      BY <2>4, <2>5, <2>6, <3>2
  <2>g. PICK g : g = [f EXCEPT ![Made] = x]
    OBVIOUS
  <2> HIDE DEF x
  <2>9. /\ pc'[TreeThread] = "send" /\ held'[TreeThread] = x
        /\ held' \in [Threads -> Items]
    BY <1>1, <1>4, <2>7, <2>8 DEF Types
  <2>10. /\ batch' \in Seq(Items) /\ Len(batch') = IF same THEN 0 ELSE 1
         /\ ~ same => batch'[1] = Proved(f[Used + 1])
         /\ same => batch' = <<>>
    <3>1. <<Proved(f[Used + 1])>> \in Seq(Items) /\ <<>> \in Seq(Items)
          /\ Len(<<Proved(f[Used + 1])>>) = 1 /\ Len(<<>>) = 0
          /\ <<Proved(f[Used + 1])>>[1] = Proved(f[Used + 1])
      BY <2>3
    <3> QED
      BY <2>8, <3>1
  <2>11. Made' = Made + 1 /\ Used' = IF same THEN Used + 2 ELSE Used + 1
    <3>1. Made' = Made + 1
      BY <1>5, <2>2, <2>9 DEF Made
    <3>2. Used' = Received("proofs")' - Len(batch') - Len(root')
      BY DEF Used
    <3> QED
      BY <1>2, <1>8, <1>10, <2>1, <2>10, <3>1, <3>2
  <2>12. /\ Table(g)' /\ Frontier(g)' /\ g \in [Nat -> Items]
         /\ ~ same => g[Used'].height # ExpectedHeight
    BY <1>1, <1>2, <1>5, <1>13, <2>1, <2>11, <2>g, Grows DEF x
  <2>13. g[Made] = x /\ \A i \in 0 .. Made - 1 : g[i] = f[i]
    BY <1>2, <2>g
  <2>14. Sound(g)
    BY <2>12, <2>13, Agree
  <2>15. Contents(g, "proofs")' /\ Contents(g, "input")'
    <3>0. Contents(g, "proofs") /\ Contents(g, "input")
      BY <1>1, <2>14 DEF Sound, TreeOf, Types
    <3>1. Contents(g, "proofs")'
      BY <1>1, <1>3, <1>7, <3>0, ChannelReceive DEF Types
    <3>2. Contents(g, "input")'
      BY <1>1, <1>5, <1>7, <3>0, ChannelIdle DEF Types
    <3> QED
      BY <3>1, <3>2
  <2>16. Taken(g)'
    <3>1. ~ same => batch'[1] = Proved(g[Used'])
      <4>1. ~ same => Used' = Used + 1 /\ g[Used + 1] = f[Used + 1]
        BY <1>2, <2>1, <2>11, <2>13
      <4> QED
        BY <2>10, <4>1
    <3>2. \A k \in 1 .. Len(batch') : k = 1 /\ ~ same
      BY <2>10
    <3>3. Len(batch') <= 1 /\ Len(root') <= 1 /\ \A k \in 1 .. Len(root') : FALSE
      BY <1>10, <2>10
    <3> QED
      BY <1>10, <1>14, <3>1, <3>2, <3>3 DEF Taken
  <2>17. Inputs(g)'
    <3>1. g[count'] = x
      BY <1>5, <2>2, <2>13
    <3> QED
      BY <1>2, <1>5, <1>13, <2>9, <3>1 DEF Inputs, Passing, NoItem
  <2>18. Stops(g)'
    BY <1>13, <2>9, <2>10, <2>12 DEF Stops
  <2>19. Sound(g)'
    BY <1>4, <1>5, <1>8, <1>9, <1>13, <1>h, <2>9, <2>10, <2>12, <2>14, <2>15, <2>16, <2>17,
       <2>18, FeederSound
  <2> QED
    BY <2>19
<1> QED
  BY <1>11, <1>15, <1>16

\* Every step of the tree thread is sound.
LEMMA TreeStepSound ==
  ASSUME NEW f, Sound(f), TreeStep
  PROVE  \E g : Sound(g)'
BY ReceiveProofSound, TreeSendSound DEF TreeStep

-----------------------------------------------------------------------------
(* Steps of main. *)

\* Main's steps leave the threads alone.
LEMMA MainFrame ==
  ASSUME NEW f, Sound(f), UNCHANGED <<sizes, pc, held, turn, tree, faults>>,
         channel'["input"] = channel["input"], channel'["traces"] = channel["traces"],
         Typed', Main', Used' = Used, Contents(f, "proofs")', Taken(f)', Stops(f)',
         faults = 0 /\ deferreds = committed => mainPc' # "panic"
  PROVE  Sound(f)'
<1> USE DEF sizes, tree
<1>1. Typed /\ Healthy /\ TreeOf(f) /\ Counted
  BY Counters DEF Sound
<1>2. Made' = Made /\ count' = count /\ count \in Nat
  BY <1>1 DEF Made, Typed
<1>3. /\ Table(f)' /\ Frontier(f)' /\ NumLeaves' = NumLeaves
      /\ \A i : LeafInput(i)' = LeafInput(i)
  BY <1>1, <1>2, TreeIdle DEF TreeOf
<1>4. Sent("input")' = Sent("input")
  BY SentIdle DEF Passing
<1>5. Contents(f, "input")' /\ Received("input")' = Received("input")
  BY <1>1, <1>4, ChannelIdle DEF TreeOf, Counted
<1>6. /\ Crew(f, Workers, "input", "traces")'
      /\ Crew(f, ToSet(Provers), "traces", "proofs")'
      /\ Accepted(f)' /\ Contents(f, "traces")'
  BY <1>5, CrewsIdle
<1>7. Inputs(f)'
  <2>1. Inputs(f)
    BY <1>1 DEF TreeOf
  <2> QED
    BY <1>2, <1>3, <2>1 DEF Inputs, Passing, NoItem
<1>8. Healthy'
  <2>1. \A c : NoSender(c)' <=> NoSender(c)
    BY DEF NoSender, Senders
  <2> QED
    BY <1>1, <2>1 DEF Healthy
<1>9. f \in [Nat -> Items]
  BY <1>1 DEF TreeOf
<1> QED
  BY <1>3, <1>5, <1>6, <1>7, <1>8, <1>9 DEF Sound, TreeOf, Channels

\* In a healthy run the root is in the channel when everybody has ended.
LEMMA RootIsThere ==
  ASSUME NEW f, Sound(f), faults = 0, deferreds = committed, mainPc = "join",
         joined = Len(Handles)
  PROVE  channel["proofs"] # <<>>
<1>1. Typed /\ Main /\ Healthy /\ TreeOf(f) /\ Counted /\ Ordered
  BY Order DEF Sound
<1>2. SUFFICES ASSUME channel["proofs"] = <<>> PROVE FALSE
  OBVIOUS
<1>3. (\A p \in ToSet(Provers) : pc[p] = "ok") /\ pc[TreeThread] = "ok"
  BY <1>1, JoinedAll, Plan DEF Healthy
<1>4. \E p \in ToSet(Provers) : TRUE
  <2>1. Provers \in Seq(ToSet(Provers)) /\ Provers # <<>>
    BY CompressAssumption
  <2>2. Provers[1] \in ToSet(Provers)
    BY <2>1
  <2> QED
    BY <2>2
<1>5. channel["traces"] = <<>> /\ \A w \in Workers : pc[w] \in Ended
  BY <1>1, <1>3, <1>4, Plan DEF Healthy, NoSender
<1>6. \A w \in Workers : pc[w] = "ok"
  BY <1>1, <1>5, Plan DEF Healthy, Ended
<1>7. channel["input"] = <<>> /\ pc[LeafSender] \in Ended
  <2>1. \E w \in Workers : TRUE
    BY CompressAssumption
  <2> QED
    BY <1>1, <1>6, <2>1, Plan DEF Healthy, NoSender
<1>8. pc[LeafSender] = "ok"
  BY <1>1, <1>7, Plan DEF Healthy, Ended
<1>9. Sent("traces") = Received("input") /\ Sent("proofs") = Received("traces")
  <2>1. /\ ~ \E t \in Workers : Holds(t)
        /\ ~ \E t \in ToSet(Provers) : Holds(t)
    BY <1>3, <1>6 DEF Holds
  <2>2. /\ Crew(f, Workers, "input", "traces") /\ Crew(f, ToSet(Provers), "traces", "proofs")
    BY <1>1 DEF TreeOf
  <2>3. /\ ~ \E i \in Sent("traces") .. Received("input") - 1 : TRUE
        /\ ~ \E i \in Sent("proofs") .. Received("traces") - 1 : TRUE
    BY <2>1, <2>2 DEF Crew
  <2>4. /\ Sent("traces") \notin Sent("traces") .. Received("input") - 1
        /\ Sent("proofs") \notin Sent("proofs") .. Received("traces") - 1
    BY <2>3
  <2> QED
    BY <1>1, <2>4 DEF Ordered
<1>10. Sent("input") = Made
  <2>1. Inputs(f) /\ turn["input"] \in Nat /\ count \in Nat /\ NumLeaves \in Nat
    BY <1>1 DEF TreeOf, Typed, Counted
  <2>2. turn["input"] = count
    BY <1>8, <2>1 DEF Inputs
  <2>3. Sent("input") = turn["input"]
    BY <1>3, <1>8, <2>1, SentInput DEF Passing
  <2> QED
    BY <1>3, <2>1, <2>2, <2>3 DEF Made
<1>11. Received("proofs") = Made
  <2>1. Len(channel["input"]) = 0 /\ Len(channel["traces"]) = 0 /\ Len(channel["proofs"]) = 0
    BY <1>2, <1>5, <1>7
  <2> QED
    BY <1>1, <1>9, <1>10, <2>1 DEF Counted, Ordered
<1>12. root = <<>> /\ Len(root) = 0
  BY <1>1 DEF TreeOf, Taken
<1>13. Len(batch) = 1 /\ Used = Made - 1
  <2>1. Len(batch) <= 1
    BY <1>1 DEF TreeOf, Taken
  <2>2. /\ Used + Len(batch) + Len(root) = Received("proofs")
        /\ Used \in Nat /\ Made \in Nat /\ Used < Made
    BY <1>1 DEF Ordered
  <2>3. Len(batch) \in Nat
    BY <1>1 DEF Counted
  <2> QED
    BY <1>11, <1>12, <2>1, <2>2, <2>3, SMTT(40)
<1>14. f[Used].height = ExpectedHeight
  <2>1. PICK b \in Used + 1 .. Made : Layers(f, b)
    BY <1>1 DEF TreeOf, Frontier
  <2>2. b = Made /\ (b - Used) + 2 * (Made - b) = 1
    BY <1>1, <1>13 DEF Ordered
  <2>3. f[Used].height + Levels(1) = ExpectedHeight
    BY <2>1, <2>2 DEF Layers
  <2>4. f[Used].height \in Nat
    BY <1>1, ItemTypes DEF Ordered, TreeOf
  <2> QED
    BY <2>3, <2>4, LevelsDef
<1> QED
  BY <1>1, <1>13, <1>14 DEF TreeOf, Stops

\* Main's steps are sound.
LEMMA MainStepSound ==
  ASSUME NEW f, Sound(f), MainStep
  PROVE  Sound(f)'
<1>1. Typed /\ Main /\ Healthy /\ TreeOf(f) /\ Counted /\ Ordered
  BY Order DEF Sound
<1>2. /\ Taken(f) /\ Stops(f) /\ Contents(f, "proofs") /\ Contents(f, "input")
      /\ joined \in 0 .. Len(Handles) /\ Len(Handles) \in Nat
  BY <1>1, HandlesAreThreads DEF TreeOf, Typed, Channels
<1>3. ASSUME UNCHANGED <<sizes, pc, held, channel, turn, tree, faults, root>>,
             mainPc = "join" \/ mainPc' = mainPc
      PROVE  /\ Used' = Used /\ Contents(f, "proofs")' /\ Taken(f)' /\ Stops(f)'
             /\ channel'["input"] = channel["input"] /\ channel'["traces"] = channel["traces"]
  <2>1. Sent("proofs")' = Sent("proofs")
    BY <1>3, SentIdle DEF Passing
  <2>2. Contents(f, "proofs")' /\ Received("proofs")' = Received("proofs")
    BY <1>1, <1>2, <1>3, <2>1, ChannelIdle DEF Counted
  <2>3. Used' = Used
    BY <1>3, <2>2 DEF Used, tree
  <2>4. Taken(f)'
    <3>1. \A x : Proved(x)' = Proved(x)
      BY DEF Proved, Aggregate
    <3> QED
      BY <1>2, <1>3, <2>3, <3>1 DEF Taken, tree
  <2>5. Stops(f)'
    BY <1>2, <1>3, <2>3 DEF Stops, tree, NoSender, Senders, ExpectedHeight, NumLeaves, sizes
  <2> QED
    BY <1>3, <2>2, <2>3, <2>4, <2>5
<1>4. CASE JoinHandle
  <2>1. /\ mainPc = "join" /\ joined < Len(Handles)
        /\ pc[Handles[joined + 1]] \in Ended
        /\ IF pc[Handles[joined + 1]] = "panic"
           THEN mainPc' = "panic" /\ UNCHANGED joined
           ELSE joined' = joined + 1 /\ UNCHANGED mainPc
        /\ UNCHANGED <<sizes, pc, held, channel, turn, tree, root, result, faults>>
    BY <1>4 DEF JoinHandle
  <2>2. /\ Used' = Used /\ Contents(f, "proofs")' /\ Taken(f)' /\ Stops(f)'
        /\ channel'["input"] = channel["input"] /\ channel'["traces"] = channel["traces"]
    BY <1>3, <2>1
  <2>3. joined' \in 0 .. Len(Handles) /\ joined + 1 \in 1 .. Len(Handles)
    BY <1>2, <2>1
  <2>4. Handles' = Handles
    BY DEF Handles
  <2>5. Typed'
    BY <1>1, <2>1, <2>3, <2>4 DEF Typed, sizes, tree
  <2>6. \A i \in 1 .. joined' : pc'[Handles[i]] \in {"ok", "err"}
    <3>1. CASE joined' = joined + 1
      <4>1. pc[Handles[joined + 1]] \in {"ok", "err"}
        BY <1>2, <2>1, <3>1 DEF Ended
      <4>2. \A i \in 1 .. joined' : i \in 1 .. joined \/ i = joined + 1
        BY <1>2, <3>1
      <4> QED
        BY <1>1, <2>1, <4>1, <4>2 DEF Main
    <3>2. CASE joined' = joined
      BY <1>1, <2>1, <3>2 DEF Main
    <3> QED
      BY <2>1, <3>1, <3>2
  <2>7. Main'
    BY <1>1, <2>1, <2>4, <2>6 DEF Main
  <2>8. faults = 0 /\ deferreds = committed => mainPc' # "panic"
    <3>1. Handles[joined + 1] \in Threads
      BY <2>3, HandlesAreThreads
    <3> QED
      BY <1>1, <2>1, <3>1 DEF Healthy
  <2>9. UNCHANGED <<sizes, pc, held, turn, tree, faults>>
    BY <2>1
  <2> QED
    BY <2>2, <2>5, <2>7, <2>8, <2>9, MainFrame
<1>5. CASE TakeRoot
  <2>1. /\ mainPc = "join" /\ joined = Len(Handles)
        /\ IF channel["proofs"] = <<>>
           THEN mainPc' = "panic" /\ UNCHANGED <<root, channel>>
           ELSE /\ mainPc' = "returned"
                /\ root' = <<Head(channel["proofs"])>>
                /\ channel' = [channel EXCEPT !["proofs"] = Tail(@)]
        /\ UNCHANGED <<sizes, pc, held, turn, tree, joined, result, faults>>
    BY <1>5 DEF TakeRoot
  <2>2. Handles' = Handles
    BY DEF Handles
  <2>3. root = <<>> /\ Len(root) = 0
    BY <1>2, <2>1 DEF Taken
  <2>4. pc[TreeThread] = "ok" /\ (\A p \in ToSet(Provers) : pc[p] \in {"ok", "err"})
    <3>1. Inputs(f)
      BY <1>1 DEF TreeOf
    <3> QED
      BY <1>1, <2>1, <3>1, JoinedAll DEF Inputs
  <2>5. UNCHANGED <<sizes, pc, held, turn, tree, faults>>
    BY <2>1
  <2>6. CASE channel["proofs"] = <<>>
    <3>1. UNCHANGED <<sizes, pc, held, channel, turn, tree, faults, root>> /\ mainPc' = "panic"
      BY <2>1, <2>6
    <3>2. /\ Used' = Used /\ Contents(f, "proofs")' /\ Taken(f)' /\ Stops(f)'
          /\ channel'["input"] = channel["input"] /\ channel'["traces"] = channel["traces"]
      BY <1>3, <2>1, <3>1
    <3>3. Typed'
      BY <1>1, <2>1, <2>2, <3>1 DEF Typed, sizes, tree
    <3>4. Main'
      BY <1>1, <2>1, <2>2, <3>1 DEF Main
    <3>5. ~ (faults = 0 /\ deferreds = committed)
      BY <2>1, <2>6, RootIsThere
    <3> QED
      BY <2>5, <3>2, <3>3, <3>4, <3>5, MainFrame
  <2>7. CASE channel["proofs"] # <<>>
    <3>1. /\ mainPc' = "returned" /\ root' = <<Head(channel["proofs"])>>
          /\ channel' = [channel EXCEPT !["proofs"] = Tail(@)]
      BY <2>1, <2>7
    <3>2. Sent("proofs")' = Sent("proofs")
      BY <2>1, SentIdle DEF Passing
    <3>3. /\ Contents(f, "proofs")' /\ Received("proofs")' = Received("proofs") + 1
          /\ Head(channel["proofs"]) = Form(f, "proofs", Received("proofs"))
          /\ Head(channel["proofs"]) \in Items /\ channel' \in [Channels -> Seq(Items)]
      BY <1>1, <1>2, <2>7, <3>1, <3>2, ChannelReceive DEF Counted
    <3>4. f[Used].height = ExpectedHeight /\ batch = <<>> /\ Len(batch) = 0
      BY <1>2, <2>4, <2>7 DEF Stops
    <3>5. Received("proofs") = Used /\ Used \in Nat
      BY <1>1, <2>3, <3>4 DEF Ordered
    <3>6. /\ root' \in Seq(Items) /\ Len(root') = 1 /\ root'[1] = Proved(f[Used])
          /\ root' # <<>>
      <4>1. Head(channel["proofs"]) = Proved(f[Used])
        BY <3>3, <3>5 DEF Form
      <4> QED
        BY <3>1, <3>3, <4>1
    <3>7. Used' = Used
      <4>1. batch' = batch
        BY <2>1 DEF tree
      <4> QED
        BY <3>3, <3>4, <3>5, <3>6, <4>1 DEF Used
    <3>8. Taken(f)'
      <4>1. \A x : Proved(x)' = Proved(x)
        BY DEF Proved, Aggregate
      <4>2. \A k \in 1 .. Len(root') : k = 1
        BY <3>6
      <4>3. batch' = <<>> /\ Len(batch') = 0 /\ \A k \in 1 .. Len(batch') : FALSE
        BY <2>1, <3>4 DEF tree
      <4>4. Len(batch') <= 1 /\ Len(root') <= 1
        BY <3>6, <4>3
      <4> QED
        BY <3>1, <3>6, <3>7, <4>1, <4>2, <4>3, <4>4 DEF Taken
    <3>9. Stops(f)'
      <4>1. ExpectedHeight' = ExpectedHeight
        BY <2>1 DEF ExpectedHeight, NumLeaves, sizes
      <4> QED
        BY <2>1, <2>4, <3>4, <3>7, <4>1 DEF Stops, tree
    <3>10. Typed'
      BY <1>1, <2>1, <2>2, <3>1, <3>3, <3>6 DEF Typed, sizes, tree
    <3>11. Main'
      BY <1>1, <2>1, <2>2, <3>1, <3>6 DEF Main
    <3>12. channel'["input"] = channel["input"] /\ channel'["traces"] = channel["traces"]
      BY <1>1, <3>1 DEF Typed, Counted
    <3> QED
      BY <2>5, <3>1, <3>3, <3>7, <3>8, <3>9, <3>10, <3>11, <3>12, MainFrame
  <2> QED
    BY <2>6, <2>7
<1>6. CASE ScopeEnds
  <2>1. /\ \A t \in Threads : pc[t] \in Ended
        /\ result' = IF mainPc = "returned" /\ \A t \in Threads : pc[t] # "panic"
                     THEN "ok" ELSE "panic"
        /\ UNCHANGED <<sizes, pc, held, channel, turn, tree, joined, mainPc, root, faults>>
    BY <1>6 DEF ScopeEnds
  <2>2. Handles' = Handles
    BY DEF Handles
  <2>3. /\ Used' = Used /\ Contents(f, "proofs")' /\ Taken(f)' /\ Stops(f)'
        /\ channel'["input"] = channel["input"] /\ channel'["traces"] = channel["traces"]
    BY <1>3, <2>1
  <2>4. result' \in {"ok", "panic"} /\ (result' = "ok" =>
           mainPc = "returned" /\ \A t \in Threads : pc[t] \in {"ok", "err"})
    BY <2>1 DEF Ended
  <2>5. Typed'
    BY <1>1, <2>1, <2>2, <2>4 DEF Typed, sizes, tree
  <2>6. Main'
    BY <1>1, <2>1, <2>2, <2>4 DEF Main
  <2>7. UNCHANGED <<sizes, pc, held, turn, tree, faults>> /\ mainPc' = mainPc
    BY <2>1
  <2>8. faults = 0 /\ deferreds = committed => mainPc' # "panic"
    BY <1>1, <2>7 DEF Healthy
  <2> QED
    BY <2>3, <2>5, <2>6, <2>7, <2>8, MainFrame
<1> QED
  BY <1>4, <1>5, <1>6 DEF MainStep

-----------------------------------------------------------------------------
(* The invariant. *)

\* At the start the table holds the leaves, and none of them has been sent.
LEMMA InitSound ==
  ASSUME Init
  PROVE  \E f : Sound(f)
<1>1. PICK f : f = [i \in Nat |-> IF i \in 0 .. NumLeaves - 1 THEN LeafInput(i) ELSE NoItem]
  OBVIOUS
<1>2. /\ shards \in Nat \ {0} /\ deferreds \in Nat /\ committed \in Nat
      /\ NumLeaves \in Nat \ {0}
  BY CompressAssumption DEF Init, NumLeaves
<1>3. /\ pc = [t \in Threads |->
                  CASE t = LeafSender -> "send"
                    [] t = TreeThread /\ ExpectedHeight = 0 -> "ok"
                    [] OTHER -> "recv"]
      /\ held = [t \in Threads |-> IF t = LeafSender THEN LeafInput(0) ELSE NoItem]
      /\ channel = [c \in Channels |-> <<>>]
      /\ turn = [c \in Channels |-> 0]
      /\ batch = <<>> /\ count = NumLeaves
      /\ joined = 0 /\ mainPc = "join" /\ root = <<>>
      /\ faults = 0 /\ result = "running"
  BY DEF Init
<1>4. LeafInput(0) \in Items /\ \A i \in 0 .. NumLeaves - 1 : LeafInput(i) \in Items
  <2>1. CoreRange(0) \in Ranges /\ \A i \in 0 .. NumLeaves - 1 :
           (IF i < shards THEN CoreRange(i) ELSE DeferredRange(i - shards)) \in Ranges
    BY <1>2 DEF CoreRange, DeferredRange, Ranges
  <2>2. ASSUME NEW i \in 0 .. NumLeaves - 1
        PROVE  LeafInput(i) \in Items
    <3> DEFINE r == IF i < shards THEN CoreRange(i) ELSE DeferredRange(i - shards)
               c == i < shards /\ CoreIsComplete
    <3>1. r \in Ranges /\ c \in BOOLEAN /\ i \in Nat
      BY <1>2, <2>1 DEF CoreIsComplete
    <3>2. LeafInput(i) = [index |-> i, height |-> 0, proofs |-> <<r>>, complete |-> c]
      BY DEF LeafInput
    <3> HIDE DEF r, c
    <3>3. <<r>> \in Seq(Ranges)
      BY <3>1
    <3> QED
      BY <3>1, <3>2, <3>3 DEF Items
  <2> QED
    BY <1>2, <2>2
<1>5. Typed
  <2>1. pc \in [Threads -> PCs]
    BY <1>3 DEF PCs, Ended
  <2>2. held \in [Threads -> Items]
    BY <1>3, <1>4, ItemTypes
  <2>3. channel \in [Channels -> Seq(Items)] /\ turn \in [Channels -> Nat]
    <3>1. <<>> \in Seq(Items)
      OBVIOUS
    <3> QED
      BY <1>3, <3>1
  <2>4. joined \in 0 .. Len(Handles)
    BY <1>3, HandlesAreThreads
  <2> QED
    BY <1>2, <1>3, <2>1, <2>2, <2>3, <2>4 DEF Typed
<1>6. f \in [Nat -> Items] /\ \A i \in 0 .. NumLeaves - 1 : f[i] = LeafInput(i)
  BY <1>1, <1>2, <1>4, ItemTypes
<1>7. /\ pc[LeafSender] = "send" /\ held[LeafSender] = LeafInput(0)
      /\ pc[TreeThread] = (IF ExpectedHeight = 0 THEN "ok" ELSE "recv")
      /\ held[TreeThread] = NoItem
      /\ \A t \in Workers \cup ToSet(Provers) : pc[t] = "recv" /\ held[t] = NoItem
  BY <1>3, Plan
<1>8. \A t \in Threads : ~ Passing(t) /\ pc[t] \notin {"err", "panic"}
  BY <1>3 DEF Passing
<1>9. \A c \in Channels : Sent(c) = 0 /\ Received(c) = 0 /\ Len(channel[c]) = 0
  <2>1. \A c \in Channels : Senders(c) \subseteq Threads
    BY Plan DEF Channels
  <2>2. \A c \in Channels : turn[c] = 0 /\ Len(channel[c]) = 0
    BY <1>3
  <2> QED
    BY <1>8, <2>1, <2>2 DEF Sent, Received
<1>10. Made = NumLeaves /\ Used = 0
  <2>1. "proofs" \in Channels /\ Len(batch) = 0 /\ Len(root) = 0
    BY <1>3 DEF Channels
  <2> QED
    BY <1>2, <1>3, <1>7, <1>9, <2>1 DEF Made, Used
<1>11. \A i \in 0 .. NumLeaves - 1 :
         /\ f[i].index = i /\ f[i].height = 0 /\ Len(f[i].proofs) = 1
         /\ f[i].complete <=> ExpectedHeight = 0
         /\ Aggregate(f[i]) = IF i < shards THEN CoreRange(i) ELSE DeferredRange(i - shards)
  BY <1>5, <1>6, LeafItem
<1>12. /\ Starts(f[0]) /\ Finishes(f[NumLeaves - 1])
       /\ \A i \in 0 .. NumLeaves - 2 : Follows(f[i], f[i + 1])
  <2>0. NumLeaves = shards + deferreds
    BY DEF NumLeaves
  <2>1. Starts(f[0])
    <3>1. 0 \in 0 .. NumLeaves - 1 /\ 0 < shards
      BY <1>2
    <3>2. Aggregate(f[0]) = CoreRange(0)
      BY <1>11, <3>1
    <3> QED
      BY <3>2 DEF Starts, CoreRange
  <2>2. Finishes(f[NumLeaves - 1])
    <3>1. NumLeaves - 1 \in 0 .. NumLeaves - 1
      BY <1>2
    <3>2. CASE deferreds = 0
      <4>1. Aggregate(f[NumLeaves - 1]) = CoreRange(shards - 1)
        BY <1>2, <1>11, <2>0, <3>1, <3>2
      <4> QED
        BY <1>2, <3>2, <4>1 DEF Finishes, CoreRange
    <3>3. CASE deferreds # 0
      <4>1. ~ (NumLeaves - 1 < shards) /\ (NumLeaves - 1) - shards = deferreds - 1
        BY <1>2, <2>0, <3>3
      <4>2. Aggregate(f[NumLeaves - 1]) = DeferredRange(deferreds - 1)
        BY <1>11, <3>1, <4>1
      <4> QED
        BY <1>2, <4>2 DEF Finishes, DeferredRange
    <3> QED
      BY <3>2, <3>3
  <2>3. ASSUME NEW i \in 0 .. NumLeaves - 2 PROVE Follows(f[i], f[i + 1])
    <3>1. i \in 0 .. NumLeaves - 1 /\ i + 1 \in 0 .. NumLeaves - 1 /\ i \in Nat
      BY <1>2
    <3>2. \A k \in 0 .. NumLeaves - 1 :
             /\ k < shards => Aggregate(f[k]) = CoreRange(k)
             /\ ~ (k < shards) => Aggregate(f[k]) = DeferredRange(k - shards)
      BY <1>11
    <3>3. CASE i + 1 < shards
      <4>1. Aggregate(f[i]) = CoreRange(i) /\ Aggregate(f[i + 1]) = CoreRange(i + 1)
        BY <1>2, <3>1, <3>2, <3>3
      <4> QED
        BY <3>1, <4>1 DEF Follows, Adjacent, CoreRange
    <3>4. CASE i + 1 = shards
      <4>1. Aggregate(f[i]) = CoreRange(i) /\ Aggregate(f[i + 1]) = DeferredRange(0)
        <5>1. i < shards /\ ~ (i + 1 < shards) /\ (i + 1) - shards = 0
          BY <1>2, <3>1, <3>4
        <5> QED
          BY <3>1, <3>2, <5>1
      <4> QED
        BY <3>1, <3>4, <4>1 DEF Follows, Adjacent, CoreRange, DeferredRange
    <3>5. CASE i + 1 > shards
      <4>1. /\ Aggregate(f[i]) = DeferredRange(i - shards)
            /\ Aggregate(f[i + 1]) = DeferredRange((i - shards) + 1)
        <5>1. ~ (i < shards) /\ ~ (i + 1 < shards) /\ (i + 1) - shards = (i - shards) + 1
          BY <1>2, <3>1, <3>5
        <5> QED
          BY <3>1, <3>2, <5>1
      <4> QED
        BY <1>2, <3>1, <4>1 DEF Follows, Adjacent, DeferredRange
    <3> QED
      BY <1>2, <3>1, <3>3, <3>4, <3>5
  <2> QED
    BY <2>1, <2>2, <2>3
<1>13. Table(f)
  <2>1. \A i \in 0 .. NumLeaves - 2 : i \in 0 .. NumLeaves - 1 /\ i + 1 \in 0 .. NumLeaves - 1
    BY <1>2
  <2>2. \A i \in 0 .. NumLeaves - 2 : f[i + 1].height = f[i].height
    BY <1>11, <2>1
  <2> QED
    BY <1>6, <1>10, <1>11, <1>12, <2>2 DEF Table
<1>14. Frontier(f)
  <2>1. Layers(f, NumLeaves)
    <3>1. f[Used].height = 0 /\ \A i \in Used .. NumLeaves - 1 : f[i].height = 0
      BY <1>2, <1>10, <1>11
    <3>2. (NumLeaves - Used) + 2 * (Made - NumLeaves) = NumLeaves
      BY <1>2, <1>10
    <3>3. Levels(NumLeaves) = ExpectedHeight /\ Levels(NumLeaves) \in Nat
      BY <1>2, LevelsDef DEF Levels, ExpectedHeight
    <3>4. f[Used].height + Levels((NumLeaves - Used) + 2 * (Made - NumLeaves)) = ExpectedHeight
      BY <3>1, <3>2, <3>3
    <3>5. \A i \in NumLeaves .. Made - 1 : f[i].height = f[Used].height + 1
      BY <1>2, <1>10
    <3> QED
      BY <1>10, <1>12, <3>1, <3>4, <3>5 DEF Layers
  <2>2. NumLeaves \in Used + 1 .. Made /\ Used \in Nat /\ Made \in Nat /\ NumLeaves <= count
    BY <1>2, <1>3, <1>10
  <2> QED
    BY <2>1, <2>2 DEF Frontier
<1>15. Taken(f) /\ \A c \in Channels : Contents(f, c)
  <2>1. Len(batch) = 0 /\ Len(root) = 0 /\ \A k \in 1 .. 0 : FALSE
    BY <1>3
  <2> QED
    BY <1>3, <1>9, <2>1 DEF Taken, Contents
<1>16. Crew(f, Workers, "input", "traces") /\ Crew(f, ToSet(Provers), "traces", "proofs")
  <2>1. /\ Sent("traces") = 0 /\ Sent("proofs") = 0 /\ Received("input") = 0
        /\ Received("traces") = 0
    BY <1>9 DEF Channels
  <2>2. \A t \in Workers \cup ToSet(Provers) : ~ Holds(t) /\ ~ Passing(t)
    BY <1>7 DEF Holds, Passing
  <2>3. ~ \E i \in 0 .. 0 - 1 : TRUE
    OBVIOUS
  <2> QED
    BY <1>7, <2>1, <2>2, <2>3 DEF Crew
<1>17. Inputs(f)
  <2>1. turn["input"] = 0
    BY <1>3 DEF Channels
  <2> QED
    BY <1>2, <1>3, <1>7, <2>1 DEF Inputs, Passing
<1>18. Stops(f)
  <2>1. f[Used].height = 0
    BY <1>2, <1>10, <1>11
  <2> QED
    BY <1>3, <1>7, <2>1 DEF Stops
<1>19. Accepted(f)
  <2>1. Sent("traces") = 0 /\ ~ \E i \in 0 .. 0 - 1 : TRUE
    BY <1>9 DEF Channels
  <2> QED
    BY <1>7, <2>1 DEF Accepted
<1>20. Main /\ Healthy
  <2>1. Main
    BY <1>3 DEF Main
  <2> QED
    BY <1>3, <1>7, <1>8, <2>1 DEF Healthy
<1> QED
  BY <1>5, <1>6, <1>13, <1>14, <1>15, <1>16, <1>17, <1>18, <1>19, <1>20 DEF Sound, TreeOf

\* A step that changes nothing is sound.
LEMMA StutterSound ==
  ASSUME NEW f, Sound(f), UNCHANGED vars
  PROVE  Sound(f)'
<1> USE DEF vars, sizes, tree, main
<1>1. Typed /\ Main /\ Healthy /\ TreeOf(f) /\ Counted
  BY Counters DEF Sound
<1>2. Typed' /\ Main'
  BY <1>1 DEF Typed, Main, Handles
<1>3. Sent("proofs")' = Sent("proofs")
  BY SentIdle DEF Passing
<1>4. Contents(f, "proofs")' /\ Received("proofs")' = Received("proofs")
  BY <1>1, <1>3, ChannelIdle DEF Counted, TreeOf
<1>5. Used' = Used
  BY <1>4 DEF Used
<1>6. Taken(f)' /\ Stops(f)'
  <2>1. Taken(f) /\ Stops(f)
    BY <1>1 DEF TreeOf
  <2>2. \A x : Proved(x)' = Proved(x)
    BY DEF Proved, Aggregate
  <2>3. Taken(f)'
    BY <1>5, <2>1, <2>2 DEF Taken
  <2>4. Stops(f)'
    BY <1>5, <2>1 DEF Stops, NoSender, Senders, ExpectedHeight, NumLeaves
  <2> QED
    BY <2>3, <2>4
<1>7. faults = 0 /\ deferreds = committed => mainPc' # "panic"
  BY <1>1 DEF Healthy
<1> QED
  BY <1>2, <1>4, <1>5, <1>6, <1>7, MainFrame

\* IInv is an invariant of compress: whatever the numbers of workers, provers, shards
\* and deferred proofs, the proofs in flight are a row of the tree in which each item is
\* held exactly once, and each channel carries its part of the row in the order of
\* the turn counters.
THEOREM CompressInvariant == Spec => []IInv
<1>1. Init => IInv
  BY InitSound DEF IInv
<1>2. IInv /\ [Next]_vars => IInv'
  <2>1. SUFFICES ASSUME IInv, [Next]_vars PROVE IInv'
    OBVIOUS
  <2>2. PICK f : Sound(f)
    BY <2>1 DEF IInv
  <2>3. CASE LeafStep
    BY <2>2, <2>3, LeafStepSound DEF IInv
  <2>4. CASE TreeStep
    BY <2>2, <2>4, TreeStepSound DEF IInv
  <2>5. CASE MainStep
    BY <2>2, <2>5, MainStepSound DEF IInv
  <2>6. CASE \/ \E w \in Workers : WorkerStep(w) \/ WorkerFails(w)
             \/ \E p \in ToSet(Provers) : LoopStep(p) \/ ProverFails(p)
    BY <2>2, <2>6, CrewStepSound DEF IInv
  <2>7. CASE UNCHANGED vars
    BY <2>2, <2>7, StutterSound DEF IInv
  <2> QED
    BY <2>1, <2>3, <2>4, <2>5, <2>6, <2>7 DEF Next
<1> QED
  BY <1>1, <1>2, PTL DEF Spec

-----------------------------------------------------------------------------
(* What follows from the invariant. *)

\* When compress returns Ok main has the proof of the root.
LEMMA OkHasRoot ==
  ASSUME NEW f, Sound(f), result = "ok"
  PROVE  /\ root[1] = Proved(f[Used]) /\ f[Used].height = ExpectedHeight
         /\ Used = Made - 1 /\ Used \in 0 .. Made - 1 /\ Used < Sent("traces")
         /\ Starts(f[Used]) /\ Finishes(f[Used])
         /\ \A t \in Threads : pc[t] \in {"ok", "err"}
<1>1. Typed /\ Main /\ TreeOf(f) /\ Counted /\ Ordered
  BY Order DEF Sound
<1>2. /\ mainPc = "returned" /\ root # <<>>
      /\ \A t \in Threads : pc[t] \in {"ok", "err"}
  BY <1>1 DEF Main
<1>3. Taken(f) /\ Stops(f) /\ Inputs(f) /\ Frontier(f) /\ f \in [Nat -> Items]
  BY <1>1 DEF TreeOf
<1>4. pc[TreeThread] = "ok"
  BY <1>2, <1>3, Plan DEF Inputs
<1>5. f[Used].height = ExpectedHeight
  BY <1>2, <1>3, <1>4 DEF Stops
<1>6. Used \in Used .. Made - 1 /\ Used \in 0 .. Made - 1
  BY <1>1 DEF Ordered
<1>7. Used = Made - 1 /\ Starts(f[Used]) /\ Finishes(f[Used])
  BY <1>1, <1>3, <1>5, <1>6, RootItem
<1>8. Len(root) = 1
  <2>1. root \in Seq(Items) /\ Len(root) <= 1
    BY <1>1, <1>3 DEF Typed, Taken
  <2>2. Len(root) \in Nat \ {0}
    BY <1>2, <2>1, EmptySeq
  <2>3. \A n \in Nat \ {0} : n <= 1 => n = 1
    OBVIOUS
  <2> QED
    BY <2>1, <2>2, <2>3
<1>9. root[1] = Proved(f[Used])
  BY <1>3, <1>8 DEF Taken
<1>10. Used < Sent("traces")
  <2>1. Len(batch) \in Nat
    BY <1>1 DEF Counted
  <2> QED
    BY <1>1, <1>8, <2>1 DEF Ordered
<1> QED
  BY <1>2, <1>5, <1>6, <1>7, <1>9, <1>10

\* compress returns Ok only with a complete proof of all shards, and of all the
\* deferred proofs the program has committed to.
THEOREM OkIsComplete == Spec => []OkIsRoot
<1>1. IInv => OkIsRoot
  <2>1. SUFFICES ASSUME NEW f, Sound(f), result = "ok"
                 PROVE  /\ root[1].complete
                        /\ CompleteRange(Aggregate(root[1]))
                        /\ deferreds = committed
    BY DEF IInv, OkIsRoot
  <2>2. Typed /\ TreeOf(f) /\ Table(f) /\ f \in [Nat -> Items] /\ Ordered
    BY <2>1, Order DEF Sound, TreeOf
  <2>3. /\ root[1] = Proved(f[Used]) /\ f[Used].height = ExpectedHeight
        /\ Used \in 0 .. Made - 1 /\ Used < Sent("traces")
        /\ Starts(f[Used]) /\ Finishes(f[Used])
    BY <2>1, OkHasRoot
  <2>4. /\ Proved(f[Used]).complete = f[Used].complete
        /\ Aggregate(Proved(f[Used])) = Aggregate(f[Used])
    BY <2>2, <2>3, TableItem
  <2>5. f[Used].complete
    BY <2>2, <2>3 DEF Table
  <2>6. Accepts(f[Used])
    <3>1. Used \in 0 .. Sent("traces") - 1
      BY <2>2, <2>3 DEF Ordered
    <3> QED
      BY <2>2, <3>1 DEF TreeOf, Accepted
  <2>7. CompleteRange(Aggregate(f[Used]))
    BY <2>5, <2>6 DEF Accepts
  <2>8. deferreds = committed
    BY <2>3, <2>7 DEF Finishes, CompleteRange
  <2> QED
    BY <2>3, <2>4, <2>5, <2>7, <2>8
<1> QED
  BY <1>1, CompressInvariant, PTL

\* After a failure compress does not return Ok, although the errors of the workers
\* are thrown away: the input that was lost with the thread cannot be in the root.
THEOREM FailureIsFatal == Spec => []FailureIsNotOk
<1>1. IInv => FailureIsNotOk
  <2>1. SUFFICES ASSUME NEW f, Sound(f), faults > 0, result = "ok"
                 PROVE  FALSE
    BY DEF IInv, FailureIsNotOk
  <2>2. Main /\ TreeOf(f) /\ Ordered /\ Counted
    BY <2>1, Order DEF Sound
  <2>3. Used = Made - 1 /\ Used < Sent("traces") /\ \A t \in Threads : pc[t] \in {"ok", "err"}
    BY <2>1, OkHasRoot
  <2>4. PICK t \in Workers \cup ToSet(Provers) : pc[t] = "err"
    BY <2>1, <2>2, <2>3, Plan DEF Main
  <2>5. t \in Workers /\ Holds(t)
    BY <2>2, <2>4 DEF TreeOf, Crew, Holds
  <2>6. held[t].index \in Sent("traces") .. Received("input") - 1
    BY <2>2, <2>5 DEF TreeOf, Crew
  <2> QED
    BY <2>2, <2>3, <2>6 DEF Ordered
<1> QED
  BY <1>1, CompressInvariant, PTL

\* Without a failure, and with the deferred proofs the program has committed to, no
\* thread panics: the recursion programs accept every input, and nobody is left
\* without a receiver.
THEOREM HealthyRunsAccept == Spec => []HealthyRunAccepts
<1>1. IInv => HealthyRunAccepts
  BY DEF IInv, Sound, Healthy, HealthyRunAccepts
<1> QED
  BY <1>1, CompressInvariant, PTL

-----------------------------------------------------------------------------
(* The row of the tree that is in flight. *)

\* What is in flight under index i: a proof once a worker has sent it on, an input
\* until a worker has taken it, and in between what that worker holds.
InFlight(f, i) ==
    IF i < Sent("traces") THEN Proved(f[i])
    ELSE IF i < Received("input")
         THEN held[CHOOSE w \in Workers : Holds(w) /\ held[w].index = i]
         ELSE f[i]

\* The worker between the two is unique.
LEMMA WorkerAt ==
  ASSUME NEW f, Sound(f), NEW i \in Sent("traces") .. Received("input") - 1
  PROVE  /\ \E w \in Workers : Holds(w) /\ held[w].index = i
         /\ \A w \in Workers : Holds(w) /\ held[w].index = i =>
               /\ InFlight(f, i) = held[w]
               /\ held[w] \in {f[i], Proved(f[i])}
<1>1. Crew(f, Workers, "input", "traces") /\ Ordered
  BY Order DEF Sound, TreeOf
<1>2. /\ \E w \in Workers : Holds(w) /\ held[w].index = i
      /\ \A w, v \in Workers :
            Holds(w) /\ Holds(v) /\ held[w].index = i /\ held[v].index = i => w = v
      /\ \A w \in Workers : Holds(w) => held[w] \in {f[held[w].index], Proved(f[held[w].index])}
  BY <1>1 DEF Crew
<1>3. ~ (i < Sent("traces")) /\ i < Received("input")
  BY <1>1 DEF Ordered
<1>4. InFlight(f, i) = held[CHOOSE w \in Workers : Holds(w) /\ held[w].index = i]
  BY <1>3 DEF InFlight
<1>5. ASSUME NEW w \in Workers, Holds(w), held[w].index = i
      PROVE  (CHOOSE v \in Workers : Holds(v) /\ held[v].index = i) = w
  BY <1>2, <1>5
<1> QED
  BY <1>2, <1>4, <1>5

\* An item in flight has the index, the height and the values of its input.
LEMMA InFlightItem ==
  ASSUME NEW f, Sound(f), NEW i \in Used .. Made - 1
  PROVE  /\ InFlight(f, i).index = i /\ InFlight(f, i).height = f[i].height
         /\ Aggregate(InFlight(f, i)) = Aggregate(f[i]) /\ InFlight(f, i) # NoItem
         /\ InFlight(f, i) \in {f[i], Proved(f[i])}
<1>1. Typed /\ TreeOf(f) /\ Table(f) /\ f \in [Nat -> Items] /\ Ordered
  BY Order DEF Sound, TreeOf
<1>2. i \in 0 .. Made - 1
  BY <1>1 DEF Ordered
<1>3. /\ f[i].index = i /\ Proved(f[i]).index = i
      /\ Proved(f[i]).height = f[i].height
      /\ Aggregate(Proved(f[i])) = Aggregate(f[i])
      /\ f[i] # NoItem /\ Proved(f[i]) # NoItem
  BY <1>1, <1>2, TableItem
<1>4. InFlight(f, i) \in {f[i], Proved(f[i])}
  <2>1. CASE i < Sent("traces")
    BY <2>1 DEF InFlight
  <2>2. CASE ~ (i < Sent("traces")) /\ i < Received("input")
    <3>1. i \in Sent("traces") .. Received("input") - 1
      BY <1>1, <2>2 DEF Ordered
    <3> QED
      BY <3>1, WorkerAt
  <2>3. CASE ~ (i < Sent("traces")) /\ ~ (i < Received("input"))
    BY <2>3 DEF InFlight
  <2> QED
    BY <2>1, <2>2, <2>3
<1> QED
  BY <1>3, <1>4

\* The elements of a sequence.
LEMMA InSequence ==
  ASSUME NEW S, NEW s \in Seq(S)
  PROVE  \A x : x \in ToSet(s) <=> \E k \in 1 .. Len(s) : x = s[k]
BY DEF ToSet

\* Where an item stands in its channel.
LEMMA Position ==
  ASSUME NEW r \in Int, NEW s \in Nat, NEW n \in Nat, r = s - n
  PROVE  /\ \A k \in 1 .. n : r + k - 1 \in r .. s - 1
         /\ \A i \in r .. s - 1 : \E k \in 1 .. n : r + k - 1 = i
<1>1. ASSUME NEW i \in r .. s - 1
      PROVE  \E k \in 1 .. n : r + k - 1 = i
  <2>1. (i - r) + 1 \in 1 .. n /\ r + ((i - r) + 1) - 1 = i
    OBVIOUS
  <2> QED
    BY <2>1
<1> QED
  BY <1>1

\* Everything that is pending, place by place.
LEMMA PendingParts ==
  \A x : x \in Pending <=>
     \/ x \in {LeafInput(i) : i \in turn["input"] + 1 .. NumLeaves - 1}
     \/ x \in UNION {ToSet(channel[c]) : c \in Channels}
     \/ x \in ToSet(batch) \/ x \in ToSet(root)
     \/ \E t \in Threads : held[t] # NoItem /\ x = held[t]
<1>1. \A x : x \in {held[t] : t \in {u \in Threads : held[u] # NoItem}} <=>
              \E t \in Threads : held[t] # NoItem /\ x = held[t]
  OBVIOUS
<1> DEFINE A == {LeafInput(i) : i \in turn["input"] + 1 .. NumLeaves - 1}
           B == UNION {ToSet(channel[c]) : c \in Channels}
           C == {held[t] : t \in {u \in Threads : held[u] # NoItem}}
<1>2. Pending = A \cup B \cup ToSet(batch) \cup ToSet(root) \cup C
  BY DEF Pending
<1> HIDE DEF A, B, C
<1>3. \A x : x \in Pending <=>
            x \in A \/ x \in B \/ x \in ToSet(batch) \/ x \in ToSet(root) \/ x \in C
  BY <1>2
<1> QED
  BY <1>1, <1>3, Zenon DEF A, B, C

\* Everything pending is in flight under one of the indices that are not used.
LEMMA PendingInRow ==
  ASSUME NEW f, Sound(f), NEW x \in Pending
  PROVE  \E i \in Used .. Made - 1 : x = InFlight(f, i)
<1>1. Typed /\ TreeOf(f) /\ Counted /\ Ordered
  BY Order DEF Sound
<1>2. /\ Inputs(f) /\ Table(f) /\ Taken(f) /\ NumLeaves <= count /\ NumLeaves \in Nat \ {0}
      /\ count \in Nat /\ turn["input"] \in Nat /\ count <= Made
  BY <1>1 DEF TreeOf, Frontier, Typed, Counted, Made
<1>3. \A i \in Sent("input") .. Made - 1 : i \in Used .. Made - 1 /\ InFlight(f, i) = f[i]
  <2>1. \A i \in Sent("input") .. Made - 1 :
           i \in Used .. Made - 1 /\ ~ (i < Sent("traces")) /\ ~ (i < Received("input"))
    BY <1>1 DEF Ordered
  <2> QED
    BY <2>1 DEF InFlight
<1>4. \A i \in Used .. Sent("traces") - 1 : i \in Used .. Made - 1 /\ InFlight(f, i) = Proved(f[i])
  <2>1. \A i \in Used .. Sent("traces") - 1 : i \in Used .. Made - 1 /\ i < Sent("traces")
    BY <1>1 DEF Ordered
  <2> QED
    BY <2>1 DEF InFlight
<1>5. CASE x \in {LeafInput(i) : i \in turn["input"] + 1 .. NumLeaves - 1}
  <2>1. PICK i \in turn["input"] + 1 .. NumLeaves - 1 : x = LeafInput(i)
    BY <1>5
  <2>2. Sent("input") <= turn["input"] + 1 /\ Sent("input") \in Nat
    BY <1>1, <1>2, SentInput DEF Ordered
  <2>3. i \in Sent("input") .. Made - 1 /\ i \in 0 .. NumLeaves - 1
    BY <1>1, <1>2, <2>2 DEF Ordered
  <2> QED
    BY <1>2, <1>3, <2>1, <2>3 DEF Table
<1>6. CASE x \in UNION {ToSet(channel[c]) : c \in Channels}
  <2>1. PICK c \in Channels : x \in ToSet(channel[c])
    BY <1>6
  <2>2. channel[c] \in Seq(Items) /\ Contents(f, c)
    BY <1>1 DEF Typed, TreeOf
  <2>3. PICK k \in 1 .. Len(channel[c]) : x = channel[c][k]
    BY <2>1, <2>2, InSequence
  <2> DEFINE i == Received(c) + k - 1
  <2>4. x = Form(f, c, i)
    BY <2>2, <2>3 DEF Contents
  <2>p. i \in Received(c) .. Sent(c) - 1
    BY <1>1, <2>3, Position DEF Counted
  <2>5. CASE c = "input"
    <3>1. i \in Received("input") .. Sent("input") - 1
      BY <2>5, <2>p
    <3> HIDE DEF i
    <3>2. i \in Used .. Made - 1 /\ ~ (i < Sent("traces")) /\ ~ (i < Received("input"))
      BY <1>1, <3>1 DEF Ordered
    <3> QED
      BY <2>4, <2>5, <3>2 DEF InFlight, Form
  <2>6. CASE c # "input"
    <3>1. i \in Used .. Sent("traces") - 1
      <4>1. CASE c = "traces"
        <5>1. i \in Received("traces") .. Sent("traces") - 1
          BY <2>p, <4>1
        <5> HIDE DEF i
        <5> QED
          BY <1>1, <5>1 DEF Ordered
      <4>2. CASE c = "proofs"
        <5>1. i \in Received("proofs") .. Sent("proofs") - 1
          BY <2>p, <4>2
        <5> HIDE DEF i
        <5> QED
          BY <1>1, <5>1 DEF Ordered
      <4> QED
        BY <2>6, <4>1, <4>2 DEF Channels
    <3> HIDE DEF i
    <3> QED
      BY <1>4, <2>4, <2>6, <3>1 DEF Form
  <2> QED
    BY <2>5, <2>6
<1>7. CASE x \in ToSet(batch) \/ x \in ToSet(root)
  <2>1. batch \in Seq(Items) /\ root \in Seq(Items)
    BY <1>1 DEF Typed
  <2>2. x = Proved(f[Used]) /\ (Len(batch) # 0 \/ Len(root) # 0)
    <3>1. CASE x \in ToSet(batch)
      <4>1. PICK k \in 1 .. Len(batch) : x = batch[k]
        BY <2>1, <3>1, InSequence
      <4> QED
        BY <1>1, <1>2, <4>1 DEF Taken, Counted
    <3>2. CASE x \in ToSet(root)
      <4>1. PICK k \in 1 .. Len(root) : x = root[k]
        BY <2>1, <3>2, InSequence
      <4> QED
        BY <1>1, <1>2, <4>1 DEF Taken, Counted
    <3> QED
      BY <1>7, <3>1, <3>2
  <2>3. Used \in Used .. Sent("traces") - 1
    <3>1. Len(batch) \in Nat /\ Len(root) \in Nat
      BY <1>1 DEF Counted
    <3>2. Used + Len(batch) + Len(root) <= Sent("traces") /\ Used \in Nat /\ Sent("traces") \in Nat
      BY <1>1, <3>1 DEF Ordered
    <3> QED
      BY <2>2, <3>1, <3>2
  <2> QED
    BY <1>4, <2>2, <2>3
<1>8. CASE \E t \in Threads : held[t] # NoItem /\ x = held[t]
  <2>1. PICK t \in Threads : held[t] # NoItem /\ x = held[t]
    BY <1>8
  <2>2. CASE t = LeafSender
    <3>1. pc[LeafSender] \in {"send", "panic"} /\ x = LeafInput(turn["input"])
      BY <1>2, <2>1, <2>2 DEF Inputs
    <3>2. turn["input"] < NumLeaves
      BY <1>2, <3>1 DEF Inputs
    <3>3. ~ Passing(LeafSender) /\ ~ Passing(TreeThread)
      BY <1>2, <3>1, <3>2 DEF Inputs, Passing
    <3>4. Sent("input") = turn["input"]
      BY <1>2, <3>3, SentInput
    <3>5. turn["input"] \in Sent("input") .. Made - 1 /\ turn["input"] \in 0 .. NumLeaves - 1
      BY <1>1, <1>2, <3>2, <3>4 DEF Ordered
    <3> QED
      BY <1>2, <1>3, <3>1, <3>5 DEF Table
  <2>3. CASE t = TreeThread
    <3>1. pc[TreeThread] \in {"send", "panic"} /\ x = f[count]
      BY <1>2, <2>1, <2>3 DEF Inputs
    <3>2. Made = count + 1
      BY <1>2, <3>1 DEF Made
    <3>3. Sent("input") <= count /\ Sent("input") \in Nat
      BY <1>1, <3>1 DEF Ordered
    <3>4. count \in Sent("input") .. Made - 1
      BY <1>2, <3>2, <3>3
    <3> QED
      BY <1>3, <3>1, <3>4
  <2>4. CASE t \in Workers
    <3>1. Holds(t) /\ held[t].index \in Sent("traces") .. Received("input") - 1
      BY <1>1, <2>1, <2>4 DEF TreeOf, Crew
    <3>2. InFlight(f, held[t].index) = held[t]
      BY <2>4, <3>1, WorkerAt
    <3>3. held[t].index \in Used .. Made - 1
      BY <1>1, <3>1 DEF Ordered
    <3> QED
      BY <2>1, <3>2, <3>3
  <2>5. CASE t \in ToSet(Provers)
    <3>1. /\ held[t].index \in Sent("proofs") .. Received("traces") - 1
          /\ held[t] = Proved(f[held[t].index])
      BY <1>1, <2>1, <2>5 DEF TreeOf, Crew
    <3>2. held[t].index \in Used .. Sent("traces") - 1
      BY <1>1, <3>1 DEF Ordered
    <3> QED
      BY <1>4, <2>1, <3>1, <3>2
  <2> QED
    BY <2>2, <2>3, <2>4, <2>5, Plan
<1> QED
  BY <1>5, <1>6, <1>7, <1>8, PendingParts

\* Under each index that is not used something is pending.
LEMMA RowIsPending ==
  ASSUME NEW f, Sound(f), NEW i \in Used .. Made - 1
  PROVE  InFlight(f, i) \in Pending
<1>1. Typed /\ TreeOf(f) /\ Counted /\ Ordered
  BY Order DEF Sound
<1>2. /\ Inputs(f) /\ Table(f) /\ Taken(f) /\ NumLeaves <= count /\ NumLeaves \in Nat \ {0}
      /\ count \in Nat /\ turn["input"] \in Nat /\ f \in [Nat -> Items]
  BY <1>1 DEF TreeOf, Frontier, Typed, Counted, Made
<1>3. i \in Nat /\ i \in 0 .. Made - 1 /\ i < Made
  BY <1>1 DEF Ordered
<1>4. f[i] # NoItem /\ Proved(f[i]) # NoItem
  BY <1>1, <1>2, <1>3, TableItem
<1>5. ASSUME NEW c \in Channels, i \in Received(c) .. Sent(c) - 1, Received(c) \in Nat
      PROVE  Form(f, c, i) \in Pending
  <2>0. /\ Received(c) \in Int /\ Sent(c) \in Nat /\ Len(channel[c]) \in Nat
        /\ Received(c) = Sent(c) - Len(channel[c])
    BY <1>1 DEF Counted
  <2>1. \E k \in 1 .. Len(channel[c]) : Received(c) + k - 1 = i
    BY <1>5, <2>0, Position
  <2>a. PICK k \in 1 .. Len(channel[c]) : Received(c) + k - 1 = i
    BY <2>1
  <2>2. channel[c] \in Seq(Items) /\ Contents(f, c)
    BY <1>1 DEF Typed, TreeOf
  <2>3. channel[c][k] = Form(f, c, i)
    BY <2>a, <2>2 DEF Contents
  <2>4. Form(f, c, i) \in ToSet(channel[c])
    BY <2>2, <2>3, InSequence
  <2> QED
    BY <2>4, PendingParts
<1>6. \A t \in Threads : held[t] # NoItem => held[t] \in Pending
  BY PendingParts
<1>7. CASE i < Received("proofs")
  <2>1. Len(batch) \in Nat /\ Len(root) \in Nat /\ batch \in Seq(Items) /\ root \in Seq(Items)
    BY <1>1 DEF Counted, Typed
  <2>2. Len(batch) <= 1 /\ Len(root) <= 1 /\ (Len(root) # 0 => Len(batch) = 0)
    BY <1>2, <2>1 DEF Taken
  <2>3. Used + Len(batch) + Len(root) = Received("proofs") /\ Used \in Nat /\ Used <= i
    BY <1>1 DEF Ordered
  <2>4. i = Used /\ (Len(batch) = 1 \/ Len(root) = 1)
    <3>1. \A a, b, u, r \in Nat :
             a <= 1 /\ b <= 1 /\ (b # 0 => a = 0) /\ u + a + b = r /\ u <= i /\ i < r =>
                i = u /\ (a = 1 \/ b = 1)
      BY <1>3
    <3>2. Received("proofs") \in Nat
      BY <1>1 DEF Ordered
    <3> QED
      BY <1>7, <2>1, <2>2, <2>3, <3>1, <3>2
  <2>5. InFlight(f, i) = Proved(f[i])
    <3>1. i < Sent("traces")
      BY <1>1, <1>3, <1>7 DEF Ordered
    <3> QED
      BY <3>1 DEF InFlight
  <2>6. CASE Len(batch) = 1
    <3>1. batch[1] = Proved(f[Used]) /\ batch[1] \in ToSet(batch)
      BY <1>2, <2>1, <2>6, InSequence DEF Taken
    <3> QED
      BY <2>4, <2>5, <3>1, PendingParts
  <2>7. CASE Len(root) = 1
    <3>1. root[1] = Proved(f[Used]) /\ root[1] \in ToSet(root)
      BY <1>2, <2>1, <2>7, InSequence DEF Taken
    <3> QED
      BY <2>4, <2>5, <3>1, PendingParts
  <2> QED
    BY <2>4, <2>6, <2>7
<1>8. CASE i \in Received("proofs") .. Sent("proofs") - 1
  <2>1. i < Sent("traces") /\ Received("proofs") \in Nat /\ "proofs" \in Channels
    BY <1>1, <1>8 DEF Ordered, Counted
  <2> QED
    BY <1>5, <1>8, <2>1 DEF InFlight, Form
<1>9. CASE i \in Sent("proofs") .. Received("traces") - 1
  <2>1. PICK p \in ToSet(Provers) : Holds(p) /\ held[p].index = i
    BY <1>1, <1>9 DEF TreeOf, Crew
  <2>2. held[p] = Proved(f[i])
    BY <1>1, <2>1 DEF TreeOf, Crew
  <2>3. i < Sent("traces")
    BY <1>1, <1>9 DEF Ordered
  <2> QED
    BY <1>4, <1>6, <2>2, <2>3, Plan DEF InFlight
<1>10. CASE i \in Received("traces") .. Sent("traces") - 1
  <2>1. i < Sent("traces") /\ Received("traces") \in Nat /\ "traces" \in Channels
    BY <1>1, <1>10 DEF Ordered, Counted
  <2> QED
    BY <1>5, <1>10, <2>1 DEF InFlight, Form
<1>11. CASE i \in Sent("traces") .. Received("input") - 1
  <2>1. PICK w \in Workers : Holds(w) /\ held[w].index = i
    BY <1>11, WorkerAt
  <2>2. InFlight(f, i) = held[w] /\ held[w] \in {f[i], Proved(f[i])}
    BY <1>11, <2>1, WorkerAt
  <2> QED
    BY <1>4, <1>6, <2>2, Plan
<1>12. CASE i \in Received("input") .. Sent("input") - 1
  <2>1. ~ (i < Sent("traces")) /\ ~ (i < Received("input"))
        /\ Received("input") \in Nat /\ "input" \in Channels
    BY <1>1, <1>12 DEF Ordered, Counted
  <2> QED
    BY <1>5, <1>12, <2>1 DEF InFlight, Form
<1>13. CASE i >= Sent("input")
  <2>1. ~ (i < Sent("traces")) /\ ~ (i < Received("input")) /\ Sent("input") \in Nat
    BY <1>1, <1>3, <1>13 DEF Ordered
  <2>2. InFlight(f, i) = f[i]
    BY <2>1 DEF InFlight
  <2>3. Sent("input") >= turn["input"]
    BY <1>2, SentInput
  <2>4. CASE i < NumLeaves
    <3>1. f[i] = LeafInput(i)
      BY <1>2, <1>3, <2>4 DEF Table
    <3>2. turn["input"] < NumLeaves
      BY <1>2, <1>3, <1>13, <2>1, <2>3, <2>4 DEF Inputs
    <3>3. CASE i = turn["input"]
      <4>1. ~ Passing(LeafSender)
        BY <1>2, <1>13, <3>3, SentInput
      <4>2. held[LeafSender] = LeafInput(turn["input"])
        BY <1>2, <3>2, <4>1 DEF Inputs, Passing
      <4> QED
        BY <1>4, <1>6, <2>2, <3>1, <3>3, <4>2, Plan
    <3>4. CASE i # turn["input"]
      <4>1. i \in turn["input"] + 1 .. NumLeaves - 1
        BY <1>2, <1>3, <1>13, <2>1, <2>3, <2>4, <3>4
      <4> QED
        BY <2>2, <3>1, <4>1, PendingParts
    <3> QED
      BY <3>3, <3>4
  <2>5. CASE i >= NumLeaves
    <3>1. i >= count
      BY <1>2, <1>3, <1>13, <2>1, <2>3, <2>5 DEF Inputs
    <3>2. i = count /\ pc[TreeThread] \in {"send", "panic", "advance", "last"}
      BY <1>2, <1>3, <3>1 DEF Made
    <3>3. ~ Passing(TreeThread)
      <4>1. SUFFICES ASSUME Passing(TreeThread) PROVE FALSE
        OBVIOUS
      <4>2. turn["input"] = count /\ Sent("input") = turn["input"] + 1
        BY <1>2, <4>1, SentInput DEF Inputs
      <4> QED
        BY <1>2, <1>13, <3>2, <4>2
    <3>4. held[TreeThread] = f[count]
      BY <1>2, <3>2, <3>3 DEF Inputs, Passing
    <3> QED
      BY <1>4, <1>6, <2>2, <3>2, <3>4, Plan
  <2> QED
    BY <1>2, <1>3, <2>4, <2>5
<1> QED
  BY <1>1, <1>3, <1>7, <1>8, <1>9, <1>10, <1>11, <1>12, <1>13 DEF Ordered

\* The order of a row by index: the part of the next layer, from b on, stands to the
\* left of the rest of this one.
Before(b, i, j) == \/ i >= b /\ j < b
                   \/ i >= b /\ j >= b /\ i < j
                   \/ i < b /\ j < b /\ i < j

\* Before is a total order of the row u .. m - 1, in which i + 1 comes after i,
\* except that the row starts at b and u comes after m - 1.
LEMMA RowOrder ==
  ASSUME NEW u \in Nat, NEW m \in Nat, NEW b \in u + 1 .. m, NEW i \in u .. m - 1
  PROVE  /\ \A j \in u .. m - 1 : i # j => Before(b, i, j) \/ Before(b, j, i)
         /\ ~ Before(b, i, i)
         /\ \A j \in u .. m - 1 : Before(b, i, j) => ~ Before(b, j, i)
         /\ (\A j \in u .. m - 1 : ~ Before(b, i, j)) => i = b - 1
         /\ (\A j \in u .. m - 1 : ~ Before(b, j, i)) =>
               (b < m /\ i = b) \/ (b = m /\ i = u)
         /\ \A j \in u .. m - 1 :
               Before(b, i, j) /\ (\A k \in u .. m - 1 : Before(b, i, k) => ~ Before(b, k, j)) =>
                  \/ j = i + 1 /\ j # b
                  \/ i = m - 1 /\ j = u /\ b < m
<1>1. i \in Nat /\ b \in Nat /\ u < b /\ b <= m /\ u <= i /\ i < m
  OBVIOUS
<1>2. /\ \A j \in u .. m - 1 : i # j => Before(b, i, j) \/ Before(b, j, i)
      /\ ~ Before(b, i, i)
      /\ \A j \in u .. m - 1 : Before(b, i, j) => ~ Before(b, j, i)
  BY <1>1 DEF Before
<1>3. ASSUME \A j \in u .. m - 1 : ~ Before(b, i, j)
      PROVE  i = b - 1
  <2>1. u \in u .. m - 1 /\ (i + 1 < b => i + 1 \in u .. m - 1)
    BY <1>1
  <2>2. ~ Before(b, i, u) /\ (i + 1 < b => ~ Before(b, i, i + 1))
    BY <1>3, <2>1
  <2> QED
    BY <1>1, <2>2 DEF Before
<1>4. ASSUME \A j \in u .. m - 1 : ~ Before(b, j, i)
      PROVE  (b < m /\ i = b) \/ (b = m /\ i = u)
  <2>1. u \in u .. m - 1 /\ (b < m => b \in u .. m - 1)
    BY <1>1
  <2>2. ~ Before(b, u, i) /\ (b < m => ~ Before(b, b, i))
    BY <1>4, <2>1
  <2> QED
    BY <1>1, <2>2 DEF Before
<1>5. ASSUME NEW j \in u .. m - 1, Before(b, i, j),
             \A k \in u .. m - 1 : Before(b, i, k) => ~ Before(b, k, j)
      PROVE  (j = i + 1 /\ j # b) \/ (i = m - 1 /\ j = u /\ b < m)
  <2>1. u \in u .. m - 1 /\ (i + 1 < m => i + 1 \in u .. m - 1) /\ j \in Nat /\ u <= j /\ j < m
    BY <1>1
  <2>2. /\ Before(b, i, u) => ~ Before(b, u, j)
        /\ i + 1 < m => (Before(b, i, i + 1) => ~ Before(b, i + 1, j))
    BY <1>5, <2>1
  <2> QED
    BY <1>1, <1>5, <2>1, <2>2 DEF Before
<1> QED
  BY <1>2, <1>3, <1>4, <1>5

\* A finite set in which every other element is either on the left or on the right of x.
LEMMA TwoSides ==
  ASSUME NEW S, IsFiniteSet(S), NEW x \in S, NEW L, NEW R,
         S = (L \cup R) \cup {x}, L \cap R = {}, x \notin L, x \notin R
  PROVE  Cardinality(L) + Cardinality(R) + 1 = Cardinality(S)
<1>1. IsFiniteSet(L) /\ IsFiniteSet(R)
  <2>1. L \subseteq S /\ R \subseteq S
    OBVIOUS
  <2> QED
    BY <2>1, FS_Subset
<1>2. IsFiniteSet(L \cup R) /\ IsFiniteSet(L \cap R)
  BY <1>1, FS_Union, FS_EmptySet
<1>3. Cardinality(L \cup R) = Cardinality(L) + Cardinality(R) - Cardinality(L \cap R)
  BY <1>1, FS_Union
<1>4. Cardinality(L \cap R) = 0
  BY FS_EmptySet
<1>5. Cardinality(S) = Cardinality(L \cup R) + 1
  <2>1. x \notin L \cup R
    OBVIOUS
  <2> QED
    BY <1>2, <2>1, FS_AddElement
<1>6. Cardinality(L) \in Nat /\ Cardinality(R) \in Nat
  BY <1>1, FS_CardinalityType
<1> QED
  BY <1>3, <1>4, <1>5, <1>6

\* The pending items are the row, and LeftOf orders them as Before orders their indices.
LEMMA PendingRow ==
  ASSUME NEW f, Sound(f), NEW b \in Used + 1 .. Made, Layers(f, b)
  PROVE  /\ \A x : x \in Pending <=> \E i \in Used .. Made - 1 : x = InFlight(f, i)
         /\ IsFiniteSet(Pending)
         /\ \A i, j \in Used .. Made - 1 :
               /\ InFlight(f, i) = InFlight(f, j) => i = j
               /\ LeftOf(InFlight(f, i), InFlight(f, j)) <=> Before(b, i, j)
<1>1. Typed /\ TreeOf(f) /\ Ordered /\ f \in [Nat -> Items]
  BY Order DEF Sound, TreeOf
<1>2. \A x : x \in Pending <=> \E i \in Used .. Made - 1 : x = InFlight(f, i)
  BY PendingInRow, RowIsPending
<1>3. \A i \in Used .. Made - 1 : InFlight(f, i).index = i
  BY InFlightItem
<1>4. IsFiniteSet(Pending)
  <2> DEFINE g == [x \in Pending |-> x.index]
  <2>1. \A x \in Pending : x.index \in Used .. Made - 1 /\ x = InFlight(f, x.index)
    BY <1>2, <1>3
  <2>2. g \in [Pending -> Used .. Made - 1]
    BY <2>1
  <2>3. \A x, y \in Pending : g[x] = g[y] => x = y
    BY <2>1
  <2>4. g \in Injection(Pending, Used .. Made - 1)
    BY <2>2, <2>3 DEF Injection, IsInjective
  <2>5. IsFiniteSet(Used .. Made - 1)
    <3>1. Used \in Int /\ Made - 1 \in Int
      BY <1>1 DEF Ordered
    <3> QED
      BY <3>1, FS_Interval
  <2> HIDE DEF g
  <2> QED
    BY <2>4, <2>5, FS_Injection
<1>5. ASSUME NEW i \in Used .. Made - 1, NEW j \in Used .. Made - 1
      PROVE  LeftOf(InFlight(f, i), InFlight(f, j)) <=> Before(b, i, j)
  <2>1. Used \in Nat /\ Made \in Nat /\ Used < Made /\ i \in Nat /\ j \in Nat /\ b \in Nat
    BY <1>1 DEF Ordered
  <2>2. f[Used].height \in Nat
    BY <1>1, <2>1 DEF Items
  <2>3. \A k \in Used .. Made - 1 :
           InFlight(f, k).height = IF k < b THEN f[Used].height ELSE f[Used].height + 1
    <3>1. ASSUME NEW k \in Used .. Made - 1
          PROVE  InFlight(f, k).height = IF k < b THEN f[Used].height ELSE f[Used].height + 1
      <4>1. InFlight(f, k).height = f[k].height
        BY InFlightItem
      <4>2. k < b => k \in Used .. b - 1
        BY <2>1
      <4>3. ~ (k < b) => k \in b .. Made - 1
        BY <2>1
      <4> QED
        BY <4>1, <4>2, <4>3 DEF Layers
    <3> QED
      BY <3>1
  <2> DEFINE h == f[Used].height
             p == InFlight(f, i).height
             q == InFlight(f, j).height
  <2>4. /\ p = IF i < b THEN h ELSE h + 1
        /\ q = IF j < b THEN h ELSE h + 1
        /\ h \in Nat
    BY <2>2, <2>3
  <2>5. LeftOf(InFlight(f, i), InFlight(f, j)) <=> p > q \/ (p = q /\ i < j)
    BY <1>3 DEF LeftOf
  <2> HIDE DEF h, p, q
  <2>6. p > q \/ (p = q /\ i < j) <=> Before(b, i, j)
    BY <2>1, <2>4 DEF Before
  <2> QED
    BY <2>5, <2>6
<1> QED
  BY <1>2, <1>3, <1>4, <1>5

\* What the neighbours of an item say of the values it covers.
LEMMA RowCovers ==
  ASSUME NEW f, Sound(f), NEW b \in Used + 1 .. Made, Layers(f, b), NEW i \in Used .. Made - 1
  PROVE  /\ (b < Made /\ i = b) \/ (b = Made /\ i = Used) => Starts(f[i])
         /\ i = b - 1 => Finishes(f[i])
         /\ \A j \in Used .. Made - 1 :
               (j = i + 1 /\ j # b) \/ (i = Made - 1 /\ j = Used /\ b < Made) =>
                  Follows(f[i], f[j]) /\ f[i].height - f[j].height \in {0, 1}
<1>1. Typed /\ TreeOf(f) /\ Ordered /\ f \in [Nat -> Items] /\ Table(f)
  BY Order DEF Sound, TreeOf
<1>2. Used \in Nat /\ Made \in Nat /\ i \in Nat /\ b \in Nat /\ Used < b /\ b <= Made
  BY <1>1 DEF Ordered
<1>3. \A k \in Nat : f[k].height \in Nat
  BY <1>1 DEF Items
<1>4. ASSUME b < Made
      PROVE  Finishes(f[b - 1]) /\ Starts(f[b])
  <2>1. b - 1 \in 0 .. Made - 2 /\ b - 1 \in Used .. b - 1 /\ b \in b .. Made - 1
        /\ (b - 1) + 1 = b /\ b - 1 \in Nat
    BY <1>2, <1>4
  <2>2. f[b - 1].height = f[Used].height /\ f[b].height = f[Used].height + 1
    BY <2>1 DEF Layers
  <2>3. f[b].height # f[b - 1].height
    BY <1>2, <1>3, <2>2
  <2>4. \/ f[b].height = f[b - 1].height /\ Follows(f[b - 1], f[b])
        \/ f[b].height = f[b - 1].height + 1 /\ Finishes(f[b - 1]) /\ Starts(f[b])
    BY <1>1, <2>1 DEF Table
  <2> QED
    BY <2>3, <2>4
<1>5. (b < Made /\ i = b) \/ (b = Made /\ i = Used) => Starts(f[i])
  BY <1>4 DEF Layers
<1>6. i = b - 1 => Finishes(f[i])
  <2>1. b = Made => Finishes(f[Made - 1])
    BY DEF Layers
  <2> QED
    BY <1>2, <1>4, <2>1
<1>7. ASSUME NEW j \in Used .. Made - 1, j = i + 1, j # b
      PROVE  Follows(f[i], f[j]) /\ f[i].height - f[j].height \in {0, 1}
  <2>1. i \in 0 .. Made - 2 /\ j \in Nat
    BY <1>2, <1>7
  <2>2. f[j].height = f[i].height
    <3>1. CASE i < b
      <4>1. i \in Used .. b - 1 /\ j \in Used .. b - 1
        BY <1>2, <1>7, <3>1
      <4> QED
        BY <4>1 DEF Layers
    <3>2. CASE ~ (i < b)
      <4>1. i \in b .. Made - 1 /\ j \in b .. Made - 1
        BY <1>2, <1>7, <3>2
      <4> QED
        BY <4>1 DEF Layers
    <3> QED
      BY <3>1, <3>2
  <2>3. \/ f[j].height = f[i].height /\ Follows(f[i], f[j])
        \/ f[j].height = f[i].height + 1 /\ Finishes(f[i]) /\ Starts(f[j])
    BY <1>1, <1>7, <2>1 DEF Table
  <2>4. f[i].height \in Nat
    BY <1>2, <1>3
  <2> QED
    BY <2>2, <2>3, <2>4
<1>8. ASSUME i = Made - 1, b < Made
      PROVE  Follows(f[i], f[Used]) /\ f[i].height - f[Used].height \in {0, 1}
  <2>1. Follows(f[Made - 1], f[Used])
    BY <1>2, <1>8 DEF Layers
  <2>2. i \in b .. Made - 1
    BY <1>2, <1>8
  <2>3. f[i].height = f[Used].height + 1 /\ f[Used].height \in Nat
    BY <1>2, <1>3, <2>2 DEF Layers
  <2> QED
    BY <1>8, <2>1, <2>3
<1> QED
  BY <1>5, <1>6, <1>7, <1>8

\* At all times what is in flight covers the shards and the deferred proofs in order,
\* each exactly once.
THEOREM NothingIsLost == Spec => []FrontierCoversLeaves
<1>1. IInv => FrontierCoversLeaves
  <2>1. SUFFICES ASSUME NEW f, Sound(f)
                 PROVE  FrontierCoversLeaves
    BY DEF IInv
  <2>2. Typed /\ TreeOf(f) /\ Ordered /\ Frontier(f)
    BY <2>1, Order DEF Sound, TreeOf
  <2>3. PICK b \in Used + 1 .. Made : Layers(f, b)
    BY <2>2 DEF Frontier
  <2>4. Used \in Nat /\ Made \in Nat /\ Used < Made
    BY <2>2 DEF Ordered
  <2>5. Pending # {}
    <3>1. Used \in Used .. Made - 1
      BY <2>4
    <3> QED
      BY <2>1, <3>1, RowIsPending
  <2> DEFINE Row == Used .. Made - 1
             At(i) == InFlight(f, i)
             Left(x) == {y \in Pending : LeftOf(y, x)}
             Right(x) == {y \in Pending : LeftOf(x, y)}
  <2>6. /\ \A x : x \in Pending <=> \E i \in Row : x = At(i)
        /\ IsFiniteSet(Pending)
        /\ \A i, j \in Row : At(i) = At(j) => i = j
        /\ \A i, j \in Row : LeftOf(At(i), At(j)) <=> Before(b, i, j)
    BY <2>1, <2>3, PendingRow
  <2>7. \A i \in Row : At(i).height = f[i].height /\ Aggregate(At(i)) = Aggregate(f[i])
    BY <2>1, InFlightItem
  <2>8. ASSUME NEW x \in Pending
        PROVE  /\ Cardinality(Left(x)) + Cardinality(Right(x)) + 1 = Cardinality(Pending)
               /\ Left(x) = {} => Starts(x)
               /\ Right(x) = {} => Finishes(x)
               /\ \A y \in Right(x) : (\A z \in Right(x) : ~ LeftOf(z, y)) =>
                      Follows(x, y) /\ x.height - y.height \in {0, 1}
    <3>1. PICK i \in Row : x = At(i)
      BY <2>6
    <3> HIDE DEF Row, At
    <3>2. /\ \A j \in Row : i # j => Before(b, i, j) \/ Before(b, j, i)
          /\ ~ Before(b, i, i)
          /\ \A j \in Row : Before(b, i, j) => ~ Before(b, j, i)
          /\ (\A j \in Row : ~ Before(b, i, j)) => i = b - 1
          /\ (\A j \in Row : ~ Before(b, j, i)) => (b < Made /\ i = b) \/ (b = Made /\ i = Used)
          /\ \A j \in Row :
                Before(b, i, j) /\ (\A k \in Row : Before(b, i, k) => ~ Before(b, k, j)) =>
                   \/ j = i + 1 /\ j # b
                   \/ i = Made - 1 /\ j = Used /\ b < Made
      BY <2>3, <2>4, RowOrder, ZenonT(60) DEF Row
    <3>3. /\ (b < Made /\ i = b) \/ (b = Made /\ i = Used) => Starts(f[i])
          /\ i = b - 1 => Finishes(f[i])
          /\ \A j \in Row :
                (j = i + 1 /\ j # b) \/ (i = Made - 1 /\ j = Used /\ b < Made) =>
                   Follows(f[i], f[j]) /\ f[i].height - f[j].height \in {0, 1}
      BY <2>1, <2>3, RowCovers DEF Row
    <3>4. /\ \A y : y \in Left(x) <=> \E j \in Row : y = At(j) /\ Before(b, j, i)
          /\ \A y : y \in Right(x) <=> \E j \in Row : y = At(j) /\ Before(b, i, j)
      BY <2>6, <3>1
    <3>5. Cardinality(Left(x)) + Cardinality(Right(x)) + 1 = Cardinality(Pending)
      <4> HIDE DEF Left, Right
      <4>1. Pending = (Left(x) \cup Right(x)) \cup {x}
        BY <2>6, <3>1, <3>2, <3>4
      <4>2. Left(x) \cap Right(x) = {} /\ x \notin Left(x) /\ x \notin Right(x)
        BY <2>6, <3>1, <3>2, <3>4
      <4> QED
        BY <2>6, <4>1, <4>2, TwoSides
    <3>6. Left(x) = {} => Starts(x)
      <4>1. ASSUME Left(x) = {}
            PROVE  \A j \in Row : ~ Before(b, j, i)
        BY <3>4, <4>1
      <4> QED
        BY <2>7, <3>1, <3>2, <3>3, <4>1 DEF Starts
    <3>7. Right(x) = {} => Finishes(x)
      <4>1. ASSUME Right(x) = {}
            PROVE  \A j \in Row : ~ Before(b, i, j)
        BY <3>4, <4>1
      <4> QED
        BY <2>7, <3>1, <3>2, <3>3, <4>1 DEF Finishes
    <3>8. ASSUME NEW y \in Right(x), \A z \in Right(x) : ~ LeftOf(z, y)
          PROVE  Follows(x, y) /\ x.height - y.height \in {0, 1}
      <4>1. PICK j \in Row : y = At(j) /\ Before(b, i, j)
        BY <3>4
      <4>2. \A k \in Row : Before(b, i, k) => ~ Before(b, k, j)
        BY <2>6, <3>4, <3>8, <4>1
      <4>3. Follows(f[i], f[j]) /\ f[i].height - f[j].height \in {0, 1}
        BY <3>2, <3>3, <4>1, <4>2
      <4> QED
        BY <2>7, <3>1, <4>1, <4>3 DEF Follows
    <3> QED
      BY <3>5, <3>6, <3>7, <3>8
  <2> QED
    BY <2>5, <2>8, Zenon DEF FrontierCoversLeaves, Starts, Finishes, Follows
<1> QED
  BY <1>1, CompressInvariant, PTL
=============================================================================
