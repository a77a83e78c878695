----------------------------- MODULE ShardStark -----------------------------
(***************************************************************************)
(* The STARK of a shard, stark/src: keys (machine.rs), the prover          *)
(* (prover.rs), the verifier (verifier.rs, machine.rs) and the verifier as *)
(* a recursion circuit (recursion/circuit/src/stark.rs).                   *)
(*                                                                         *)
(* Polynomials, commitments and challenges are symbols.  A commitment      *)
(* names the batch of traces it binds.  A transcript is the sequence of    *)
(* what a challenger has observed and sampled; a challenge is the          *)
(* transcript that ends with its sampling, so two challenges are the same  *)
(* if and only if the transcripts are.  An opened value names the          *)
(* polynomial and the challenges the polynomial depends on.  The sums of   *)
(* lookups are integers, those of the global scope too.                    *)
(***************************************************************************)
EXTENDS Integers, Sequences, FiniteSets, SequencesExt, FiniteSetsExt, Functions

CONSTANTS
    MachineChips, \* the chips of the machine, a sequence
    Info,         \* see StarkAssumption
    Programs,     \* preprocessed chip |-> log2 of the height of its trace
    Records,      \* see Fits
    Shards,
    InitialSum,   \* initial_global_cumulative_sum
    FieldOrder    \* SC::Val::order()

Chips == Range(MachineChips)
PrepChips == {c \in Chips : Info[c].prep}

\* rank orders the names; global: commit_scope is Global; local_lookups: it sends or
\* receives lookups of the local scope; local_only: its constraints look at one row.
ASSUME StarkAssumption ==
    /\ Info \in [Chips -> [rank : Nat, prep : BOOLEAN, global : BOOLEAN,
                           local_lookups : BOOLEAN, local_only : BOOLEAN,
                           quotients : Nat \ {0}, byte_sends : Nat]]
    /\ \A c, d \in Chips : Info[c].rank = Info[d].rank => c = d
    /\ \A p \in Programs : DOMAIN p = PrepChips
    /\ InitialSum \in Int /\ FieldOrder \in Nat /\ IsFiniteSet(Shards)

VARIABLES
    program,
    records,      \* shard |-> what is to be proved
    challenger,   \* the prover's, after it has observed the proving key
    order,        \* shard |-> the chips of its committed traces, <<>> before
    proofs,       \* shard |-> ShardProof, NoProof before
    fault,        \* None, "claim" (a prover that deviates) or what was changed in a proof
    verdict       \* the shards each verifier accepts, and whether machine.verify does

vars == <<program, records, challenger, order, proofs, fault, verdict>>

None == "none"
NoProof == [ordering |-> <<>>]
NoVerdict == [native |-> {}, circuit |-> {}, machine |-> FALSE, done |-> FALSE]

\* Sorted by (Reverse(height), name).
SortedByHeight(logs) ==
    SetToSortSeq(DOMAIN logs,
        LAMBDA c, d : \/ logs[c] > logs[d]
                      \/ logs[c] = logs[d] /\ Info[c].rank < Info[d].rank)

\* StarkMachine::setup. chip_information, the order of the committed preprocessed traces
\* and of pk.local_only.
ChipInformation == SortedByHeight(program)

-----------------------------------------------------------------------------
(* Transcripts. *)

Item(tag, a, b) == [tag |-> tag, a |-> a, b |-> b]
Sample(ch) == Append(ch, Item("sample", 0, 0))

Commit(tag, s) == Item(tag, s, 0)
PrepCommit == Commit("prep", 0)
Junk == Commit("junk", 0)

\* StarkProvingKey::observe_into
ObservePk ==
    <<PrepCommit, Item("pc_start", 0, 0), Item("sum", InitialSum, 0), Item("zero", 0, 0)>>

\* StarkVerifyingKey::observe_into
ObserveVk ==
    <<PrepCommit, Item("pc_start", 0, 0), Item("sum", InitialSum, 0), Item("zero", 0, 0)>>

Sums(local, global) == Item("sums", local, global)

-----------------------------------------------------------------------------
(* The polynomial commitment scheme. A matrix has the log2 of its height and the values *)
(* it is opened to, at zeta and at the next point of its domain.                        *)

Value(tag, row, s, c, ch) == [tag |-> tag, row |-> row, s |-> s, chip |-> c, ch |-> ch]
Zeros == Value("zeros", None, 0, None, <<>>)
Empty == Value("empty", None, 0, None, <<>>)
JunkValue == Value("junk", None, 0, None, <<>>)

Matrix(log, opens) == [log |-> log, opens |-> opens]
BothRows(o) == <<o.local, o.next>>
RowsOf(o, c) == IF Info[c].local_only THEN <<o.local>> ELSE BothRows(o)

\* pcs.open: the proof is of the values of these matrices of these commitments, and
\* depends on the transcript. pcs.verify accepts nothing else.
PcsOpen(rounds, ch) == [rounds |-> rounds, ch |-> ch]
PcsVerify(rounds, proof, ch) == proof = PcsOpen(rounds, ch)

\* The four rounds of a proof whose chips are cs.
Rounds(cs, opened, index, main, perm, quotient) ==
    <<[commit |-> PrepCommit,
       mats |-> [i \in DOMAIN ChipInformation |->
                   LET c == ChipInformation[i]
                   IN Matrix(program[c], RowsOf(opened[index[c]].prep, cs[index[c]]))]],
      [commit |-> main,
       mats |-> [i \in DOMAIN cs |-> Matrix(opened[i].log, RowsOf(opened[i].main, cs[i]))]],
      [commit |-> perm,
       mats |-> [i \in DOMAIN cs |-> Matrix(opened[i].log, BothRows(opened[i].perm))]],
      [commit |-> quotient,
       mats |-> FlattenSeq([i \in DOMAIN cs |->
                   [k \in DOMAIN opened[i].quotient |->
                       Matrix(<<opened[i].log, k>>, <<opened[i].quotient[k]>>)]])]>>

-----------------------------------------------------------------------------
(* The prover. *)

\* A record stands for the traces of the chips it includes: log2 of their heights, the
\* sums of their lookups, and whether they satisfy the constraints of the chips. A
\* preprocessed chip is always included, with the height of its preprocessed trace.
Fits(r, prog) == \A c \in PrepChips : c \in DOMAIN r.logs /\ r.logs[c] = prog[c]

Init ==
    /\ program \in Programs
    /\ records \in [Shards -> {r \in Records : Fits(r, program)}]
    /\ challenger = ObservePk
    /\ order = [s \in Shards |-> <<>>]
    /\ proofs = [s \in Shards |-> NoProof]
    /\ fault = None
    /\ verdict = NoVerdict

\* CpuProver::commit
CommitTraces(s) ==
    /\ order[s] = <<>>
    /\ order' = [order EXCEPT ![s] = SortedByHeight(records[s].logs)]
    /\ UNCHANGED <<program, records, challenger, proofs, fault, verdict>>

\* The sums that the traces of a chip have: the local one is zero when the chip has no
\* local lookups (generate_permutation_trace), the global one when its scope is local.
SumsOf(r, c) ==
    [local |-> IF Info[c].local_lookups THEN r.local[c] ELSE 0,
     global |-> IF Info[c].global THEN r.global[c] ELSE 0]

HonestSums(s) == [c \in DOMAIN records[s].logs |-> SumsOf(records[s], c)]

\* AirOpenedValues: the next row of a chip that looks at one row is filled with zeros.
Opening(tag, s, c, ch, local_only) ==
    [local |-> Value(tag, "local", s, c, ch),
     next |-> IF local_only THEN Zeros ELSE Value(tag, "next", s, c, ch)]

\* ChipOpenedValues
ChipOpening(s, c, perm_ch, alpha, sums) ==
    [prep |-> IF Info[c].prep THEN Opening("prep", 0, c, <<>>, Info[c].local_only)
              ELSE [local |-> Empty, next |-> Empty],
     main |-> Opening("main", s, c, <<>>, Info[c].local_only),
     perm |-> Opening("perm", s, c, perm_ch, FALSE),
     quotient |-> [k \in 1 .. Info[c].quotients |->
                     Value("quotient", "local", s, c, Append(alpha, Item("chunk", k, 0)))],
     local |-> sums.local,
     global |-> sums.global,
     log |-> records[s].logs[c]]

\* Mutant of ChallengerAfter: the shards go on with one challenger.
BugSharedChallenger(ch) == ch

\* prove and prove_with_context give each call of open a clone.
ChallengerAfter(ch) == challenger

\* CpuProver::open, with sums for its chips. Shard s has the public values s.
OpenWith(s, sums) ==
    LET cs == order[s]
        index == [c \in Range(cs) |-> CHOOSE i \in DOMAIN cs : cs[i] = c]
        perm_ch == Sample(Sample(challenger \o <<Item("pv", s, 0), Commit("main", s)>>))
        alpha == Sample(Append(perm_ch, Commit("perm", s))
                        \o [i \in DOMAIN cs |-> Sums(sums[cs[i]].local, sums[cs[i]].global)])
        zeta == Sample(Append(alpha, Commit("quotient", s)))
        opened == [i \in DOMAIN cs |-> ChipOpening(s, cs[i], perm_ch, alpha, sums[cs[i]])]
    IN /\ order[s] # <<>> /\ proofs[s] = NoProof
       /\ proofs' = [proofs EXCEPT ![s] =
            [main |-> Commit("main", s), perm |-> Commit("perm", s),
             quotient |-> Commit("quotient", s), opened |-> opened,
             opening_proof |->
                PcsOpen(Rounds(cs, opened, index, Commit("main", s), Commit("perm", s),
                               Commit("quotient", s)), zeta),
             ordering |-> index, pv |-> s]]
       /\ challenger' = ChallengerAfter(zeta)
       /\ UNCHANGED <<program, records, order, verdict>>

Open(s) == OpenWith(s, HonestSums(s)) /\ UNCHANGED fault

\* A prover that is not this code: it claims another sum for one chip.
OpenClaiming(s) ==
    /\ fault = None
    /\ fault' = "claim"
    /\ \E c \in DOMAIN records[s].logs, d \in {-1, 1} :
          \/ OpenWith(s, [HonestSums(s) EXCEPT ![c].local = @ + d])
          \/ OpenWith(s, [HonestSums(s) EXCEPT ![c].global = @ + d])

Proved == \A s \in Shards : proofs[s] # NoProof

-----------------------------------------------------------------------------
(* Changes to a finished proof, on its way to a verifier. *)

ChangedOrderings(p) ==
    LET o == p.ordering
    IN {[o EXCEPT ![c] = o[d], ![d] = o[c]] : c, d \in DOMAIN o}
       \cup {[o EXCEPT ![c] = i] : c \in DOMAIN o, i \in 1 .. Len(p.opened) + 1}
       \cup {Restrict(o, DOMAIN o \ {c}) : c \in DOMAIN o}
       \cup {[c \in DOMAIN o \cup {"Unknown"} |-> IF c \in DOMAIN o THEN o[c] ELSE i] :
                i \in 1 .. Len(p.opened) + 1}

ChangedOpenings(p, i) ==
    {[p EXCEPT !.opened[i].prep.local = JunkValue],
     [p EXCEPT !.opened[i].main.local = JunkValue],
     [p EXCEPT !.opened[i].perm.next = JunkValue],
     [p EXCEPT !.opened[i].quotient[1] = JunkValue],
     [p EXCEPT !.opened[i].quotient = Tail(@)],
     [p EXCEPT !.opened[i].log = @ + 1]}
    \cup (IF Info[order[p.pv][i]].local_only THEN {}
          ELSE {[p EXCEPT !.opened[i].main.next = JunkValue]})

ChangedSums(p) ==
    {[p EXCEPT !.opened[i].local = @ + 1, !.opened[j].local = @ - 1] : i, j \in DOMAIN p.opened}
    \cup {[p EXCEPT !.opened[i].global = @ + 1, !.opened[j].global = @ - 1] :
             i, j \in DOMAIN p.opened}

ChangedProofs(p) ==
    {[p EXCEPT !.main = Junk], [p EXCEPT !.perm = Junk], [p EXCEPT !.quotient = Junk],
     [p EXCEPT !.pv = 0], [p EXCEPT !.opening_proof.ch = <<>>]}
    \cup {[p EXCEPT !.ordering = o] : o \in ChangedOrderings(p)}
    \cup UNION {ChangedOpenings(p, i) : i \in DOMAIN p.opened}
    \cup ChangedSums(p)

Change(s) ==
    /\ Proved /\ fault = None /\ ~verdict.done
    /\ \E p \in ChangedProofs(proofs[s]) \ {proofs[s]} :
          proofs' = [proofs EXCEPT ![s] = p]
    /\ fault' = "change"
    /\ UNCHANGED <<program, records, challenger, order, verdict>>

-----------------------------------------------------------------------------
(* The verifier. *)

\* Mutant of ValidOrdering: the indices need not be contiguous.
BugSparseOrdering(ordering, n, names) ==
    /\ Cardinality(DOMAIN ordering) = n
    /\ DOMAIN ordering \subseteq names
    /\ PrepChips \subseteq DOMAIN ordering
    /\ \A c \in PrepChips : ordering[c] <= n

\* The checks on the ordering that machine.verify and verify_shard share: one index for
\* each opened chip, only known names, every preprocessed chip.
ValidOrdering(ordering, n, names) ==
    /\ Cardinality(DOMAIN ordering) = n
    /\ DOMAIN ordering \subseteq names
    /\ Range(ordering) = 1 .. n
    /\ PrepChips \subseteq DOMAIN ordering

\* StarkMachine::validate_chip_ordering
ValidateChipOrdering(p) == ValidOrdering(p.ordering, Len(p.opened), Chips)

\* StarkMachine::shard_chips_ordered: a stable sort of the machine's chips by their index.
ShardChipsOrdered(ordering) ==
    LET Position(c) == CHOOSE i \in DOMAIN MachineChips : MachineChips[i] = c
    IN SetToSortSeq(Chips \cap DOMAIN ordering,
           LAMBDA c, d : \/ ordering[c] < ordering[d]
                         \/ ordering[c] = ordering[d] /\ Position(c) < Position(d))

\* The byte lookups that the chips can send fit in the field.
ByteMultiplicitiesFit(cs, logs) ==
    MapThenSumSet(LAMBDA i : Info[cs[i]].byte_sends * 2 ^ logs[i], DOMAIN cs) <= FieldOrder

\* Mutant of SumWithoutScopeIsZero: the global sum of a chip of local scope is not looked at.
BugAnyGlobalSum(c, o) == ~Info[c].local_lookups => o.local = 0

\* A sum without a corresponding scope is zero.
SumWithoutScopeIsZero(c, o) ==
    /\ ~Info[c].global => o.global = 0
    /\ ~Info[c].local_lookups => o.local = 0

\* verify_opening_shape: the widths of the openings are those of the chip.
OpeningShape(c, o) ==
    /\ o.prep.local = Empty <=> ~Info[c].prep
    /\ Len(o.quotient) = Info[c].quotients

\* verify_constraints: folded constraints and quotient agree at zeta if and only if these
\* are the values of traces that satisfy the constraints, with the quotient that belongs
\* to these challenges, public values and sums. A sum is constrained only within its scope
\* (eval_permutation_constraints), and a next row only for a chip that looks at it.
ConstraintsHold(c, o, perm_ch, alpha, pv) ==
    \E s \in Shards :
        LET r == records[s]
            real == ChipOpening(s, c, perm_ch, alpha, SumsOf(r, c))
        IN /\ pv = s /\ c \in DOMAIN r.logs /\ r.ok
           /\ o.log = real.log
           /\ RowsOf(o.prep, c) = RowsOf(real.prep, c)
           /\ RowsOf(o.main, c) = RowsOf(real.main, c)
           /\ o.perm = real.perm /\ o.quotient = real.quotient
           /\ Info[c].local_lookups => o.local = real.local
           /\ Info[c].global => o.global = real.global

\* ShardProof::local_cumulative_sum is zero.
LocalSumIsZero(opened) == MapThenSumSet(LAMBDA i : opened[i].local, DOMAIN opened) = 0

\* Verifier::verify_shard, with the challenger machine.verify gives it.
VerifyShard(p, ch) ==
    LET cs == ShardChipsOrdered(p.ordering)
        perm_ch == Sample(Sample(Append(ch, p.main)))
        alpha == Sample(Append(perm_ch, p.perm)
                        \o [i \in DOMAIN cs |-> Sums(p.opened[i].local, p.opened[i].global)])
        zeta == Sample(Append(alpha, p.quotient))
    IN /\ Len(cs) = Len(p.opened)
       /\ ValidOrdering(p.ordering, Len(p.opened), Range(cs))
       /\ ByteMultiplicitiesFit(cs, [i \in DOMAIN cs |-> p.opened[i].log])
       /\ \A i \in DOMAIN cs : SumWithoutScopeIsZero(cs[i], p.opened[i])
       /\ PcsVerify(Rounds(cs, p.opened, p.ordering, p.main, p.perm, p.quotient),
                    p.opening_proof, zeta)
       /\ \A i \in DOMAIN cs : /\ OpeningShape(cs[i], p.opened[i])
                               /\ ConstraintsHold(cs[i], p.opened[i], perm_ch, alpha, p.pv)
       /\ LocalSumIsZero(p.opened)

\* machine.verify for one shard.
Native(p) == ValidateChipOrdering(p) /\ VerifyShard(p, Append(ObserveVk, Item("pv", p.pv, 0)))

\* Mutant of CircuitObserveVk: the padding is not observed.
BugNoPadding == <<PrepCommit, Item("pc_start", 0, 0), Item("sum", InitialSum, 0)>>

\* What the circuit of machine/core.rs observes of the key.
CircuitObserveVk ==
    <<PrepCommit, Item("pc_start", 0, 0), Item("sum", InitialSum, 0), Item("zero", 0, 0)>>

\* StarkVerifier::verify_shard of the circuit, after core.rs has observed the key and the
\* public values. It has no check of the ordering of its own: lengths must agree, and an
\* index out of range panics.
Circuit(p) ==
    LET cs == ShardChipsOrdered(p.ordering)
        perm_ch == Sample(Sample(CircuitObserveVk \o <<Item("pv", p.pv, 0), p.main>>))
        alpha == Sample(Append(perm_ch, p.perm)
                        \o [i \in DOMAIN cs |-> Sums(p.opened[i].local, p.opened[i].global)])
        zeta == Sample(Append(alpha, p.quotient))
    IN /\ ByteMultiplicitiesFit(SubSeq(cs, 1, Min({Len(cs), Len(p.opened)})),
                                [i \in DOMAIN p.opened |-> p.opened[i].log])
       /\ Len(cs) = Len(p.opened)
       /\ \A i \in DOMAIN cs : SumWithoutScopeIsZero(cs[i], p.opened[i])
       /\ \A c \in PrepChips : c \in DOMAIN p.ordering /\ p.ordering[c] <= Len(cs)
       /\ PcsVerify(Rounds(cs, p.opened, p.ordering, p.main, p.perm, p.quotient),
                    p.opening_proof, zeta)
       /\ \A i \in DOMAIN cs : /\ OpeningShape(cs[i], p.opened[i])
                               /\ ConstraintsHold(cs[i], p.opened[i], perm_ch, alpha, p.pv)
       /\ LocalSumIsZero(p.opened)

\* ShardProof::global_cumulative_sum
GlobalSum(p) == MapThenSumSet(LAMBDA i : p.opened[i].global, DOMAIN p.opened)

\* StarkMachine::verify, and the circuit on each proof.
Verify ==
    /\ Proved /\ ~verdict.done
    /\ verdict' =
         LET native == {s \in Shards : Native(proofs[s])}
         IN [native |-> native,
             circuit |-> {s \in Shards : Circuit(proofs[s])},
             machine |-> /\ Shards # {} /\ native = Shards
                         /\ InitialSum + MapThenSumSet(LAMBDA s : GlobalSum(proofs[s]), Shards) = 0,
             done |-> TRUE]
    /\ UNCHANGED <<program, records, challenger, order, proofs, fault>>

Next ==
    \/ \E s \in Shards : CommitTraces(s) \/ Open(s) \/ OpenClaiming(s) \/ Change(s)
    \/ Verify

Spec == Init /\ [][Next]_vars

-----------------------------------------------------------------------------
(* Properties. *)

\* The sums a record's traces have, whatever a proof says of them.
LocalTotal(s) == MapThenSumSet(LAMBDA c : HonestSums(s)[c].local, DOMAIN records[s].logs)
GlobalTotal(s) == MapThenSumSet(LAMBDA c : HonestSums(s)[c].global, DOMAIN records[s].logs)

Sound(s) == records[s].ok /\ LocalTotal(s) = 0
Balanced == InitialSum + MapThenSumSet(GlobalTotal, Shards) = 0

\* Completeness across three implementations of the transcript and of the openings (open,
\* verify_shard, the circuit's verify_shard), whatever the heights and the order in which
\* shards are proved: sound records that balance, proved by this code, are accepted by
\* machine.verify and shard by shard by the circuit.
HonestIsAccepted ==
    (/\ verdict.done /\ fault = None /\ Balanced
     /\ \A s \in Shards :
           /\ Sound(s)
           /\ ByteMultiplicitiesFit(order[s], [i \in DOMAIN order[s] |->
                                                  records[s].logs[order[s][i]]]))
    => verdict.machine /\ verdict.circuit = Shards

\* Soundness of the sums: whatever sums a prover claims, machine.verify accepts only
\* records that satisfy their constraints, whose local lookups balance in each shard and
\* whose global lookups balance over the shards. The constraints tie a sum to its trace
\* only within its scope, verify_shard's other checks have to do the rest.
AcceptedIsBalanced ==
    /\ verdict.machine => Balanced
    /\ \A s \in verdict.native \cup verdict.circuit : Sound(s)

\* A finished proof in which a commitment, an opened value, a height, a sum, the ordering
\* or the public values have changed is refused by machine.verify.
ChangedIsRefused == verdict.done /\ fault = "change" => ~verdict.machine

\* The circuit accepts every shard proof that the verifier accepts, and otherwise only
\* one that differs in an ordering the verifier refuses as such, with the same chips in
\* the same order.
CircuitAgrees ==
    /\ verdict.native \subseteq verdict.circuit
    /\ \A s \in verdict.circuit \ verdict.native :
          /\ ~ValidateChipOrdering(proofs[s])
          /\ ShardChipsOrdered(proofs[s].ordering) = order[s]
=============================================================================
