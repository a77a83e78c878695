-------------------------- MODULE RecursionCompiler --------------------------
(***************************************************************************)
(* AsmCompiler: the list of DslIr operations becomes a program of the      *)
(* recursion machine, whose memory is written once: every write has its    *)
(* own address, and carries the number of times the address is read, which *)
(* the memory lookups consume.                                             *)
(*                                                                         *)
(* An instruction has the addresses it writes, those it reads and those it *)
(* only looks at ("ghost" reads, of the hints), its multiplicities, and    *)
(* the number of the call it comes from.                                   *)
(***************************************************************************)
EXTENDS RecursionFri, FiniteSets

\* The order of the field as addresses and multiplicities count in it.
CONSTANT AddrOrder

ASSUME AddrAssumption == AddrOrder \in Nat \ {0}

Address(a) == [t |-> "A", k |-> "addr", v |-> a]

\* next_addr, virtual_to_physical, addr_to_mult, consts, the instructions so
\* far, and whether the compiler has panicked.
EmptyCompiler ==
    [next |-> 0, v2p |-> <<>>, mults |-> <<>>, consts |-> <<>>, instrs |-> <<>>, panic |-> FALSE]

Put(f, x, v) == [y \in DOMAIN f \cup {x} |-> IF y = x THEN v ELSE f[y]]
Failed(cs) == [cs EXCEPT !.panic = TRUE]

\* A step of the compiler gives the compiler and the addresses it returns.
Alloc(cs) ==
    LET next == (cs.next + 1) % AddrOrder
    IN  [c |-> [cs EXCEPT !.next = next, !.panic = @ \/ next = 0], a |-> <<cs.next>>]

CountRead(mults, addr) == [mults EXCEPT ![addr] = (@ + 1) % AddrOrder]

\* Imm::F and Imm::EF are different keys.
ImmKey(x) == <<x.t = "E", x.v>>

\* Reg::read and Reg::read_ghost.
ReadReg(cs, x, counted) ==
    CASE x.k = "val" ->
           IF x.v \notin DOMAIN cs.v2p \/ (counted /\ cs.v2p[x.v] \notin DOMAIN cs.mults)
           THEN [c |-> Failed(cs), a |-> <<0>>]
           ELSE [c |-> IF counted THEN [cs EXCEPT !.mults = CountRead(@, cs.v2p[x.v])] ELSE cs,
                 a |-> <<cs.v2p[x.v]>>]
      [] x.k = "addr" ->
           IF x.v \notin DOMAIN cs.mults THEN [c |-> Failed(cs), a |-> <<0>>]
           ELSE [c |-> [cs EXCEPT !.mults = CountRead(@, x.v)], a |-> <<x.v>>]
      [] x.k = "const" ->
           LET key == ImmKey(x)
               n   == IF counted THEN 1 ELSE 0
           IN  IF key \in DOMAIN cs.consts
               THEN [c |-> [cs EXCEPT !.consts[key][2] = (@ + n) % AddrOrder], a |-> <<cs.consts[key][1]>>]
               ELSE LET r == Alloc(cs)
                    IN  [r EXCEPT !.c.consts = Put(@, key, <<r.a[1], n>>)]

\* Reg::write: a variable gets a fresh address, an address is used as it is;
\* neither may have been written before.
WriteReg(cs, x) ==
    CASE x.k = "val" ->
           IF x.v \in DOMAIN cs.v2p THEN [c |-> Failed(cs), a |-> <<0>>]
           ELSE LET r == Alloc(cs)
                    a == r.a[1]
                IN  IF a \in DOMAIN cs.mults THEN [c |-> Failed(cs), a |-> <<0>>]
                    ELSE [r EXCEPT !.c.v2p = Put(@, x.v, a), !.c.mults = Put(@, a, 0)]
      [] x.k = "addr" ->
           IF x.v \in DOMAIN cs.mults THEN [c |-> Failed(cs), a |-> <<0>>]
           ELSE [c |-> [cs EXCEPT !.mults = Put(@, x.v, 0)], a |-> <<x.v>>]

\* A sequence of registers, one after the other.
Regs(cs, s, Access(_, _)) ==
    LET upto[i \in 0 .. Len(s)] ==
            IF i = 0 THEN [c |-> cs, a |-> <<>>]
            ELSE LET q == upto[i - 1]
                     r == Access(q.c, s[i])
                 IN  [c |-> r.c, a |-> q.a \o r.a]
    IN  upto[Len(s)]
Reads(cs, s) == Regs(cs, s, LAMBDA c, x : ReadReg(c, x, TRUE))
Ghosts(cs, s) == Regs(cs, s, LAMBDA c, x : ReadReg(c, x, FALSE))
Writes(cs, s) == Regs(cs, s, WriteReg)

\* An instruction that writes outs, then reads args; and the other order.
Instr(kind, f, w, r, g, val) ==
    [kind |-> kind, f |-> f, w |-> w, r |-> r, g |-> g, val |-> val]
PushInstr(cs, i) == [cs EXCEPT !.instrs = Append(@, i)]

WriteThenRead(cs, kind, f, outs, args) ==
    LET w == Writes(cs, outs)
        r == Reads(w.c, args)
    IN  PushInstr(r.c, Instr(kind, f, w.a, r.a, <<>>, Zero))
ReadThenWrite(cs, kind, outs, args) ==
    LET r == Reads(cs, args)
        w == Writes(r.c, outs)
    IN  PushInstr(w.c, Instr(kind, "", w.a, r.a, <<>>, Zero))
\* A hint: the outputs are written, the inputs are not counted as read.
HintInstr(cs, kind, outs, args) ==
    LET w == Writes(cs, outs)
        g == Ghosts(w.c, args)
    IN  PushInstr(g.c, Instr(kind, outs[1].t, w.a, <<>>, g.a, Zero))

-----------------------------------------------------------------------------
(* compile_one.                                                            *)

BaseAluOps ==
    [AddV |-> "add", AddVI |-> "add", AddF |-> "add", AddFI |-> "add",
     SubV |-> "sub", SubVI |-> "sub", SubVIN |-> "sub", SubF |-> "sub", SubFI |-> "sub", SubFIN |-> "sub",
     MulV |-> "mul", MulVI |-> "mul", MulF |-> "mul", MulFI |-> "mul",
     DivF |-> "div", DivFI |-> "div", DivFIN |-> "div"]
ExtAluOps ==
    [AddE |-> "add", AddEI |-> "add", AddEF |-> "add", AddEFI |-> "add", AddEFFI |-> "add",
     SubE |-> "sub", SubEI |-> "sub", SubEIN |-> "sub", SubEFI |-> "sub", SubEF |-> "sub",
     MulE |-> "mul", MulEI |-> "mul", MulEFI |-> "mul", MulEF |-> "mul",
     DivE |-> "div", DivEI |-> "div", DivEIN |-> "div", DivEFI |-> "div", DivEFIN |-> "div", DivEF |-> "div"]

\* base_assert_eq, base_assert_ne, ext_assert_eq and ext_assert_ne: an
\* equality divides the difference by 0, an inequality divides 1 by it.
BugAssertNe(cs, kind, rel, lhs, rhs) ==
    LET d == Alloc(cs)
        o == Alloc(d.c)
        t == IF kind = "BaseAlu" THEN "F" ELSE "E"
        c == WriteThenRead(o.c, kind, "sub", <<Address(d.a[1])>>, <<lhs, rhs>>)
    IN  WriteThenRead(c, kind, "div", <<Address(o.a[1])>>, <<Address(d.a[1]), Const(t, Zero)>>)

AssertInstrs(cs, kind, rel, lhs, rhs) ==
    LET d   == Alloc(cs)
        o   == Alloc(d.c)
        t   == IF kind = "BaseAlu" THEN "F" ELSE "E"
        c   == WriteThenRead(o.c, kind, "sub", <<Address(d.a[1])>>, <<lhs, rhs>>)
        div == IF rel = "eq" THEN <<Address(d.a[1]), Const(t, Zero)>> ELSE <<Const(t, One), Address(d.a[1])>>
    IN  WriteThenRead(c, kind, "div", <<Address(o.a[1])>>, div)

AsmAsserts ==
    [AssertEqV |-> <<"BaseAlu", "eq">>, AssertEqVI |-> <<"BaseAlu", "eq">>,
     AssertEqF |-> <<"BaseAlu", "eq">>, AssertEqFI |-> <<"BaseAlu", "eq">>,
     AssertEqE |-> <<"ExtAlu", "eq">>, AssertEqEI |-> <<"ExtAlu", "eq">>,
     AssertNeV |-> <<"BaseAlu", "ne">>, AssertNeVI |-> <<"BaseAlu", "ne">>,
     AssertNeF |-> <<"BaseAlu", "ne">>, AssertNeFI |-> <<"BaseAlu", "ne">>,
     AssertNeE |-> <<"ExtAlu", "ne">>, AssertNeEI |-> <<"ExtAlu", "ne">>]

AsmHints ==
    [CircuitV2HintFelts |-> "Hint", CircuitV2HintExts |-> "Hint", CircuitV2HintBitsF |-> "HintBits",
     CircuitV2HintAddCurve |-> "HintAddCurve", CircuitExt2Felt |-> "HintExt2Felts"]

\* The digest among the public values, which alone is read: the last ones.
DigestOf(pvs) == Ran(pvs, Len(pvs) - DIGEST_SIZE + 1, Len(pvs))

compile_one(cs, ir) ==
    CASE ir.op \in {"ImmV", "ImmF", "ImmE"} ->
           LET w == Writes(cs, ir.outs)
           IN  PushInstr(w.c, Instr("Mem", "", w.a, <<>>, <<>>, ir.args[1].v))
      [] ir.op \in DOMAIN BaseAluOps -> WriteThenRead(cs, "BaseAlu", BaseAluOps[ir.op], ir.outs, ir.args)
      [] ir.op \in DOMAIN ExtAluOps  -> WriteThenRead(cs, "ExtAlu", ExtAluOps[ir.op], ir.outs, ir.args)
      [] ir.op \in {"NegV", "NegF"}  ->
           WriteThenRead(cs, "BaseAlu", "sub", ir.outs, <<Const("F", Zero), ir.args[1]>>)
      [] ir.op = "NegE" -> WriteThenRead(cs, "ExtAlu", "sub", ir.outs, <<Const("E", Zero), ir.args[1]>>)
      [] ir.op \in {"InvV", "InvF"} ->
           WriteThenRead(cs, "BaseAlu", "div", ir.outs, <<Const("F", One), ir.args[1]>>)
      [] ir.op = "InvE" -> WriteThenRead(cs, "ExtAlu", "div", ir.outs, <<Const("F", One), ir.args[1]>>)
      [] ir.op = "Select" ->
           LET b == Reads(cs, <<ir.args[1]>>)
               w == Writes(b.c, ir.outs)
               r == Reads(w.c, Tail(ir.args))
           IN  PushInstr(r.c, Instr("Select", "", w.a, b.a \o r.a, <<>>, Zero))
      [] ir.op \in DOMAIN AsmAsserts ->
           AssertInstrs(cs, AsmAsserts[ir.op][1], AsmAsserts[ir.op][2], ir.args[1], ir.args[2])
      [] ir.op = "CircuitV2Poseidon2PermuteKoalaBear" -> ReadThenWrite(cs, "Poseidon2", ir.outs, ir.args)
      [] ir.op = "CircuitV2ExpReverseBits" -> WriteThenRead(cs, "ExpReverseBitsLen", "", ir.outs, ir.args)
      [] ir.op = "CircuitV2FriFold"        -> ReadThenWrite(cs, "FriFold", ir.outs, ir.args)
      [] ir.op = "CircuitV2BatchFRI"       -> ReadThenWrite(cs, "BatchFRI", ir.outs, ir.args)
      [] ir.op \in DOMAIN AsmHints         -> HintInstr(cs, AsmHints[ir.op], ir.outs, ir.args)
      [] ir.op = "CircuitV2CommitPublicValues" ->
           LET r == Reads(cs, DigestOf(ir.args))
               g == Ghosts(r.c, ir.args)
           IN  PushInstr(g.c, Instr("CommitPublicValues", "", <<>>, r.a, g.a, Zero))
      [] ir.op = "ReduceE" -> cs
      [] OTHER -> Failed(cs)

-----------------------------------------------------------------------------
(* compile: the instructions of every call, with the multiplicities filled *)
(* in, after the writes of the constants.                                  *)

\* The operations one after the other; in halves, to keep TLC's stack low.
RECURSIVE CompileOps(_, _)
CompileOps(cs, ops) ==
    LET half == Len(ops) \div 2
    IN  CASE cs.panic \/ ops = <<>> -> cs
          [] Len(ops) = 1 -> compile_one(cs, ops[1])
          [] OTHER -> CompileOps(CompileOps(cs, SubSeq(ops, 1, half)), SubSeq(ops, half + 1, Len(ops)))

\* ends[c] is the number of instructions when the cth call is compiled.
CompileCalls(calls) ==
    LET upto[c \in 0 .. Len(calls)] ==
            IF c = 0 THEN [cs |-> EmptyCompiler, ends |-> <<>>]
            ELSE LET before == upto[c - 1]
                     cs     == CompileOps(before.cs, calls[c].ops)
                 IN  [cs |-> cs, ends |-> Append(before.ends, Len(cs.instrs))]
    IN  upto[Len(calls)]

ConstInstrs(cs) ==
    LET addrs == {cs.consts[k][1] : k \in DOMAIN cs.consts}
        KeyAt(a) == CHOOSE k \in DOMAIN cs.consts : cs.consts[k][1] = a
        Rank(a) == Cardinality({b \in addrs : b <= a})
        At(i) == CHOOSE a \in addrs : Rank(a) = i
    IN  [i \in 1 .. Cardinality(addrs) |->
            Instr("Mem", "", <<At(i)>>, <<>>, <<>>, KeyAt(At(i))[2])]

\* The multiplicity every address is written with.
MultOf(cs) ==
    LET consts == [a \in {cs.consts[k][1] : k \in DOMAIN cs.consts} |->
                      cs.consts[CHOOSE k \in DOMAIN cs.consts : cs.consts[k][1] = a][2]]
    IN  [a \in DOMAIN cs.mults \cup DOMAIN consts |-> IF a \in DOMAIN consts THEN consts[a] ELSE cs.mults[a]]

compile(calls) ==
    LET all    == CompileCalls(calls)
        cs     == all.cs
        consts == IF cs.panic THEN <<>> ELSE ConstInstrs(cs)
    IN  [panic |-> cs.panic, instrs |-> consts \o cs.instrs,
         ends |-> [c \in 1 .. Len(calls) |-> Len(consts) + all.ends[c]],
         mults |-> MultOf(cs), v2p |-> cs.v2p]

=============================================================================
