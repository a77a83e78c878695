----------------------------- MODULE RecursionDsl -----------------------------
(***************************************************************************)
(* The builder of the recursion circuits: what a circuit's expressions and *)
(* calls push onto the list of DslIr operations.                           *)
(*                                                                         *)
(* A symbolic value is a constant or a variable (its index), of type "V",  *)
(* "F" or "E" (Var, Felt, Ext); a Felt inside an Ext expression is the     *)
(* Base of SymbolicExt.  An operation has its name in DslIr, the variables *)
(* it writes and its arguments.  Every call takes the number n of          *)
(* variables so far and gives the operations pushed, the values returned,  *)
(* the new number, and whether the call panics.                            *)
(***************************************************************************)
EXTENDS Integers, Sequences

(* The field of the recursion machine and its extension, as small fields   *)
(* of the same form.  KoalaBear's order is 2^31 - 2^24 + 1, and the        *)
(* extension is by a root of X^4 - 3; here the order is                    *)
(* 2^NumBits - 2^LowBits + 1, and the extension is by a root of X^2 - NR.  *)
(*                                                                         *)
(* A value is a block, as in the machine's memory: a pair of coordinates.  *)
(* A base element is a block whose second coordinate is 0.                 *)

\* VarOrder is the order of Var's field: the field itself for the recursion
\* machine, the scalar field of BN254 for the outer circuit.
CONSTANTS NumBits, LowBits, NR, VarOrder

Order == 2 ^ NumBits - 2 ^ LowBits + 1

ASSUME FieldAssumption ==
    /\ NumBits \in Nat /\ LowBits \in 1 .. NumBits - 1
    /\ \A x \in 1 .. Order - 1 : \E y \in 1 .. Order - 1 : (x * y) % Order = 1
    /\ \A x \in 0 .. Order - 1 : (x * x) % Order # NR
    /\ VarOrder \in Nat /\ VarOrder >= Order

F == 0 .. Order - 1
EF == F \X F

\* The degree of the extension.
D == 2

Base(x) == <<x % Order, 0>>
IsBase(b) == b[2] = 0
Monomial(i) == IF i = 0 THEN <<1, 0>> ELSE <<0, 1>>
Zero == Base(0)
One == Base(1)
BaseElements == {Base(x) : x \in F}

Add(x, y) == <<(x[1] + y[1]) % Order, (x[2] + y[2]) % Order>>
Neg(x) == <<(Order - x[1]) % Order, (Order - x[2]) % Order>>
Sub(x, y) == Add(x, Neg(y))
Mul(x, y) == <<(x[1] * y[1] + NR * x[2] * y[2]) % Order, (x[1] * y[2] + x[2] * y[1]) % Order>>

Inverses == [x \in EF \ {Zero} |-> CHOOSE y \in EF : Mul(x, y) = One]
Inv(x) == Inverses[x]

\* z is a quotient of x and y.
IsQuotient(z, x, y) == Mul(z, y) = x

Apply(f, x, y) ==
    CASE f = "add" -> Add(x, y)
      [] f = "sub" -> Sub(x, y)
      [] f = "mul" -> Mul(x, y)
      [] f = "div" -> Mul(x, Inv(y))

\* A product in Var's field, one limb of y after the other, so that TLC's
\* integers can hold it.
VarMul(x, y) ==
    LET Shifted(acc, limb) == (((acc * 64) % VarOrder) + ((x * limb) % VarOrder)) % VarOrder
    IN  Shifted(Shifted(Shifted(0, y \div 4096), (y \div 64) % 64), y % 64)

ApplyVar(f, x, y) ==
    CASE f = "add" -> <<(x[1] + y[1]) % VarOrder, 0>>
      [] f = "sub" -> <<(x[1] - y[1]) % VarOrder, 0>>
      [] f = "mul" -> <<VarMul(x[1], y[1]), 0>>

Pow(x, n) ==
    LET p[k \in 0 .. n] == IF k = 0 THEN One ELSE Mul(x, p[k - 1])
    IN  p[n]

\* The n bits of a base element, least significant first.
BitOf(x, i) == (x[1] \div 2 ^ (i - 1)) % 2
BitsOf(x, n) == [i \in 1 .. n |-> Base(BitOf(x, i))]

SumOf(s) ==
    LET sum[k \in 0 .. Len(s)] == IF k = 0 THEN Zero ELSE Add(sum[k - 1], s[k])
    IN  sum[Len(s)]

-----------------------------------------------------------------------------
(* Values and calls. *)

Const(t, v) == [t |-> t, k |-> "const", v |-> v]
Val(t, i) == [t |-> t, k |-> "val", v |-> i]
IsConst(x) == x.k = "const"

Ir(op, outs, args) == [op |-> op, outs |-> outs, args |-> args]

Pushed(ops, res, n) == [ops |-> ops, res |-> res, n |-> n, panic |-> FALSE]
Panics(n) == [ops |-> <<>>, res |-> <<>>, n |-> n, panic |-> TRUE]
Folded(t, v, n) == Pushed(<<>>, <<Const(t, v)>>, n)

\* Two calls, the second using the first's result.
ThenAll(r, Call(_, _)) ==
    IF r.panic THEN r
    ELSE LET s == Call(r.res, r.n) IN [s EXCEPT !.ops = r.ops \o s.ops]
Then(r, Call(_, _)) == ThenAll(r, LAMBDA s, m : Call(s[1], m))

\* Two calls; the results are the first's, or those of both.
Also(r, Call(_, _)) == ThenAll(r, LAMBDA s, m : [Call(s, m) EXCEPT !.res = s])
Join(r, Call(_)) ==
    ThenAll(r, LAMBDA s, m : LET q == Call(m) IN [q EXCEPT !.res = s \o q.res])

\* One operation with a fresh variable for its result.
Emit(op, t, args, n) == Pushed(<<Ir(op, <<Val(t, n)>>, args)>>, <<Val(t, n)>>, n + 1)

-----------------------------------------------------------------------------
(* SymbolicVar and SymbolicFelt.                                           *)

\* The names of the operations on two variables, a variable and a constant,
\* and a constant and a variable.
FeltOpcodes ==
    [add |-> <<"AddF", "AddFI", "AddFI">>, sub |-> <<"SubF", "SubFI", "SubFIN">>,
     mul |-> <<"MulF", "MulFI", "MulFI">>, div |-> <<"DivF", "DivFI", "DivFIN">>]
VarOpcodes ==
    [add |-> <<"AddV", "AddVI", "AddVI">>, sub |-> <<"SubV", "SubVI", "SubVIN">>,
     mul |-> <<"MulV", "MulVI", "MulVI">>]

BugCommutes == {"add", "mul", "sub"}
Commutes == {"add", "mul"}

BaseExpr(f, x, y, n) ==
    LET names == IF x.t = "V" THEN VarOpcodes[f] ELSE FeltOpcodes[f]
    IN  CASE IsConst(x) /\ IsConst(y) ->
               IF f = "div" /\ y.v = Zero THEN Panics(n)
               ELSE Folded(x.t, IF x.t = "V" THEN ApplyVar(f, x.v, y.v) ELSE Apply(f, x.v, y.v), n)
          [] ~IsConst(x) /\ ~IsConst(y) -> Emit(names[1], x.t, <<x, y>>, n)
          [] ~IsConst(x) /\ IsConst(y)  -> Emit(names[2], x.t, <<x, y>>, n)
          [] IsConst(x) /\ ~IsConst(y)  ->
               Emit(names[3], x.t, IF f \in Commutes THEN <<y, x>> ELSE <<x, y>>, n)

NegBase(x, n) ==
    IF IsConst(x) THEN Folded(x.t, IF x.t = "V" THEN ApplyVar("sub", Zero, x.v) ELSE Neg(x.v), n)
    ELSE Emit(IF x.t = "V" THEN "NegV" ELSE "NegF", x.t, <<x>>, n)

-----------------------------------------------------------------------------
(* SymbolicExt, when one side at least is not a Base.                      *)

\* A Base constant is lifted to the extension.
Lift(x) == IF x.t = "F" /\ IsConst(x) THEN Const("E", x.v) ELSE x

\* How SymbolicExt's operators see a value.
ExtKind(x) == IF x.t = "F" THEN "base" ELSE x.k

\* A Felt made an Ext, by AddEFFI with a constant.
FeltPlusConst(x, c, n) == Emit("AddEFFI", "E", <<x, Const("E", c)>>, n)

ExtAdd(x, y, n) ==
    LET kinds == <<ExtKind(x), ExtKind(y)>>
    IN  CASE kinds = <<"val", "val">>    -> Emit("AddE", "E", <<x, y>>, n)
          [] kinds = <<"val", "const">>  -> Emit("AddEI", "E", <<x, y>>, n)
          [] kinds = <<"const", "val">>  -> Emit("AddEI", "E", <<y, x>>, n)
          [] kinds = <<"val", "base">>   -> Emit("AddEF", "E", <<x, y>>, n)
          [] kinds = <<"base", "val">>   -> Emit("AddEF", "E", <<y, x>>, n)
          [] kinds = <<"base", "const">> -> FeltPlusConst(x, y.v, n)
          [] kinds = <<"const", "base">> -> FeltPlusConst(y, x.v, n)

ExtSub(x, y, n) ==
    LET kinds == <<ExtKind(x), ExtKind(y)>>
    IN  CASE kinds = <<"val", "val">>    -> Emit("SubE", "E", <<x, y>>, n)
          [] kinds = <<"val", "const">>  -> Emit("SubEI", "E", <<x, y>>, n)
          [] kinds = <<"const", "val">>  -> Emit("SubEIN", "E", <<x, y>>, n)
          [] kinds = <<"val", "base">>   -> Emit("SubEF", "E", <<x, y>>, n)
          [] kinds = <<"base", "val">>   -> Then(Emit("NegE", "E", <<y>>, n),
                                            LAMBDA e, m : Emit("AddEF", "E", <<e, x>>, m))
          [] kinds = <<"base", "const">> -> FeltPlusConst(x, Neg(y.v), n)
          [] kinds = <<"const", "base">> -> Then(FeltPlusConst(y, Zero, n),
                                            LAMBDA e, m : Emit("SubEIN", "E", <<x, e>>, m))

\* A Felt times a constant of the extension.
FeltTimesConst(x, c, n) ==
    Then(FeltPlusConst(x, Zero, n),
         LAMBDA e, m : Emit("MulEI", "E", <<e, Const("E", c)>>, m))

ExtMul(x, y, n) ==
    LET kinds == <<ExtKind(x), ExtKind(y)>>
    IN  CASE kinds = <<"val", "val">>    -> Emit("MulE", "E", <<x, y>>, n)
          [] kinds = <<"val", "const">>  -> Emit("MulEI", "E", <<x, y>>, n)
          [] kinds = <<"const", "val">>  -> Emit("MulEI", "E", <<y, x>>, n)
          [] kinds = <<"val", "base">>   -> Emit("MulEF", "E", <<x, y>>, n)
          [] kinds = <<"base", "val">>   -> Emit("MulEF", "E", <<y, x>>, n)
          [] kinds = <<"base", "const">> -> FeltTimesConst(x, y.v, n)
          [] kinds = <<"const", "base">> -> FeltTimesConst(y, x.v, n)

ExtDiv(x, y, n) ==
    LET kinds == <<ExtKind(x), ExtKind(y)>>
    IN  CASE kinds = <<"val", "val">>    -> Emit("DivE", "E", <<x, y>>, n)
          [] kinds = <<"val", "const">>  -> Emit("MulEI", "E", <<x, Const("E", Inv(y.v))>>, n)
          [] kinds = <<"const", "val">>  -> Emit("DivEIN", "E", <<x, y>>, n)
          [] kinds = <<"val", "base">>   -> Emit("DivEF", "E", <<x, y>>, n)
          [] kinds = <<"base", "val">>   -> Then(FeltPlusConst(x, Zero, n),
                                            LAMBDA e, m : Emit("DivE", "E", <<e, y>>, m))
          [] kinds = <<"base", "const">> -> FeltTimesConst(x, Inv(y.v), n)
          [] kinds = <<"const", "base">> -> Then(BaseExpr("div", Const("F", One), y, n),
                                            LAMBDA f, m : FeltTimesConst(f, x.v, m))

\* Add, Sub, Mul and Div of two symbolic values of any types.
Expr(f, a, b, n) ==
    IF a.t # "E" /\ b.t # "E" THEN BaseExpr(f, a, b, n)
    ELSE LET x == Lift(a)
             y == Lift(b)
         IN  IF f = "div" /\ IsConst(y) /\ y.v = Zero THEN Panics(n)
             ELSE IF IsConst(x) /\ IsConst(y) THEN Folded("E", Apply(f, x.v, y.v), n)
             ELSE CASE f = "add" -> ExtAdd(x, y, n)
                    [] f = "sub" -> ExtSub(x, y, n)
                    [] f = "mul" -> ExtMul(x, y, n)
                    [] f = "div" -> ExtDiv(x, y, n)

NegExpr(x, n) ==
    IF x.t # "E" THEN NegBase(x, n)
    ELSE IF IsConst(x) THEN Folded("E", Neg(x.v), n)
    ELSE Emit("NegE", "E", <<x>>, n)

-----------------------------------------------------------------------------
(* Variable::assign and assert_eq, and the builder's calls on them.        *)

ImmOps == [V |-> "ImmV", F |-> "ImmF", E |-> "ImmE"]

\* dst.assign(x).
AssignTo(dst, x, n) ==
    LET op == IF IsConst(x) THEN Ir(ImmOps[dst.t], <<dst>>, <<x>>)
              ELSE IF dst.t # "E"
              THEN Ir(IF dst.t = "V" THEN "AddVI" ELSE "AddFI", <<dst>>, <<x, Const(dst.t, Zero)>>)
              ELSE Ir(IF x.t = "F" THEN "AddEFFI" ELSE "AddEI", <<dst>>, <<x, Const("E", Zero)>>)
    IN  Pushed(<<op>>, <<dst>>, n)

\* builder.eval into a variable of type t, and builder.constant.
Eval(t, x, n) == AssignTo(Val(t, n), x, n + 1)
Constant(t, v, n) == Eval(t, Const(t, v), n)

Uninit(t, k, n) == Pushed(<<>>, [i \in 1 .. k |-> Val(t, n + i - 1)], n + k)
UninitOne(t, n) == Uninit(t, 1, n)

\* An operation on k fresh variables of type t, which are returned.
Fresh(op, t, k, args, n) ==
    ThenAll(Uninit(t, k, n), LAMBDA s, m : Pushed(<<Ir(op, s, args)>>, s, m))

Evaluated(t, r) == Then(r, LAMBDA x, m : Eval(t, x, m))

AssertOps ==
    [eq |-> [V |-> <<"AssertEqV", "AssertEqVI">>, F |-> <<"AssertEqF", "AssertEqFI">>,
             E |-> <<"AssertEqE", "AssertEqEI">>],
     ne |-> [V |-> <<"AssertNeV", "AssertNeVI">>, F |-> <<"AssertNeF", "AssertNeFI">>,
             E |-> <<"AssertNeE", "AssertNeEI">>]]

\* assert_var_eq, assert_felt_eq and assert_ext_eq, and the same with ne.
\* Constants are compared at once; a Base is first made an Ext.
Assert(rel, t, x, y, n) ==
    LET ops   == AssertOps[rel][t]
        holds == IF rel = "eq" THEN x.v = y.v ELSE x.v # y.v
        One1(op, a, b, m) == Pushed(<<Ir(op, <<>>, <<a, b>>)>>, <<>>, m)
    IN  CASE IsConst(x) /\ IsConst(y) /\ x.t = y.t /\ x.t = t ->
               IF holds THEN Pushed(<<>>, <<>>, n) ELSE Panics(n)
          [] x.t = t /\ y.t = t /\ ~(IsConst(x) /\ IsConst(y)) ->
               IF IsConst(x) THEN One1(ops[2], y, x, n)
               ELSE IF IsConst(y) THEN One1(ops[2], x, y, n) ELSE One1(ops[1], x, y, n)
          [] x.t = t /\ y.t # t ->
               Then(Eval(t, y, n), LAMBDA z, m : IF IsConst(x) THEN One1(ops[2], z, x, m)
                                                 ELSE One1(ops[1], x, z, m))
          [] x.t # t ->
               Then(Eval(t, x, n), LAMBDA w, m :
                   Then(Eval(t, y, m), LAMBDA z, k : One1(ops[1], w, z, k)))

AssertEq(t, x, y, n) == Assert("eq", t, x, y, n)

\* A call for every member of s, one after the other.
Each(s, n, Call(_, _)) ==
    LET upto[i \in 0 .. Len(s)] ==
            IF i = 0 THEN Pushed(<<>>, <<>>, n) ELSE Join(upto[i - 1], LAMBDA m : Call(s[i], m))
    IN  upto[Len(s)]

\* Call(i, x, m), for i in 1 .. k, each on the result of the one before.
Chain(first, k, Call(_, _, _)) ==
    LET upto[i \in 0 .. k] ==
            IF i = 0 THEN first ELSE Then(upto[i - 1], LAMBDA x, m : Call(i, x, m))
    IN  upto[k]

=============================================================================
