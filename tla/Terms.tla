------------------------------- MODULE Terms -------------------------------
(***************************************************************************)
(* Sorts, terms and their values: the part of smt-switch that the encoder, *)
(* the transition system and the printers use.  External code, modelled by *)
(* what its operators mean in SMT-LIB.                                     *)
(*                                                                         *)
(* A term is a tree, and equal trees are the same term, which is what the  *)
(* hash table of a solver gives.  The value of a Boolean is 0 or 1, of a   *)
(* bit-vector a number, of an array a function from numbers.               *)
(***************************************************************************)
EXTENDS Integers, Sequences, FiniteSetsExt, Functions, TLC

BOOL        == [kind |-> "BOOL"]
BV(w)       == [kind |-> "BV", width |-> w]
ARRAY(i, e) == [kind |-> "ARRAY", index |-> i, elem |-> e]

SortKind(t) == t.sort.kind
Width(t) == t.sort.width

Symbol(name, sort)  == [op |-> "symbol", name |-> name, sort |-> sort]
Value(v, sort)      == [op |-> "value", value |-> v, sort |-> sort]
True == Value(1, BOOL)
IsSymbol(t) == t.op = "symbol"
IsLeaf(t) == t.op \in {"symbol", "value"}

Relations == {"Equal", "Distinct", "And", "Or", "Xor", "Not", "Implies", "BVUlt", "BVUle",
              "BVUgt", "BVUge", "BVSlt", "BVSle", "BVSgt", "BVSge"}

SortOf(op, par, args) ==
  LET s == args[1].sort
  IN  CASE op \in Relations -> BOOL
        [] op = "BVComp"    -> BV(1)
        [] op = "Extract"   -> BV(par[1] - par[2] + 1)
        [] op \in {"Zero_Extend", "Sign_Extend"} -> BV(s.width + par[1])
        [] op = "Concat"    -> BV(s.width + args[2].sort.width)
        [] op = "Ite"       -> args[2].sort
        [] op = "Select"    -> s.elem
        [] OTHER            -> s

\* SmtSolver::make_term, with the indices of an Op.
MakeIndexed(op, par, args) == [op |-> op, par |-> par, args |-> args, sort |-> SortOf(op, par, args)]
Make(op, args) == MakeIndexed(op, <<>>, args)
ConstArray(t, sort) == [op |-> "const", par |-> <<>>, args |-> <<t>>, sort |-> sort]

Ones(sort) == Value(2^sort.width - 1, sort)

RECURSIVE FreeSymbols(_), Substitute(_, _), Eval(_, _)

\* get_free_symbolic_consts.
FreeSymbols(t) ==
  IF IsSymbol(t) THEN {t}
  ELSE IF IsLeaf(t) THEN {}
  ELSE UNION {FreeSymbols(t.args[n]) : n \in DOMAIN t.args}

\* SmtSolver::substitute, and the walker that replaces larger terms: what is
\* replaced is not looked into.
Substitute(t, map) ==
  IF t \in DOMAIN map THEN map[t]
  ELSE IF IsLeaf(t) THEN t
  ELSE [t EXCEPT !.args = [n \in DOMAIN t.args |-> Substitute(t.args[n], map)]]

----------------------------------------------------------------------------
Bit(v, i) == (v \div 2^i) % 2
FromBits(w, bit(_)) == FoldFunction(+, 0, [i \in 0 .. w - 1 |-> bit(i) * 2^i])
Signed(v, w) == IF Bit(v, w - 1) = 1 THEN v - 2^w ELSE v
AsBit(b) == IF b THEN 1 ELSE 0
AbsOf(n) == IF n < 0 THEN 0 - n ELSE n
Truncated(a, b) == IF (a < 0) = (b < 0) THEN AbsOf(a) \div AbsOf(b) ELSE 0 - (AbsOf(a) \div AbsOf(b))

\* The values of a sort.
Values(sort) ==
  CASE sort.kind = "BOOL"  -> 0 .. 1
    [] sort.kind = "BV"    -> 0 .. 2^sort.width - 1
    [] sort.kind = "ARRAY" -> [0 .. 2^sort.index.width - 1 -> 0 .. 2^sort.elem.width - 1]

\* Operators on bit-vectors of one width; the first group is bit by bit.
BitOp(op, a, b) ==
  CASE op = "BVAnd"  -> a * b          [] op = "BVNand" -> 1 - a * b
    [] op = "BVOr"   -> a + b - a * b  [] op = "BVNor"  -> 1 - (a + b - a * b)
    [] op = "BVXor"  -> (a + b) % 2    [] op = "BVXnor" -> 1 - ((a + b) % 2)

Unsigned(op, a, b, w) ==
  CASE op = "BVAdd"  -> a + b
    [] op = "BVSub"  -> a - b
    [] op = "BVMul"  -> a * b
    [] op = "BVUdiv" -> IF b = 0 THEN 2^w - 1 ELSE a \div b
    [] op = "BVUrem" -> IF b = 0 THEN a ELSE a % b
    [] op = "BVShl"  -> IF b >= w THEN 0 ELSE a * 2^b
    [] op = "BVLshr" -> IF b >= w THEN 0 ELSE a \div 2^b

\* s and t are the signed values; a division by zero is defined.
SignedOp(op, s, b, t, w) ==
  CASE op = "BVSdiv" -> IF t = 0 THEN (IF s < 0 THEN 1 ELSE -1) ELSE Truncated(s, t)
    [] op = "BVSrem" -> IF t = 0 THEN s ELSE s - t * Truncated(s, t)
    [] op = "BVSmod" -> IF t = 0 THEN s ELSE IF t < 0 THEN 0 - ((0 - s) % (0 - t)) ELSE (s % t)
    [] op = "BVAshr" -> s \div 2^(IF b >= w THEN w ELSE b)

BitOps == {"BVAnd", "BVNand", "BVOr", "BVNor", "BVXor", "BVXnor"}
SignedOps == {"BVSdiv", "BVSrem", "BVSmod", "BVAshr"}

Compare(op, a, b, s, t) ==
  CASE op \in {"Equal", "BVComp"} -> a = b
    [] op = "Distinct" -> a # b
    [] op = "And" -> a = 1 /\ b = 1
    [] op = "Or"  -> a = 1 \/ b = 1
    [] op = "Xor" -> a # b
    [] op = "Implies" -> a = 0 \/ b = 1
    [] op = "BVUlt" -> a < b   [] op = "BVUle" -> a <= b
    [] op = "BVUgt" -> a > b   [] op = "BVUge" -> a >= b
    [] op = "BVSlt" -> s < t   [] op = "BVSle" -> s <= t
    [] op = "BVSgt" -> s > t   [] op = "BVSge" -> s >= t

\* The value of t when f gives the symbols their values.
Eval(t, f) ==
  IF t.op = "symbol" THEN f[t.name]
  ELSE IF t.op = "value" THEN t.value
  ELSE LET a == Eval(t.args[1], f)
           b == Eval(t.args[2], f)
           w == t.args[1].sort.width
           sign(v) == IF t.args[1].sort.kind = "BV" THEN Signed(v, w) ELSE v
       IN  CASE t.op = "Not"         -> 1 - a
             [] t.op = "BVNot"       -> 2^w - 1 - a
             [] t.op = "BVNeg"       -> (0 - a) % 2^w
             [] t.op = "Extract"     -> (a \div 2^t.par[2]) % 2^(t.par[1] - t.par[2] + 1)
             [] t.op = "Zero_Extend" -> a
             [] t.op = "Sign_Extend" -> sign(a) % 2^t.sort.width
             [] t.op = "Rotate_Left" -> FromBits(w, LAMBDA i : Bit(a, (i - t.par[1]) % w))
             [] t.op = "Rotate_Right" -> FromBits(w, LAMBDA i : Bit(a, (i + t.par[1]) % w))
             [] t.op = "Concat"      -> a * 2^t.args[2].sort.width + b
             [] t.op = "Ite"         -> IF a = 1 THEN b ELSE Eval(t.args[3], f)
             [] t.op = "Select"      -> a[b]
             [] t.op = "Store"       -> [a EXCEPT ![b] = Eval(t.args[3], f)]
             [] t.op = "const"       -> [i \in 0 .. 2^t.sort.index.width - 1 |-> a]
             [] t.op \in Relations \cup {"BVComp"} -> AsBit(Compare(t.op, a, b, sign(a), sign(b)))
             [] t.op \in BitOps      -> FromBits(w, LAMBDA i : BitOp(t.op, Bit(a, i), Bit(b, i)))
             [] t.op \in SignedOps   -> SignedOp(t.op, sign(a), b, sign(b), w) % 2^w
             [] OTHER                -> Unsigned(t.op, a, b, w) % 2^w

\* The assignments of values to a set of symbols.
Frames(symbols) ==
  FoldSet(LAMBDA s, fs : {(s.name :> v) @@ f : v \in Values(s.sort), f \in fs}, {<<>>}, symbols)
=============================================================================
