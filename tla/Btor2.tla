------------------------------- MODULE Btor2 --------------------------------
(***************************************************************************)
(* What a BTOR2 file means, by the description of the format and its       *)
(* simulator btorsim: the value of a line, the steps of the file, and what *)
(* a witness says.  External code: nothing here looks at the encoder.      *)
(*                                                                         *)
(* The id of a line is its place in the file.  A frame gives the ids of    *)
(* the states and inputs their values; bit-vectors of width 1 are 0 or 1.  *)
(***************************************************************************)
EXTENDS Terms, SequencesExt

Ids(lines, tag) == {n \in DOMAIN lines : lines[n].tag = tag}
NextLine(lines, s) == {n \in Ids(lines, "next") : lines[n].args[1] = s}
InitLine(lines, s) == {n \in Ids(lines, "init") : lines[n].args[1] = s}

RECURSIVE SortAt(_, _)
SortAt(lines, id) ==
  IF lines[id].tag = "bitvec" THEN BV(lines[id].par[1])
  ELSE ARRAY(SortAt(lines, lines[id].par[1]), SortAt(lines, lines[id].par[2]))

SortOfLine(lines, id) == SortAt(lines, lines[lines[IF id < 0 THEN -id ELSE id].sort].id)
WidthOf(lines, id) == SortOfLine(lines, id).width

\* Operators whose operands and result are numbers of w bits, s and t their
\* signed values.
Arithmetic(tag, a, b, s, t, w) ==
  CASE tag = "add"  -> (a + b) % 2^w
    [] tag = "sub"  -> (a - b) % 2^w
    [] tag = "mul"  -> (a * b) % 2^w
    [] tag = "neg"  -> (0 - a) % 2^w
    [] tag = "not"  -> 2^w - 1 - a
    [] tag = "inc"  -> (a + 1) % 2^w
    [] tag = "dec"  -> (a - 1) % 2^w
    [] tag = "udiv" -> IF b = 0 THEN 2^w - 1 ELSE a \div b
    [] tag = "urem" -> IF b = 0 THEN a ELSE a % b
    [] tag = "sdiv" -> (IF t = 0 THEN (IF s < 0 THEN 1 ELSE -1) ELSE Truncated(s, t)) % 2^w
    [] tag = "srem" -> (IF t = 0 THEN s ELSE s - t * Truncated(s, t)) % 2^w
    [] tag = "smod" -> (IF t = 0 THEN s ELSE s - t * (IF t < 0 THEN (0 - s) \div (0 - t) ELSE s \div t)) % 2^w
    [] tag = "sll"  -> IF b >= w THEN 0 ELSE (a * 2^b) % 2^w
    [] tag = "srl"  -> IF b >= w THEN 0 ELSE a \div 2^b
    [] tag = "sra"  -> (IF b >= w THEN (IF s < 0 THEN -1 ELSE 0) ELSE s \div 2^b) % 2^w

Bits(a, w) == [i \in 0 .. w - 1 |-> Bit(a, i)]
Bitwise == {"and", "nand", "or", "nor", "xor", "xnor"}
BitOf(tag, x, y) ==
  AsBit(CASE tag = "and" -> x = 1 /\ y = 1   [] tag = "nand" -> ~(x = 1 /\ y = 1)
          [] tag = "or"  -> x = 1 \/ y = 1   [] tag = "nor"  -> ~(x = 1 \/ y = 1)
          [] tag = "xor" -> x # y            [] tag = "xnor" -> x = y)

\* Operators with a truth value; m is the number of values, an overflow is a
\* result out of range.
Fits(n, w) == -(2^(w - 1)) <= n /\ n < 2^(w - 1)
Truth(tag, a, b, s, t, w) ==
  CASE tag \in {"eq", "iff"} -> a = b
    [] tag = "neq"     -> a # b
    [] tag = "implies" -> a = 1 => b = 1
    [] tag = "ult"  -> a < b   [] tag = "ulte" -> a <= b  [] tag = "ugt" -> a > b  [] tag = "ugte" -> a >= b
    [] tag = "slt"  -> s < t   [] tag = "slte" -> s <= t  [] tag = "sgt" -> s > t  [] tag = "sgte" -> s >= t
    [] tag = "redand" -> a = 2^w - 1
    [] tag = "redor"  -> a # 0
    [] tag = "redxor" -> FoldFunction(+, 0, Bits(a, w)) % 2 = 1
    [] tag = "uaddo"  -> a + b >= 2^w
    [] tag = "usubo"  -> a < b
    [] tag = "umulo"  -> a * b >= 2^w
    [] tag = "saddo"  -> ~Fits(s + t, w)
    [] tag = "ssubo"  -> ~Fits(s - t, w)
    [] tag = "smulo"  -> ~Fits(s * t, w)
    [] tag = "sdivo"  -> t # 0 /\ ~Fits(Truncated(s, t), w)

TruthTags ==
  {"eq", "iff", "neq", "implies", "ult", "ulte", "ugt", "ugte", "slt", "slte", "sgt", "sgte", "redand",
   "redor", "redxor", "uaddo", "usubo", "umulo", "saddo", "ssubo", "smulo", "sdivo"}

\* The value of a line; a negative id is its complement.
RECURSIVE ValueAt(_, _, _)
ValueAt(lines, id, f) ==
  LET l == lines[id]
      arg(n) == ValueAt(lines, l.args[n], f)
      w == WidthOf(lines, l.args[1])
      sign(v) == IF SortOfLine(lines, l.args[1]).kind = "BV" THEN Signed(v, w) ELSE v
      a == arg(1)
      b == IF Len(l.args) > 1 THEN arg(2) ELSE 0
      \* a shift or a rotation by n places to the left
      rotated(n) == FromBits(w, LAMBDA i : Bit(a, (i - n) % w))
  IN  IF id < 0 THEN 2^WidthOf(lines, id) - 1 - ValueAt(lines, -id, f)
      ELSE CASE l.tag \in {"state", "input"} -> f[id]
             [] l.tag = "const" -> l.par[1]
             [] l.tag = "zero"  -> 0
             [] l.tag = "one"   -> 1
             [] l.tag = "ones"  -> 2^WidthOf(lines, id) - 1
             [] l.tag = "output" -> a
             [] l.tag = "slice" -> (a \div 2^l.par[2]) % 2^(l.par[1] - l.par[2] + 1)
             [] l.tag = "uext"  -> a
             [] l.tag = "sext"  -> sign(a) % 2^(w + l.par[1])
             [] l.tag = "rol"   -> rotated(l.par[1])
             [] l.tag = "ror"   -> rotated(0 - l.par[1])
             [] l.tag = "concat" -> a * 2^WidthOf(lines, l.args[2]) + b
             [] l.tag = "ite"   -> IF a = 1 THEN b ELSE arg(3)
             [] l.tag = "read"  -> a[b]
             [] l.tag = "write" -> [a EXCEPT ![b] = arg(3)]
             [] l.tag \in Bitwise   -> FromBits(w, LAMBDA i : BitOf(l.tag, Bit(a, i), Bit(b, i)))
             [] l.tag \in TruthTags -> AsBit(Truth(l.tag, a, b, sign(a), sign(b), w))
             [] OTHER -> Arithmetic(l.tag, a, b, sign(a), sign(b), w)

----------------------------------------------------------------------------
(* Steps.                                                                  *)

Holds(lines, id, f) == ValueAt(lines, id, f) = 1
Constrained(lines, f) == \A c \in Ids(lines, "constraint") : Holds(lines, lines[c].args[1], f)
IsBad(lines, b, f) == Holds(lines, lines[b].args[1], f)

\* The value an array takes from an element, or any other value.
Spread(lines, s, id, v) ==
  LET sort == SortOfLine(lines, s)
  IN  IF sort.kind = "ARRAY" /\ SortOfLine(lines, id).kind = "BV"
      THEN [i \in 0 .. 2^sort.index.width - 1 |-> v] ELSE v

InitValue(lines, s, f) ==
  LET i == lines[CHOOSE n \in InitLine(lines, s) : TRUE]
  IN  Spread(lines, s, i.args[2], ValueAt(lines, i.args[2], f))
NextValue(lines, s, f) == ValueAt(lines, lines[CHOOSE n \in NextLine(lines, s) : TRUE].args[2], f)

IsInitial(lines, f) ==
  \A s \in Ids(lines, "state") : InitLine(lines, s) # {} => f[s] = InitValue(lines, s, f)
IsStep(lines, f, g) ==
  \A s \in Ids(lines, "state") : NextLine(lines, s) # {} => g[s] = NextValue(lines, s, f)

\* Every value of the states and inputs.
AllFrames(lines) ==
  FoldSet(LAMBDA s, fs : {(s :> v) @@ f : v \in Values(SortOfLine(lines, s)), f \in fs}, {<<>>},
          Ids(lines, "state") \cup Ids(lines, "input"))
=============================================================================
