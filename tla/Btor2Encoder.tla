---------------------------- MODULE Btor2Encoder ----------------------------
(***************************************************************************)
(* frontends/btor2_encoder.h and btor2_encoder.cpp: from the lines of a    *)
(* BTOR2 file to the terms of a transition system.                         *)
(*                                                                         *)
(* A line is what btor2parser returns: its id, its tag, the id of its      *)
(* sort, the ids of its arguments (negative if negated), its indices and   *)
(* the number of a constant (par), and its symbol, split at the dots (<<>> *)
(* if it has none).                                                        *)
(* The encoder is a record; Encode(e, l) is one turn of the loop of parse. *)
(* The solver tells BOOL from BV of width 1, as Bitwuzla does.             *)
(***************************************************************************)
EXTENDS TransitionSystem

NewEncoder(ts) ==
  [ts |-> ts, sorts |-> <<>>, terms |-> <<>>, renaming |-> <<>>, symbol_map |-> <<>>,
   inputsvec |-> <<>>, statesvec |-> <<>>, no_next_states |-> <<>>, id2statenum |-> <<>>,
   initialized_states |-> {}, propvec |-> <<>>, justicevec |-> <<>>, fairvec |-> <<>>]

\* preprocess: a state without a symbol takes that of the first output that
\* shows it.
preprocess(e, lines) ==
  LET unnamed == {lines[n].id : n \in {m \in DOMAIN lines : lines[m].tag = "state" /\ lines[m].symbol = <<>>}}
      shows(n, id) == lines[n].tag = "output" /\ lines[n].symbol # <<>> /\ lines[n].args[1] = id
      showing(id)  == {n \in DOMAIN lines : shows(n, id)}
  IN  [e EXCEPT !.renaming = [id \in {u \in unnamed : showing(u) # {}} |->
         lines[CHOOSE n \in showing(id) : \A m \in showing(id) : n <= m].symbol]]

----------------------------------------------------------------------------
(* Between Booleans and bit-vectors of width 1.                            *)

bool_to_bv(t) ==
  IF SortKind(t) = "BOOL" THEN Make("Ite", <<t, Value(1, BV(1)), Value(0, BV(1))>>) ELSE t

Can_bv_to_bool(t) == SortKind(t) = "BV" => Width(t) = 1
bv_to_bool(t) == IF SortKind(t) = "BV" THEN Equal(t, Value(1, BV(1))) ELSE t

\* The operators it is used for have at most two arguments: when their sorts
\* differ, Booleans are no majority, and wide_bvs is never read.
lazy_convert(ts) ==
  IF Cardinality({ts[n].sort : n \in DOMAIN ts}) > 1
  THEN [n \in DOMAIN ts |-> bool_to_bv(ts[n])] ELSE ts

\* Arguments of eq, neq and implies: both as they are, or both converted.
SameSort(ts, convert(_)) ==
  IF ts[1].sort = ts[2].sort THEN ts ELSE <<convert(ts[1]), convert(ts[2])>>

Negated(t) == Make(IF SortKind(t) = "BV" THEN "BVNot" ELSE "Not", <<t>>)
TermAt(e, id) == IF id < 0 THEN Negated(e.terms[-id]) ELSE e.terms[id]
TermArgs(e, l) == [n \in DOMAIN l.args |-> TermAt(e, l.args[n])]

bvopmap ==
  "add" :> "BVAdd" @@ "and" :> "BVAnd" @@ "concat" :> "Concat" @@ "iff" :> "BVComp"
    @@ "mul" :> "BVMul" @@ "nand" :> "BVNand" @@ "neg" :> "BVNeg" @@ "nor" :> "BVNor"
    @@ "not" :> "BVNot" @@ "or" :> "BVOr" @@ "sdiv" :> "BVSdiv" @@ "sgt" :> "BVSgt"
    @@ "sgte" :> "BVSge" @@ "sll" :> "BVShl" @@ "slt" :> "BVSlt" @@ "slte" :> "BVSle"
    @@ "smod" :> "BVSmod" @@ "sra" :> "BVAshr" @@ "srem" :> "BVSrem" @@ "srl" :> "BVLshr"
    @@ "sub" :> "BVSub" @@ "udiv" :> "BVUdiv" @@ "ugt" :> "BVUgt" @@ "ugte" :> "BVUge"
    @@ "ult" :> "BVUlt" @@ "ulte" :> "BVUle" @@ "urem" :> "BVUrem" @@ "xnor" :> "BVXnor"
    @@ "xor" :> "BVXor"

boolopmap == "and" :> "And" @@ "or" :> "Or" @@ "xor" :> "Xor" @@ "not" :> "Not" @@ "iff" :> "Equal"

----------------------------------------------------------------------------
(* The terms of the operators that are not in the tables.                  *)

Top(t) == MakeIndexed("Extract", <<Width(t) - 1, Width(t) - 1>>, <<t>>)
Extend(n, t) == MakeIndexed("Zero_Extend", <<n>>, <<t>>)

EqTerm(ts) ==
  LET same == SameSort(ts, bool_to_bv)
  IN  Make(IF SortKind(same[1]) = "BV" THEN "BVComp" ELSE "Equal", same)

NeqTerm(ts) ==
  LET same == SameSort(ts, bool_to_bv)
  IN  IF SortKind(same[1]) = "BV" THEN Make("BVNot", <<Make("BVComp", same)>>)
      ELSE Make("Distinct", same)

ImpliesTerm(ts) ==
  LET same == SameSort(ts, bv_to_bool)
  IN  IF SortKind(same[1]) = "BV" THEN Make("BVOr", <<Make("BVNot", <<same[1]>>), same[2]>>)
      ELSE Make("Implies", same)

RedxorTerm(t) ==
  LET bit(i) == MakeIndexed("Extract", <<i, i>>, <<t>>)
  IN  FoldLeft(LAMBDA r, i : Make("BVXor", <<r, bit(Width(t) - 1 - i)>>), Top(t),
               [i \in 1 .. Width(t) - 1 |-> i])

UaddoTerm(s, t) ==
  MakeIndexed("Extract", <<Width(s), Width(s)>>, <<Make("BVAdd", <<Extend(1, s), Extend(1, t)>>)>>)

\* The outer Equal where an And is meant.
SaddoTerm(s, t) ==
  Equal(Equal(Top(s), Top(t)), Make("Distinct", <<Top(s), Top(Make("BVAdd", <<s, t>>))>>))

SsuboTerm(s, t) ==
  And(Make("Distinct", <<Top(s), Top(t)>>), Equal(Top(t), Top(Make("BVSub", <<s, t>>))))

SdivoTerm(s, t) == And(Equal(s, Value(2^(Width(s) - 1), s.sort)), Equal(t, Ones(s.sort)))

\* t1 is not inverted, and the carry is.
UsuboTerm(s, t) ==
  LET w == Width(s)
      add1 == Make("BVAdd", <<Extend(1, t), Value(1, BV(w + 1))>>)
  IN  Make("BVNot", <<MakeIndexed("Extract", <<w, w>>, <<Make("BVAdd", <<Extend(1, s), add1>>)>>)>>)

Product(s, t) == Make("BVMul", <<Extend(Width(s), s), Extend(Width(s), t)>>)
Hi(p) == MakeIndexed("Extract", <<Width(p) - 1, Width(p) \div 2>>, <<p>>)
Lo(p) == MakeIndexed("Extract", <<(Width(p) \div 2) - 1, 0>>, <<p>>)

UmuloTerm(s, t) == Make("Distinct", <<Hi(Product(s, t)), Value(0, s.sort)>>)

\* The operands of a signed product are extended with zeros.
SmuloTerm(s, t) ==
  LET p == Product(s, t)
  IN  Make("Distinct", <<Hi(p), Make("BVAshr", <<Lo(p), Value(Width(s) - 1, s.sort)>>)>>)

Special(l, ts, sort) ==
  LET t0 == bool_to_bv(ts[1])
      t1 == bool_to_bv(ts[2])
      t2 == bool_to_bv(ts[3])
  IN  CASE l.tag = "const"  -> Value(l.par[1], sort)
        [] l.tag = "one"    -> Value(1, sort)
        [] l.tag = "ones"   -> Ones(sort)
        [] l.tag = "zero"   -> Value(0, sort)
        [] l.tag = "eq"     -> EqTerm(ts)
        [] l.tag = "neq"    -> NeqTerm(ts)
        [] l.tag = "implies" -> ImpliesTerm(ts)
        [] l.tag = "slice"  -> MakeIndexed("Extract", l.par, <<t0>>)
        [] l.tag = "sext"   -> MakeIndexed("Sign_Extend", l.par, <<t0>>)
        [] l.tag = "uext"   -> MakeIndexed("Zero_Extend", l.par, <<t0>>)
        [] l.tag = "rol"    -> MakeIndexed("Rotate_Left", l.par, <<t0>>)
        [] l.tag = "ror"    -> MakeIndexed("Rotate_Right", l.par, <<t0>>)
        [] l.tag = "inc"    -> Make("BVAdd", <<t0, Value(1, t0.sort)>>)
        [] l.tag = "dec"    -> Make("BVSub", <<t0, Value(1, t0.sort)>>)
        [] l.tag = "redand" -> Make("BVComp", <<t0, Ones(t0.sort)>>)
        [] l.tag = "redor"  -> Make("Distinct", <<t0, Value(0, t0.sort)>>)
        [] l.tag = "redxor" -> RedxorTerm(t0)
        [] l.tag = "ite"    -> Make("Ite", <<bv_to_bool(ts[1]), t1, t2>>)
        [] l.tag = "uaddo"  -> UaddoTerm(t0, t1)
        [] l.tag = "saddo"  -> SaddoTerm(t0, t1)
        [] l.tag = "sdivo"  -> SdivoTerm(t0, t1)
        [] l.tag = "umulo"  -> UmuloTerm(t0, t1)
        [] l.tag = "smulo"  -> SmuloTerm(t0, t1)
        [] l.tag = "usubo"  -> UsuboTerm(t0, t1)
        [] l.tag = "ssubo"  -> SsuboTerm(t0, t1)
        [] l.tag = "read"   -> Make("Select", <<ts[1], t1>>)
        [] l.tag = "write"  -> Make("Store", <<ts[1], t1, t2>>)

SpecialTags ==
  {"const", "one", "ones", "zero", "eq", "neq", "implies", "slice", "sext", "uext", "rol", "ror",
   "inc", "dec", "redand", "redor", "redxor", "ite", "uaddo", "saddo", "sdivo", "umulo", "smulo",
   "usubo", "ssubo", "read", "write"}

\* The general case.
General(l, ts) ==
  IF l.tag \in DOMAIN boolopmap
  THEN LET conv == lazy_convert(ts)
       IN  Make((IF SortKind(conv[1]) = "BV" THEN bvopmap ELSE boolopmap)[l.tag], conv)
  ELSE Make(bvopmap[l.tag], [n \in DOMAIN ts |-> bool_to_bv(ts[n])])

----------------------------------------------------------------------------
(* The lines that change more than terms_.                                 *)

Declare(e, l, name, symbol, ts) ==
  [e EXCEPT !.ts = ts, !.terms = (l.id :> Symbol(name, e.sorts[l.sort])) @@ @,
            !.symbol_map = (name :> symbol) @@ @]

EncodeSort(e, l) ==
  [e EXCEPT !.sorts = (l.id :> IF l.tag = "bitvec" THEN BV(l.par[1])
                               ELSE ARRAY(e.sorts[l.par[1]], e.sorts[l.par[2]])) @@ @]

EncodeState(e, l) ==
  LET name   == <<"state", l.id>>
      symbol == IF l.symbol = <<>> /\ l.id \in DOMAIN e.renaming THEN e.renaming[l.id] ELSE l.symbol
      num    == Len(e.statesvec)
      state  == Symbol(name, e.sorts[l.sort])
  IN  [Declare(e, l, name, symbol, make_statevar(e.ts, name, e.sorts[l.sort])) EXCEPT
         !.statesvec = Append(@, state), !.no_next_states = (num :> state) @@ @,
         !.id2statenum = (l.id :> num) @@ @]

EncodeInput(e, l) ==
  LET name == <<"input", l.id>>
  IN  [Declare(e, l, name, l.symbol, make_inputvar(e.ts, name, e.sorts[l.sort])) EXCEPT
         !.inputsvec = Append(@, Symbol(name, e.sorts[l.sort]))]

EncodeOutput(e, l) ==
  LET t    == TermAt(e, l.args[1])
      name == IF Can_name_term(e.ts, <<"output", l.id>>, t) THEN <<"output", l.id>>
              ELSE <<"_out_output", l.id>>
  IN  [e EXCEPT !.ts = name_term(@, name, t), !.terms = (l.id :> t) @@ @,
                !.symbol_map = (name :> l.symbol) @@ @]

\* Slip: the inputs of a constraint stay inputs.
EncodeConstraint_NoPromote(e, l) ==
  LET c == bv_to_bool(TermAt(e, l.args[1]))
  IN  [e EXCEPT !.ts = add_constraint(@, c, TRUE), !.terms = (l.id :> c) @@ @]

EncodeConstraint(e, l) ==
  LET c == bv_to_bool(TermAt(e, l.args[1]))
  IN  [e EXCEPT !.ts = add_constraint(promote_inputvars_in(@, c), c, TRUE),
                !.terms = (l.id :> c) @@ @]

EncodeInit(e, l) ==
  LET s  == TermAt(e, l.args[1])
      t  == TermAt(e, l.args[2])
      eq == IF SortKind(s) = "BV" THEN Equal(s, bool_to_bv(t))
            ELSE IF SortKind(t) = "BV" THEN Equal(s, ConstArray(t, s.sort))
            ELSE Equal(s, t)
  IN  [e EXCEPT !.ts = constrain_init(@, eq), !.terms = (l.id :> eq) @@ @,
                !.initialized_states = @ \cup {s}]

EncodeNext(e, l) ==
  LET s == TermAt(e, l.args[1])
      t == bool_to_bv(TermAt(e, l.args[2]))
  IN  [e EXCEPT !.ts = assign_next(@, s, t), !.terms = (l.id :> t) @@ @,
                !.no_next_states = Restrict(@, DOMAIN @ \ {e.id2statenum[l.args[1]]})]

EncodeBad(e, l) ==
  LET bad  == bv_to_bool(TermAt(e, l.args[1]))
      prop == Make("Not", <<bad>>)
  IN  [e EXCEPT !.ts = promote_inputvars_in(@, bad), !.propvec = Append(@, prop),
                !.terms = (l.id :> prop) @@ @]

EncodeJustice(e, l) ==
  [e EXCEPT !.justicevec = Append(@, [n \in DOMAIN l.args |-> bv_to_bool(TermAt(e, l.args[n]))])]

EncodeFair(e, l) ==
  LET t == TermAt(e, l.args[1])
  IN  [e EXCEPT !.fairvec = Append(@, t), !.terms = (l.id :> t) @@ @]

EncodeTerm(e, l) ==
  LET sort == IF l.sort = 0 THEN BOOL ELSE e.sorts[l.sort]
      t == IF l.tag \in SpecialTags THEN Special(l, TermArgs(e, l), sort)
           ELSE General(l, TermArgs(e, l))
  IN  [e EXCEPT !.terms = (l.id :> t) @@ @]

\* The symbol of a line that is not named yet; a failure is only logged.
NameLine(e, l) ==
  LET name == <<"term", l.id>>
      here == l.symbol # <<>> /\ l.tag \notin {"input", "output", "state"} /\ l.id \in DOMAIN e.terms
  IN  IF here /\ Can_name_term(e.ts, name, e.terms[l.id])
      THEN [e EXCEPT !.ts = name_term(@, name, e.terms[l.id]),
                     !.symbol_map = (name :> l.symbol) @@ @]
      ELSE e

\* A PonoException that leaves parse.
EncodeThrows(e, l) ==
  \/ l.tag \in {"constraint", "bad", "justice"}
       /\ \E n \in DOMAIN l.args : ~Can_bv_to_bool(TermAt(e, l.args[n]))
  \/ l.tag = "init" /\ \/ e.sorts[l.sort] # TermAt(e, l.args[1]).sort
                       \/ ~only_curr(e.ts, TermAt(e, l.args[2]))
  \/ l.tag = "next" /\ ~Can_assign_next(e.ts, TermAt(e, l.args[1]), TermAt(e, l.args[2]))

Encode(e, l) ==
  NameLine(CASE l.tag \in {"bitvec", "array"} -> EncodeSort(e, l)
             [] l.tag = "state"      -> EncodeState(e, l)
             [] l.tag = "input"      -> EncodeInput(e, l)
             [] l.tag = "output"     -> EncodeOutput(e, l)
             [] l.tag = "constraint" -> EncodeConstraint(e, l)
             [] l.tag = "init"       -> EncodeInit(e, l)
             [] l.tag = "next"       -> EncodeNext(e, l)
             [] l.tag = "bad"        -> EncodeBad(e, l)
             [] l.tag = "justice"    -> EncodeJustice(e, l)
             [] l.tag = "fair"       -> EncodeFair(e, l)
             [] OTHER                -> EncodeTerm(e, l), l)

\* lookup_or_key.
lookup_or_key(map, key) == IF key \in DOMAIN map /\ map[key] # <<>> THEN map[key] ELSE key
=============================================================================
