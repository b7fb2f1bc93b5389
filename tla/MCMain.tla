------------------------------- MODULE MCMain -------------------------------
(***************************************************************************)
(* Files and command lines on which TLC runs the driver.                   *)
(***************************************************************************)
EXTENDS Session

\* A line by its tag, sort and arguments; the ids are the places in the file.
Line(tag, sort, args) == [tag |-> tag, sort |-> sort, args |-> args, par |-> <<>>, symbol |-> <<>>]
Op(tag, args)         == Line(tag, 2, args)
Sorted(par)           == [Line("bitvec", 0, <<>>) EXCEPT !.par = par]
Arrays(i, el)         == [Line("array", 0, <<>>) EXCEPT !.par = <<i, el>>]
Par(l, par)           == [l EXCEPT !.par = par]
As(l, symbol)         == [l EXCEPT !.symbol = symbol]
WithIds(ls)           == Computed([n \in DOMAIN ls |-> [id |-> n] @@ ls[n]])

\* It counts while an input says so; the second property mentions the input,
\* which the third line names like the counter.
Counter == WithIds(<<
  Sorted(<<1>>), Sorted(<<2>>), As(Line("input", 1, <<>>), <<"top", "x">>),
  Line("state", 2, <<>>), Line("zero", 2, <<>>), Line("init", 2, <<4, 5>>),
  Line("one", 2, <<>>), Line("add", 2, <<4, 7>>), Line("ite", 2, <<3, 8, 4>>),
  Line("next", 2, <<4, 9>>), Par(Line("const", 2, <<>>), <<2>>), Line("eq", 1, <<4, 11>>),
  Line("bad", 0, <<12>>), As(Line("and", 1, <<12, 3>>), <<"both">>), Line("bad", 0, <<14>>),
  As(Line("output", 0, <<4>>), <<"top", "x">>), Line("ugt", 1, <<4, 11>>), Line("bad", 0, <<17>>) >>)

\* A constraint on an input and on a state that the property does not depend on.
Guarded == WithIds(<<
  Sorted(<<1>>), Line("input", 1, <<>>), Line("state", 1, <<>>), Line("state", 1, <<>>),
  Line("state", 1, <<>>), Line("zero", 1, <<>>), Line("one", 1, <<>>),
  Line("init", 1, <<4, 6>>), Line("init", 1, <<5, 7>>), Line("next", 1, <<5, 5>>),
  Line("implies", 1, <<5, -2>>), Line("constraint", 0, <<11>>),
  Line("and", 1, <<2, 3>>), Line("next", 1, <<4, 13>>), Line("bad", 0, <<4>>),
  Line("and", 1, <<3, -4>>), Line("bad", 0, <<16>>) >>)

Memory == WithIds(<<
  Sorted(<<1>>), Arrays(1, 1), Line("input", 1, <<>>), As(Line("state", 2, <<>>), <<"mem">>),
  Line("zero", 1, <<>>), Line("init", 2, <<4, 5>>), Line("input", 1, <<>>),
  Line("write", 2, <<4, 7, 3>>), Line("next", 2, <<4, 8>>), Line("read", 1, <<4, 5>>),
  Line("read", 1, <<4, -5>>), Line("and", 1, <<10, 11>>), Line("bad", 0, <<12>>) >>)

\* A memory that is never set: any value at any time.
Rom == WithIds(<<
  Sorted(<<1>>), Arrays(1, 1), Line("state", 2, <<>>), Line("state", 1, <<>>),
  Line("zero", 1, <<>>), Line("init", 1, <<4, 5>>), Line("next", 1, <<4, -4>>),
  Line("read", 1, <<3, 4>>), As(Line("state", 1, <<>>), <<"$ok">>), Line("one", 1, <<>>),
  Line("init", 1, <<9, 10>>), Line("and", 1, <<9, 8>>), Line("next", 1, <<9, 12>>),
  Line("and", 1, <<12, 4>>), Line("bad", 0, <<14>>) >>)

\* Every operator, on 4 (a), 5 (b) and 6 (c), which is a single bit.
Unary   == <<"not", "neg", "inc", "dec">>
Binary  == <<"add", "sub", "mul", "and", "nand", "or", "nor", "xor", "xnor", "udiv", "urem", "sdiv",
             "srem", "smod", "sll", "srl", "sra">>
Reduced == <<"redand", "redor", "redxor">>
Compared == <<"eq", "neq", "ult", "ulte", "ugt", "ugte", "slt", "slte", "sgt", "sgte", "uaddo", "umulo",
              "ssubo", "sdivo", "saddo", "smulo", "usubo">>

Operators == WithIds(
  <<Sorted(<<1>>), Sorted(<<2>>), Sorted(<<3>>), Line("state", 2, <<>>), Line("state", 2, <<>>),
    Line("input", 1, <<>>), Line("ult", 1, <<4, 5>>), Line("redand", 1, <<4>>),
    Line("iff", 1, <<7, 8>>), Line("implies", 1, <<7, 8>>), Line("and", 1, <<7, 6>>),
    Line("or", 1, <<7, 9>>), Line("xor", 1, <<7, 6>>), Line("not", 1, <<7>>), Line("eq", 1, <<7, 8>>),
    Line("neq", 1, <<7, 9>>), Line("implies", 1, <<-7, 6>>), Line("iff", 1, <<6, -6>>),
    Line("ite", 2, <<7, 4, -5>>), Line("ite", 1, <<6, 7, 8>>), Line("concat", 3, <<7, 4>>),
    Par(Line("slice", 1, <<4>>), <<1, 1>>), Par(Line("uext", 3, <<4>>), <<1>>),
    Par(Line("sext", 3, <<4>>), <<1>>), Par(Line("rol", 2, <<4>>), <<1>>),
    Par(Line("ror", 2, <<4>>), <<1>>), Line("ones", 2, <<>>), Line("eq", 1, <<-4, 27>>),
    Line("neq", 1, <<4, 5>>), Line("bad", 0, <<28>>)>>
  \o [n \in DOMAIN Unary |-> Line(Unary[n], 2, <<4>>)]
  \o [n \in DOMAIN Binary |-> Line(Binary[n], 2, <<4, 5>>)]
  \o [n \in DOMAIN Reduced |-> Line(Reduced[n], 1, <<5>>)]
  \o [n \in DOMAIN Compared |-> Line(Compared[n], 1, <<4, 5>>)])

\* Two updates of one state; a bad line of two bits; an initial value that
\* depends on an input.
Twice == WithIds(<<Sorted(<<1>>), Line("state", 1, <<>>), Line("next", 1, <<2, -2>>),
                   Line("next", 1, <<2, 2>>)>>)
Wide == WithIds(<<Sorted(<<2>>), Line("state", 1, <<>>), Line("bad", 0, <<2>>)>>)
Seeded == WithIds(<<Sorted(<<1>>), Line("state", 1, <<>>), Line("input", 1, <<>>),
                    Line("init", 1, <<2, 3>>)>>)

Live == WithIds(<<
  Sorted(<<1>>), Line("input", 1, <<>>), Line("state", 1, <<>>), Line("zero", 1, <<>>),
  Line("init", 1, <<3, 4>>), Line("xor", 1, <<3, 2>>), Line("next", 1, <<3, 6>>),
  Line("justice", 0, <<3>>), Line("fair", 0, <<3>>) >>)

\* Small, for the engines; and one to be changed, with a constraint.
Tiny == WithIds(<<Sorted(<<1>>), Line("state", 1, <<>>), Line("bad", 0, <<2>>)>>)
Plain == WithIds(<<
  Sorted(<<1>>), Line("input", 1, <<>>), Line("state", 1, <<>>), Line("state", 1, <<>>),
  Line("or", 1, <<2, 3>>), Line("next", 1, <<3, 5>>), Line("bad", 0, <<4>>) >>)

Files == "counter" :> Counter @@ "guarded" :> Guarded @@ "memory" :> Memory @@ "rom" :> Rom
           @@ "operators" :> Operators @@ "twice" :> Twice @@ "wide" :> Wide @@ "seeded" :> Seeded
           @@ "live" :> Live @@ "tiny" :> Tiny @@ "plain" :> Plain

----------------------------------------------------------------------------
Of(base) == File([base |-> base, ext |-> "btor2"])
Bound(n) == Number("bound", n)

Reads == {<<Flag("witness"), Bound(3), Of(f)>> : f \in {"counter", "memory", "rom", "operators", "plain"}}
  \cup {<<Number("prop", p), Text("dump-btor2-witness", "w"), Text("vcd", v), Bound(4), Of("counter")>> :
          p \in 1 .. 3, v \in {"t", "no"}}
  \cup {<<Text("engine", "ic3sa"), Flag("witness"), Bound(4), Of("counter")>>}
  \cup {<<Number("prop", p), Text("vcd", "t"), Bound(3), Of("guarded")>> \o c :
          p \in 0 .. 1, c \in {<<>>}}
  \cup {<<Flag("static-coi"), Text("engine", "ind"), Number("prop", p), Text("vcd", "t"), Of("guarded")>> :
          p \in 0 .. 1}
  \cup {<<Flag("promote-inputvars"), Text("vcd", "t"), Bound(3), Of(f)>> : f \in {"memory", "rom"}}
  \cup {<<Text("dump-btor2-witness", "no"), Of("tiny")>>, <<Of("tiny")>>}
  \cup {<<Of(f)>> : f \in {"twice", "wide", "seeded", "missing"}}
  \cup {<<File([base |-> "tiny", ext |-> "smv"])>>}
  \cup {<<Flag("justice"), Text("justice-translator", "klive"), Flag("witness"), Bound(3), Of("live")>>,
         <<Flag("justice"), Text("vcd", "t"), Text("justice-translator", "klive"), Bound(3), Of("live")>>}

Makes ==
  {<<Text("engine", g), Text("smt-solver", s)>> \o c \o <<Of("tiny")>> :
     g \in Engines, s \in {"bzla", "msat"},
     c \in {<<>>, <<Flag("ceg-prophecy-arrays")>>, <<Flag("ceg-bv-arith")>>,
            <<Flag("ceg-prophecy-arrays"), Flag("cegp-abs-vals")>>,
            <<Pair("smt-solver-opt", "bool_model_generation", "false")>>}}
  \cup {<<Text("engine", "bmc"), Pair("smt-solver-opt", k, "false"), Of("tiny")>> :
          k \in {"incremental", "verbosity"}}
  \cup {<<Text("engine", "interp"), Text("smt-interpolator", i), Of("tiny")>> : i \in {"cvc5", "msat"}}
  \cup {<<Text("smt-solver", "z3"), Of("tiny")>>}

Orders ==
  {<<Flag("bmc-neg-bad-step"), Flag("bmc-neg-bad-step-all"), Bound(2), Of("tiny")>>,
   <<Flag("no-ic3ia-reduce-preds"), Flag("no-ic3ia-sim-cex"), Flag("no-kind-ind-check"), Of("tiny")>>,
   <<Bound(-1), Flag("witness"), Text("vcd", "t"), Of("tiny")>>,
   <<Number("bmc-bound-step", 0), Flag("static-coi"), Of("tiny")>>,
   <<Number("prop", ULongMax + 1), Text("engine", "none"), Of("tiny")>>,
   <<Number("prop", -1), Number("bmc-bound-start", 3), Of("tiny")>>,
   <<Number("klive-bound", 5), Flag("help"), Of("tiny")>>,
   <<Text("reset", "rst"), Number("resetsteps", 2)>>,
   <<Of("tiny"), Flag("witness"), Of("rom")>>,
   <<Text("bound", "x"), Of("tiny")>>,
   <<Number("ic3sa-initial-terms-lvl", 5), Text("engine", "ic3sa"), Of("tiny")>>}

AllCommands == Reads \cup Makes \cup Orders
HiddenNames == {<<"$ok">>}
NoNames == {}
WritableFiles == {"w", "t"}
WithMathSAT == {"msat"}
EditedFiles == {"plain"}
=============================================================================
