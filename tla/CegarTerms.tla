----------------------------- MODULE CegarTerms -----------------------------
(***************************************************************************)
(* Abstraction refinement of terms: CegarOpsUf with OpsAbstractor, which   *)
(* replaces operators by uninterpreted functions or by free symbols        *)
(* (engines/cegar_ops_uf.cpp, modifiers/ops_abstractor.cpp), and           *)
(* CegarValues, which replaces constants by frozen variables               *)
(* (engines/cegar_values.cpp).  The loop is that of CEGAR (cegar.h).       *)
(*                                                                         *)
(* A state of the abstract system is a state of the concrete one with what *)
(* the abstraction chooses: a function for the operator, or a value for    *)
(* each abstracted term.  The engine the loop is built on is any that      *)
(* keeps the promises of SafetyProver on the abstract system.              *)
(***************************************************************************)
EXTENDS Integers, FiniteSets, SequencesExt

CONSTANTS
  State, Input,
  Val,        (* arguments and results of the abstracted operator          *)
  Op,         (* what it computes                                          *)
  Term,       (* the terms that may be abstracted                          *)
  Systems,
  MaxBound    (* the argument k of check_until                             *)

\* A term is over the current state, over state and input, or, in a relational
\* system, over the next state; its argument is given for either state.
Values == [Term -> Val]
SystemType ==
  [mode       : {"functions", "symbols", "values"},
   functional : BOOLEAN,                       \* FunctionalTransitionSystem
   keeps      : BOOLEAN,                       \* the engine is not reset: IC3SA
   terms      : SUBSET Term,                   \* abstract_terms(), to_vals_
   over       : [Term -> {"state", "input", "next"}],
   arg        : [Term -> [State \X Input -> Val]],
   init       : SUBSET (State \X Values),
   step       : SUBSET (State \X Input \X Values \X State),
   bad        : SUBSET (State \X Values)]

\* What terms and formulas are about: a term over the state does not see the
\* input, a value is the same everywhere, and neither the initial nor the bad
\* states are about inputs or next states.
Proper(sy) ==
  /\ sy \in SystemType
  /\ \A k \in Term : sy.over[k] = "state" =>
       \A s \in State, i, j \in Input : sy.arg[k][<<s, i>>] = sy.arg[k][<<s, j>>]
  /\ sy.mode = "values" => \A k \in sy.terms :
       /\ sy.over[k] = "state"
       /\ \A p, q \in State \X Input : sy.arg[k][p] = sy.arg[k][q]
  /\ \A s \in State, v, w \in Values :
       (\A k \in Term : sy.over[k] = "state" => v[k] = w[k])
       => (<<s, v>> \in sy.init <=> <<s, w>> \in sy.init) /\ (<<s, v>> \in sy.bad <=> <<s, w>> \in sy.bad)

\* In a relational system no free symbol stands for a term over inputs, whose
\* equality WithEqualities would add for the next state as well: MCCegar has
\* what happens otherwise.
NoSharedInputs(sy) ==
  sy.mode = "symbols" /\ ~sy.functional => \A k \in sy.terms : sy.over[k] # "input"

VARIABLES
  sys,
  pc,
  axioms,     (* the terms whose equality is part of init, of the source   *)
              (* and of the target of trans, in prover_ts_ and its copy    *)
  reached,    (* reached_k_ of the engine                                  *)
  verdict,
  witness     (* witness_, the states of the counterexample                *)

vars == <<sys, pc, axioms, reached, verdict, witness>>

----------------------------------------------------------------------------
(* The abstraction: OpsAbstractor::do_abstraction, cegar_abstract.         *)
Extras == IF sys.mode = "functions" THEN [Val -> Val] ELSE [Term -> Val]

Arg(k, s, i, t) == sys.arg[k][<<IF sys.over[k] = "next" THEN t ELSE s, i>>]
Value(k, e, a)  ==
  IF k \notin sys.terms THEN Op[a] ELSE IF sys.mode = "functions" THEN e[a] ELSE e[k]
ValuesAt(c, i, t) == [k \in Term |-> Value(k, c.e, Arg(k, c.s, i, t))]

\* Neither the initial nor the bad states are about inputs or next states.
AnyInput == CHOOSE i \in Input : TRUE
Holds(P, c) == <<c.s, ValuesAt(c, AnyInput, c.s)>> \in P

\* The equality of term k and its abstraction, in c under input i before t.
Exact(k, c, i, t) == LET a == Arg(k, c.s, i, t) IN Value(k, c.e, a) = Op[a]
ExactHere(k, c) == Exact(k, c, AnyInput, c.s)

\* CegarValues: the variable for a value has the sign of the value, here
\* whether it is 0, wherever there is a transition.
Polarity(c) ==
  sys.mode = "values" =>
    \A k \in sys.terms : c.e[k] = 0 <=> Op[sys.arg[k][<<c.s, AnyInput>>]] = 0

\* Functions are rigid and the variables for values frozen; a free symbol is a
\* state variable without update.
Initial == {c \in [s : State, e : Extras] : Holds(sys.init, c) /\ \A k \in axioms.init : ExactHere(k, c)}
Targets(c, i, t) ==
  {d \in [s : {t}, e : IF sys.mode = "symbols" THEN Extras ELSE {c.e}] :
     \A k \in axioms.target : Exact(k, d, i, t)}
Successors(c, C) ==
  UNION {Targets(c, p[1], p[2]) :
           p \in {q \in Input \X State :
                  /\ <<c.s, q[1], ValuesAt(c, q[1], q[2]), q[2]>> \in sys.step
                  /\ Polarity(c)
                  /\ \A k \in axioms.source \cup C : Exact(k, c, q[1], q[2])}}

----------------------------------------------------------------------------
\* Where n steps lead on which the equalities of the terms in C hold.
Layer(C, n) ==
  LET layer[m \in 0..n] ==
        IF m = 0 THEN Initial ELSE UNION {Successors(c, C) : c \in layer[m-1]}
  IN  layer[n]

\* The choices at a state depend on it and the last input only.
Diameter == Cardinality(State) * Cardinality(Input) + 1
Bad(c) == Holds(sys.bad, c)
CexLengths(m) == {n \in 0..m : \E c \in Layer({}, n) : Bad(c)}

\* The concrete system.
ConcreteValues(s, i, t) == [k \in Term |-> Op[Arg(k, s, i, t)]]
ConcreteIs(P, s) == <<s, ConcreteValues(s, AnyInput, s)>> \in P
ConcreteStep(s, t) == \E i \in Input : <<s, i, ConcreteValues(s, i, t), t>> \in sys.step
ConcreteLayer(n) ==
  LET layer[m \in 0..n] ==
        IF m = 0 THEN {s \in State : ConcreteIs(sys.init, s)}
        ELSE {t \in State : \E s \in layer[m-1] : ConcreteStep(s, t)}
  IN  layer[n]
ConcreteCexLengths(m) == {n \in 0..m : \E s \in ConcreteLayer(n) : ConcreteIs(sys.bad, s)}
IsConcreteCex(w, len) ==
  /\ Len(w) = len + 1
  /\ ConcreteIs(sys.init, w[1]) /\ ConcreteIs(sys.bad, w[len+1])
  /\ \A j \in 1..len : ConcreteStep(w[j], w[j+1])

----------------------------------------------------------------------------
Start ==
  /\ pc = "check"
  /\ axioms = [init |-> {}, source |-> {}, target |-> {}]
  /\ reached = -1
  /\ verdict = "NONE"
  /\ witness = <<>>
Init == sys \in Systems /\ Start

\* super::check_until(k) on the abstract system.
Proved ==
  /\ pc = "check"
  /\ CexLengths(Diameter) = {}
  /\ verdict' = "TRUE"
  /\ pc' = "done"
  /\ UNCHANGED <<sys, axioms, reached, witness>>

GiveUp ==
  /\ pc = "check"
  /\ CexLengths(MaxBound) = {}
  /\ verdict' = "UNKNOWN"
  /\ pc' = "done"
  /\ UNCHANGED <<sys, axioms, reached, witness>>

AbstractCex ==
  /\ pc = "check"
  /\ \E n \in CexLengths(MaxBound) :
       /\ \A m \in CexLengths(n) : n <= m
       /\ reached' = n - 1
  /\ pc' = "refine"
  /\ UNCHANGED <<sys, axioms, verdict, witness>>

----------------------------------------------------------------------------
(* cegar_refine.  The query asks for a path of witness_length() steps of   *)
(* the abstract system on which the equalities of the terms in C hold.     *)
CexLength == reached + 1

OnlyCurr(k) == sys.over[k] = "state"
NoNext(k)   == sys.over[k] # "next"

\* Slip: the equality is not asked for in the bad state.
AtTheEnd_Forgotten(C, c) == Bad(c)

\* At time 0 an equality is asked for in any case; at the last time only if it
\* is over current state variables, and for a value at time 0 only.
AtTheEnd(C, c) ==
  /\ Bad(c)
  /\ sys.mode # "values" \/ CexLength = 0 => \A k \in C : OnlyCurr(k) => ExactHere(k, c)
  /\ CexLength = 0 => \E i \in Input, t \in State : \A k \in C : Exact(k, c, i, t)

Paths(C) ==
  LET path[n \in 0..CexLength] ==
        IF n = 0 THEN {<<c>> : c \in Initial}
        ELSE UNION {{Append(w, d) : d \in Successors(Last(w), C)} : w \in path[n-1]}
  IN  {w \in path[CexLength] : AtTheEnd(C, Last(w))}
Realizable(C) == \E c \in Layer(C, CexLength) : AtTheEnd(C, c)

\* SAT: store_witness; without abstract terms the engine's own witness.
StoreWitness ==
  /\ pc = "refine"
  /\ \E w \in Paths(sys.terms) : witness' = [j \in DOMAIN w |-> w[j].s]
  /\ verdict' = "FALSE"
  /\ pc' = "done"
  /\ UNCHANGED <<sys, axioms, reached>>

\* Slip: an equality over inputs is not added.
WithEqualities_OnlyCurr(C) ==
  LET curr == {k \in C : OnlyCurr(k)}
  IN  [init |-> axioms.init \cup curr, source |-> axioms.source \cup curr,
       target |-> axioms.target \cup curr]

\* add_constraint in a functional system and for values; constrain_init, unless
\* skip_init, and constrain_trans in a relational one.  There the constraint is
\* also added with the state variables replaced by those of the next state; an
\* input stays as it is.
WithEqualities(C) ==
  LET curr  == {k \in C : OnlyCurr(k)}
      added == sys.functional \/ sys.mode = "values"
  IN  [init   |-> axioms.init \cup IF added \/ CexLength = 0 THEN curr ELSE {},
       source |-> axioms.source \cup C,
       target |-> axioms.target \cup IF added THEN curr ELSE {k \in C : NoNext(k)}]

\* UNSAT: the equalities of an unsatisfiable core are added to both systems,
\* and the engine starts over (reset_env, reabstract) or goes on.
Refine ==
  /\ pc = "refine"
  /\ \E C \in SUBSET sys.terms : ~Realizable(C) /\ axioms' = WithEqualities(C)
  /\ reached' = IF sys.keeps THEN reached ELSE -1
  /\ pc' = "check"
  /\ UNCHANGED <<sys, verdict, witness>>

Next ==
  \/ Proved
  \/ GiveUp
  \/ AbstractCex
  \/ StoreWitness
  \/ Refine

Spec == Init /\ [][Next]_vars /\ WF_vars(Next)

----------------------------------------------------------------------------
(* An answer about the abstract system is one about the concrete system:   *)
(* TRUE means that no bad state is reachable with the operator as it is,   *)
(* whatever equalities were added, and with FALSE comes an execution of    *)
(* the concrete system into a bad state.  No refinement hides one on the   *)
(* way: what the concrete system can reach in n steps is bad in the        *)
(* abstract system too.                                                    *)
TermsAnswerIsRight ==
  /\ verdict = "TRUE" => ConcreteCexLengths(Cardinality(State)) = {}
  /\ verdict = "FALSE" => IsConcreteCex(witness, CexLength)
  /\ ConcreteCexLengths(MaxBound) \subseteq CexLengths(MaxBound)
=============================================================================
