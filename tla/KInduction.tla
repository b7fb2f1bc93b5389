----------------------------- MODULE KInduction -----------------------------
(***************************************************************************)
(* K-induction (engines/kinduction.cpp) and BMC with simple paths          *)
(* (engines/bmc_simplepath.cpp), which is K-induction without the          *)
(* inductive check of the property.                                        *)
(*                                                                         *)
(* The solver's permanent assertions are guarded by selector literals: a   *)
(* formula in base is paired with the name of its selector, and a query    *)
(* enforces the formulas whose selectors it assumes.  The frame pushed for *)
(* bad at i is popped before the next block of assertions runs, so it is   *)
(* part of the queries it is for.                                          *)
(***************************************************************************)
EXTENDS Unrolling

CONSTANTS
  Systems,    (* the systems check_until is run on                         *)
  MaxBound,   (* the argument k of check_until                             *)
  Options,    (* the settings of the --kind-* options                      *)
  Solvers     (* what a solver may leave undecided: sets of queries        *)

OptionType ==
  [step      : Nat \ {0},   \* kind_bound_step_
   one_time  : BOOLEAN,     \* kind_one_time_base_check_
   eager     : BOOLEAN,     \* kind_eager_simple_path_check_
   no_multi  : BOOLEAN,     \* kind_no_multi_call_simple_path_check_
   no_simple : BOOLEAN,     \* kind_no_simple_path_check_
   no_init   : BOOLEAN,     \* kind_no_ind_check_init_states_
   no_prop   : BOOLEAN,     \* kind_no_ind_check_property_, TRUE in BmcSimplePath
   know_total: BOOLEAN]     \* is_trans_total can tell that T is total

Queries == {"simple", "initial", "property", "base", "final"}

ASSUME SystemsAssumption == Systems \subseteq SystemType
\* The combinations for which check_until throws are left out.
ASSUME OptionsAssumption ==
  /\ Options \subseteq OptionType
  /\ \A o \in Options : o.step # 1 => o.one_time /\ ~o.eager
ASSUME SolversAssumption == Solvers \subseteq SUBSET Queries
ASSUME BoundAssumption   == MaxBound \in Nat

VARIABLES
  sys, opt, solver,   (* never change                                      *)
  pc,         (* the next check of check_until                             *)
  i,          (* the loop variable of check_until                          *)
  base,       (* the permanent assertions, each with its selector          *)
  reached,    (* reached_k_                                                *)
  verdict,    (* what check_until returned                                 *)
  witness     (* witness_, the frames compute_witness recorded             *)

setup == <<sys, opt, solver>>
vars == <<setup, pc, i, base, reached, verdict, witness>>

----------------------------------------------------------------------------
Permanent(F)      == {<<"always", f>> : f \in F}
Guarded(sel, F)   == {<<sel, f>> : f \in F}
Enabled(B, sels)  == {p[2] : p \in {q \in B : q[1] \in sels \cup {"always"}}}

Answers(B, sels, F) == Models(sys, Enabled(B, sels) \cup F, i)
Unknown(q) == q \in solver

\* The selectors check_until assumes in its four checks.
AnyState   == {"neg_bad", "simple"}
FromInit   == {"init", "neg_bad", "simple"}
InitAtOnce == {"init", "neg_init", "neg_bad", "simple"}

\* Slip: variables without update are never compared, although they still
\* have their initial values at time 0.
Compared_NotAtZero(a, b) == Vars \ sys.noupd

\* The variables simple_path_constraint(a, b) compares.
Compared(a, b) == IF a > 0 /\ b > 0 THEN Vars \ sys.noupd ELSE Vars
SimplePath(ab) == <<"simple", Differ(Compared(ab[1], ab[2]), ab[1], ab[2])>>

\* The pairs of times whose constraint is false in model m.
CyclicPairs(m) ==
  {ab \in (0..i) \X (0..i) :
     ab[1] < ab[2] /\ Agree(Compared(ab[1], ab[2]), m[ab[1]], m[ab[2]])}
FirstPair(P) ==
  CHOOSE p \in P : \A q \in P : p[1] < q[1] \/ (p[1] = q[1] /\ p[2] <= q[2])

\* compute_witness reads the frames 0..witness_length() of the model.
Refuted(m) ==
  /\ witness' = [t \in 0..reached+1 |-> m[t]]
  /\ verdict' = "FALSE"
  /\ pc' = "done"

\* Slip: the answer of the inductive checks is never confirmed.
Proved_Unconfirmed ==
  /\ pc' = "done"
  /\ verdict' = "TRUE"

\* What check_until does when one of its inductive checks is UNSAT.
Proved ==
  IF opt.one_time
  THEN pc' = "final" /\ UNCHANGED verdict
  ELSE pc' = "done" /\ verdict' = "TRUE"

----------------------------------------------------------------------------
Init ==
  /\ sys \in Systems
  /\ opt \in Options
  /\ solver \in Solvers
  /\ pc = "loop"
  /\ i = 0
  /\ base = Guarded("init", {At(sys.init, 0)})
  /\ reached = -1
  /\ verdict = "NONE"
  /\ witness = <<>>

GiveUp ==
  /\ pc = "loop"
  /\ i > MaxBound
  /\ verdict' = "UNKNOWN"
  /\ pc' = "done"
  /\ UNCHANGED <<setup, i, base, reached, witness>>

\* Slip: the eager check only asks, as the lazy one does at first.
Enter_NoPairs ==
  /\ pc = "loop"
  /\ i <= MaxBound
  /\ pc' = IF opt.no_simple \/ Vars = {} THEN "initial" ELSE "simple"
  /\ UNCHANGED <<setup, i, base, reached, verdict, witness>>

\* The loop head.  The eager check adds every constraint that mentions time i.
Enter ==
  /\ pc = "loop"
  /\ i <= MaxBound
  /\ IF opt.no_simple \/ Vars = {}
     THEN pc' = "initial" /\ UNCHANGED base
     ELSE /\ pc' = "simple"
          /\ base' = base \cup IF opt.eager THEN {SimplePath(<<j, i>>) : j \in 0..i-1} ELSE {}
  /\ UNCHANGED <<setup, i, reached, verdict, witness>>

----------------------------------------------------------------------------
\* check_simple_path_lazy, check_simple_path_eager.
SimpleUnsat ==
  /\ pc = "simple"
  /\ Answers(base, AnyState, {}) = {}
  /\ Proved
  /\ UNCHANGED <<setup, i, base, reached, witness>>

\* One turn of the lazy loop: the first violated constraint is asserted, or
\* with no_multi all of them.
SimpleRefine ==
  /\ pc = "simple"
  /\ ~opt.eager
  /\ \E m \in Answers(base, AnyState, {}) :
       /\ CyclicPairs(m) # {}
       /\ base' = base \cup IF opt.no_multi
                            THEN {SimplePath(ab) : ab \in CyclicPairs(m)}
                            ELSE {SimplePath(FirstPair(CyclicPairs(m)))}
  /\ UNCHANGED <<setup, pc, i, reached, verdict, witness>>

\* Slip: the lazy loop is left after its first turn.
SimplePass_FirstModel ==
  /\ pc = "simple"
  /\ Answers(base, AnyState, {}) # {}
  /\ pc' = "initial"
  /\ UNCHANGED <<setup, i, base, reached, verdict, witness>>

SimplePass ==
  /\ pc = "simple"
  /\ \/ Unknown("simple")
     \/ \E m \in Answers(base, AnyState, {}) : opt.eager \/ CyclicPairs(m) = {}
  /\ pc' = "initial"
  /\ UNCHANGED <<setup, i, base, reached, verdict, witness>>

----------------------------------------------------------------------------
\* The inductive check of Sheeran et al.: from init and never back to init.
ChecksInit == i >= 1 /\ ~opt.no_init
NeverBack == base \cup Guarded("neg_init", {At(State \ sys.init, j) : j \in reached+1..i})

InitialUnsat ==
  /\ pc = "initial"
  /\ ChecksInit
  /\ base' = NeverBack
  /\ Answers(NeverBack, InitAtOnce, {}) = {}
  /\ Proved
  /\ UNCHANGED <<setup, i, reached, witness>>

InitialPass ==
  /\ pc = "initial"
  /\ IF ChecksInit
     THEN /\ base' = NeverBack
          /\ Unknown("initial") \/ Answers(NeverBack, InitAtOnce, {}) # {}
     ELSE UNCHANGED base
  /\ pc' = "property"
  /\ UNCHANGED <<setup, i, reached, verdict, witness>>

\* The inductive check of the property, with bad at i in a frame of its own.
BadNow == {At(sys.bad, i)}

PropertyUnsat ==
  /\ pc = "property"
  /\ ~opt.no_prop
  /\ Answers(base, AnyState, BadNow) = {}
  /\ Proved
  /\ UNCHANGED <<setup, i, base, reached, witness>>

PropertyPass ==
  /\ pc = "property"
  /\ opt.no_prop \/ Unknown("property") \/ Answers(base, AnyState, BadNow) # {}
  /\ pc' = "base"
  /\ UNCHANGED <<setup, i, base, reached, verdict, witness>>

----------------------------------------------------------------------------
BaseSat ==
  /\ pc = "base"
  /\ ~opt.one_time
  /\ \E m \in Answers(base, FromInit, BadNow) : Refuted(m)
  /\ UNCHANGED <<setup, i, base, reached>>

\* No counterexample at i, or no check of it, or no answer: the transitions and
\* the induction hypothesis are added up to the next bound.
Advance ==
  /\ pc = "base"
  /\ opt.one_time \/ Unknown("base") \/ Answers(base, FromInit, BadNow) = {}
  /\ LET new == i..i+opt.step-1
     IN  base' = base \cup Permanent({TransAt(j) : j \in new})
                      \cup Guarded("neg_bad", {At(State \ sys.bad, j) : j \in new})
  /\ reached' = i
  /\ i' = i + opt.step
  /\ pc' = "loop"
  /\ UNCHANGED <<setup, verdict, witness>>

----------------------------------------------------------------------------
\* final_base_case_check: one query for all bounds up to i.  On a transition
\* relation known to be total it reuses the unrolling; otherwise the solver is
\* reset and each bound brings its own transitions along.

\* TransitionSystem::is_right_total treats variables without update as inputs:
\* it is enough that some value of theirs allows a successor.
RightTotal(sy) ==
  \A s \in State : \E r, t \in State : Agree(Vars \ sy.noupd, r, s) /\ <<r, t>> \in sy.trans

FinalAnswers ==
  IF opt.know_total /\ RightTotal(sys)
  THEN Answers(base, {"init"}, {Sometime(sys.bad, 0..i)})
  ELSE UNION {Models(sys, {At(sys.init, 0), At(sys.bad, d)} \cup {TransAt(t) : t \in 0..d-1}, i) :
                d \in 0..i}

FinalSat ==
  /\ pc = "final"
  /\ \E m \in FinalAnswers : Refuted(m)
  /\ UNCHANGED <<setup, i, base, reached>>

FinalUnsat ==
  /\ pc = "final"
  /\ FinalAnswers = {}
  /\ verdict' = "TRUE"
  /\ pc' = "done"
  /\ UNCHANGED <<setup, i, base, reached, witness>>

\* The only check that throws when the solver does not decide.
FinalUnknown ==
  /\ pc = "final"
  /\ Unknown("final")
  /\ verdict' = "EXCEPTION"
  /\ pc' = "done"
  /\ UNCHANGED <<setup, i, base, reached, witness>>

----------------------------------------------------------------------------
Next ==
  \/ GiveUp
  \/ Enter
  \/ SimpleUnsat
  \/ SimpleRefine
  \/ SimplePass
  \/ InitialUnsat
  \/ InitialPass
  \/ PropertyUnsat
  \/ PropertyPass
  \/ BaseSat
  \/ Advance
  \/ FinalSat
  \/ FinalUnsat
  \/ FinalUnknown

\* check_until is one thread: it runs until it returns.
Spec == Init /\ [][Next]_vars /\ WF_vars(Next)

----------------------------------------------------------------------------
\* The side conditions of the soundness argument.  Unlike PDKind, K-induction
\* does not need a total transition relation, only that one reported as total
\* is total.
Trusted ==
  /\ ConstraintsEverywhere(sys) /\ NoUpdateIsFree(sys)
  /\ "base" \notin solver
  /\ opt.one_time /\ opt.know_total /\ RightTotal(sys) => Total(sys)

Contract == INSTANCE ProverContract

(* With a base check at every bound each step keeps the contract of        *)
(* SafetyProver, although the base query also carries the simple-path      *)
(* constraints and the induction hypothesis of all earlier bounds.         *)
KeepsContract ==
  [][~opt.one_time /\ Trusted => Contract!Next]_Contract!vars

(* An answer is right, whichever of the checks gives it: TRUE, whether one *)
(* base check came at the end or one at every bound, means that no         *)
(* reachable state is bad, and FALSE that one is, also when it was read    *)
(* off a model that goes on beyond the bad state.                          *)
AnswerIsRight ==
  /\ verdict = "TRUE" /\ Trusted => Safe(sys)
  /\ verdict = "FALSE" => ~Safe(sys)

(* The lazy check, which asserts a constraint only when a model violates   *)
(* it, lets a bound pass only if the eager check would: some loop-free     *)
(* path of good states has length i.                                       *)
LazyIsEager ==
  pc = "initial" /\ ~opt.no_simple /\ Vars # {} /\ "simple" \notin solver =>
    Answers(base, AnyState,
            {SimplePath(ab)[2] : ab \in {x \in (0..i) \X (0..i) : x[1] < x[2]}}) # {}

(* check_until returns, and with a solver that decides every query, the    *)
(* simple-path check enabled and a bound beyond the longest simple path    *)
(* the answer is right.                                                    *)
Decides ==
  <>(/\ pc = "done"
     /\ solver = {} /\ ~opt.no_simple =>
          verdict = IF Safe(sys) THEN "TRUE" ELSE "FALSE")
=============================================================================
