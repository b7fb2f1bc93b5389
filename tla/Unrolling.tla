----------------------------- MODULE Unrolling -----------------------------
(***************************************************************************)
(* The vocabulary the SMT-based engines share: a transition system, the    *)
(* formulas an engine asserts about its unrolling, and the models of a set *)
(* of such formulas, which is what the solver answers about.               *)
(*                                                                         *)
(* A transition system is given by what its formulas denote: init, bad and *)
(* constr (the conjunction of constraints()) are sets of states, trans is  *)
(* a set of pairs, and noupd is statevars_with_no_update().  Inputs are    *)
(* projected away, since a pair is in trans when some input allows it.     *)
(***************************************************************************)
EXTENDS Integers, FiniteSets

CONSTANTS
  Vars,     (* the state variables                                         *)
  Vals      (* the values a state variable can take                        *)

State == [Vars -> Vals]

SystemType == [init   : SUBSET State,
               trans  : SUBSET (State \X State),
               bad    : SUBSET State,
               constr : SUBSET State,
               noupd  : SUBSET Vars]

----------------------------------------------------------------------------
(***************************************************************************)
(* Timed formulas.  A state formula is the set of states it denotes,       *)
(* stamped with the time at which the unroller instantiates it; a          *)
(* transition formula relates times t and t+1; Differ is the disjunction   *)
(* of disequalities a simple-path constraint is made of; Sometime is the   *)
(* disjunction of a state formula over an interval of times.               *)
(***************************************************************************)
At(S, t) == [kind |-> "state", set |-> S, time |-> t]
TransAt(t) == [kind |-> "trans", time |-> t]
Differ(V, i, j) == [kind |-> "differ", vars |-> V, left |-> i, right |-> j]
Sometime(S, I) == [kind |-> "sometime", set |-> S, times |-> I]

Satisfies(sys, m, f) ==
  CASE f.kind = "state"  -> m[f.time] \in f.set
    [] f.kind = "trans"  -> <<m[f.time], m[f.time + 1]>> \in sys.trans
    [] f.kind = "differ" -> \E v \in f.vars : m[f.left][v] # m[f.right][v]
    [] f.kind = "sometime" -> \E t \in f.times : m[t] \in f.set

\* The models over times 0..k of the formulas in ctx: the query is satisfiable
\* when there is one, and a satisfiable query may return any of them.
Models(sys, ctx, k) ==
  {m \in [0..k -> State] : \A f \in ctx : Satisfies(sys, m, f)}

----------------------------------------------------------------------------
(* What the transition system itself does, independently of any engine.    *)

Closed(sys, S) ==
  /\ sys.init \subseteq S
  /\ \A p \in sys.trans : p[1] \in S => p[2] \in S

Reachable(sys) ==
  {s \in State : \A S \in SUBSET State : Closed(sys, S) => s \in S}

Safe(sys) == Reachable(sys) \cap sys.bad = {}

\* p is an execution of length k from an initial state.
IsRun(sys, p, k) ==
  /\ p \in [0..k -> State]
  /\ p[0] \in sys.init
  /\ \A t \in 0..k-1 : <<p[t], p[t+1]>> \in sys.trans

IsCex(sys, p, k) == IsRun(sys, p, k) /\ p[k] \in sys.bad

HasCex(sys, k) == \E p \in [0..k -> State] : IsCex(sys, p, k)

(* The side conditions under which a bounded query speaks about executions *)
(* of the system.                                                          *)

\* Every reachable state has a successor (the case is_right_total decides).
Total(sys) == \A s \in Reachable(sys) : \E t \in State : <<s, t>> \in sys.trans

\* Constraints were added to init and to both sides of trans, so no
\* reachable state violates one.
ConstraintsEverywhere(sys) == Reachable(sys) \subseteq sys.constr

\* A variable without update is free: trans never restricts its next value
\* beyond what the constraints say.
Agree(V, s, t) == \A v \in V : s[v] = t[v]
NoUpdateIsFree(sys) ==
  \A p \in sys.trans : \A t \in sys.constr :
    Agree(Vars \ sys.noupd, p[2], t) => <<p[1], t>> \in sys.trans

WellFormed(sys) ==
  Total(sys) /\ ConstraintsEverywhere(sys) /\ NoUpdateIsFree(sys)

----------------------------------------------------------------------------
(* How core/ts.cpp and modifiers/mod_ts_prop.cpp rewrite a transition      *)
(* system before an engine sees it.                                        *)

\* TransitionSystem::add_constraint for a constraint over state variables.
\* It always restricts the source of a transition; with toInitAndNext also
\* init and the target.  Either way it is recorded in constraints().
AddConstraint(sys, C, toInitAndNext) ==
  [sys EXCEPT
     !.init   = IF toInitAndNext THEN @ \cap C ELSE @,
     !.trans  = {p \in @ : p[1] \in C /\ (toInitAndNext => p[2] \in C)},
     !.constr = @ \cap C]

\* prop_in_trans (--assume-prop): the property as a constraint on the source
\* of a transition only.
PropInTrans(sys) == AddConstraint(sys, State \ sys.bad, FALSE)
=============================================================================
