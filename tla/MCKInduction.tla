---------------------------- MODULE MCKInduction ----------------------------
(***************************************************************************)
(* Systems over two Boolean variables on which TLC runs KInduction.        *)
(***************************************************************************)
EXTENDS KInduction

S(a, b) == [v \in Vars |-> IF v = "x" THEN a ELSE b]
System(init, trans, bad, noupd) ==
  [init |-> init, trans |-> trans, bad |-> bad, constr |-> State, noupd |-> noupd]
Graph(f) == UNION {{s} \X f[s] : s \in State}

\* Two initial states, of which a path may visit both; dead ends; loops.
Successor(from01, from10) ==
  [s \in State |-> CASE s = S(0, 0) -> {S(0, 0), S(1, 0)}
                     [] s = S(0, 1) -> from01
                     [] s = S(1, 0) -> from10
                     [] OTHER       -> IF from01 = {} THEN {} ELSE {S(1, 1)}]
Explicit ==
  {System({S(0, 0), S(0, 1)}, Graph(Successor(from01, from10)), {S(1, 1)}, {}) :
     from01 \in {{}, {S(0, 0)}, {S(1, 0), S(1, 1)}},
     from10 \in {{S(0, 1)}, {S(1, 1)}}}

\* y has no update and decides what x does next.
Follow(n) == {p \in State \X State : p[2]["x"] = IF p[1] = S(0, 1) THEN n ELSE p[1]["x"]}
FreeVariable ==
  {AddConstraint(System({S(0, 0)}, Follow(n), {S(1, 1)}, {"y"}), C, TRUE) :
     n \in Vals, C \in {State, {s \in State : s["y"] = 0 \/ s["x"] = 0}}}

AllSystems == Explicit \cup {sy \in FreeVariable : NoUpdateIsFree(sy)}

----------------------------------------------------------------------------
Defaults ==
  [step |-> 1, one_time |-> FALSE, eager |-> FALSE, no_multi |-> FALSE,
   no_simple |-> FALSE, no_init |-> FALSE, no_prop |-> FALSE, know_total |-> TRUE]

AllOptions ==
  {Defaults,
   [Defaults EXCEPT !.eager = TRUE, !.no_init = TRUE],
   [Defaults EXCEPT !.no_multi = TRUE, !.no_prop = TRUE],
   [Defaults EXCEPT !.no_simple = TRUE],
   [Defaults EXCEPT !.one_time = TRUE, !.know_total = FALSE, !.no_simple = TRUE],
   [Defaults EXCEPT !.one_time = TRUE, !.step = 2, !.no_multi = TRUE]}

Decisive  == {}
SomeTimes == {"simple", "initial", "property", "final"}
AllSolvers == {Decisive, SomeTimes}

----------------------------------------------------------------------------
(* A single base check at the end, on a relational system.                 *)

\* x counts 0, 1, 2, except that nothing follows the bad state (1, 1); y is free.
DeadChoice ==
  {[init |-> {[v \in Vars |-> 0]},
    trans |-> {p \in State \X State : /\ p[1] # [v \in Vars |-> 1]
                                 /\ p[2]["x"] = IF p[1]["x"] < 2 THEN p[1]["x"] + 1 ELSE 2},
    bad |-> {[v \in Vars |-> 1]}, constr |-> State, noupd |-> {"y"}]}
OneTime ==
  {[step |-> 1, one_time |-> TRUE, eager |-> FALSE, no_multi |-> FALSE,
    no_simple |-> FALSE, no_init |-> FALSE, no_prop |-> FALSE, know_total |-> TRUE]}
Decided == {{}}

(* kinduction.h:79-81 says the final base check covers "all bounds from 0  *)
(* to current one to make sure that no counterexamples were missed", and   *)
(* ts.h:302-303 that a right-total relation gives every state a next       *)
(* state: whenever the check lets the proof stand, the property holds.     *)
FinalCheckMissesNothing == verdict = "TRUE" => Safe(sys)
=============================================================================
