------------------------------ MODULE MCPDKind ------------------------------
(***************************************************************************)
(* Transition systems over two Boolean variables on which TLC runs PDKind.   *)
(***************************************************************************)
EXTENDS PDKind

S(a, b) == [v \in Vars |-> IF v = "x" THEN a ELSE b]
System(init, trans, bad) ==
  [init |-> init, trans |-> trans, bad |-> bad, constr |-> State, noupd |-> {}]
Graph(f) == UNION {{s} \X f[s] : s \in State}

\* One initial state, one or two successors of every state, and one bad
\* state, which goes back to the initial one or stays.
OneOrTwo == {N \in SUBSET State : Cardinality(N) \in 1..2}
Successors ==
  {f \in [State -> OneOrTwo] : f[S(1, 1)] \in {{S(0, 0)}, {S(1, 1)}}}
Branching == {System({S(0, 0)}, Graph(f), {S(1, 1)}) : f \in Successors}

\* Deterministic systems, any set of bad states, init possibly empty or
\* not a single state.
Deterministic ==
  {System(I, {<<s, f[s]>> : s \in State}, B) :
     f \in [State -> State], I \in {{}, {S(0, 0)}, {S(0, 0), S(0, 1)}},
     B \in {{S(1, 1)}, {S(1, 0), S(1, 1)}, {S(0, 1), S(1, 1)}}}

\* y has no update, as an input promoted to a state variable, and x follows
\* it; a constraint may relate the two, everywhere.
FreeVariable ==
  {sy \in
     {AddConstraint(
        [init |-> {S(0, y) : y \in Vals},
         trans |-> {p \in State \X State : p[2]["x"] = f[p[1]]},
         bad |-> B, constr |-> State, noupd |-> {"y"}], C, TRUE) :
        f \in [State -> Vals], B \in {{S(1, 1)}, {S(1, 0), S(1, 1)}},
        C \in {State, State \ {S(0, 1)}, State \ {S(1, 0)}}} :
     WellFormed(sy)}

\* The solver may leave queries undecided on systems in which every state has
\* exactly one successor.
Functional ==
  {sy \in SystemType : \A s \in State : Cardinality({p \in sy.trans : p[1] = s}) = 1}

AllSystems == UNION {Branching, Deterministic, FreeVariable}

----------------------------------------------------------------------------
(* Chains 0 -> 1 -> 2 -> 3 -> 4 over one variable, 4 being bad.            *)
V(n) == [v \in Vars |-> n]

\* The chain with an absorbing bad state, as it is and after prop_in_trans,
\* which leaves 4 without successors.
Chain == {System({V(0)}, {<<V(n), V(IF n = 4 THEN 4 ELSE n+1)>> : n \in 0..4}, {V(4)})}
AssumedProperty == {PropInTrans(sy) : sy \in Chain}

(* mod_ts_prop.h:38-39 says of assuming the property in the pre-state that *)
(* "this is sound as long as you always check for a property violation     *)
(* over the next-state variables".                                         *)
AssumingPropertyIsSound == verdict = "TRUE" => Safe(sys)
=============================================================================
