--------------------------- MODULE MCInterpolation ---------------------------
(***************************************************************************)
(* Systems over one variable with four values on which TLC runs the three  *)
(* interpolation engines: 3 is bad.                                        *)
(***************************************************************************)
EXTENDS InterpolationEngines

S(n) == [v \in Vars |-> n]
Where(N) == {S(n) : n \in N}

System(I, f) ==
  [init |-> Where(I), bad |-> Where({3}), constr |-> State, noupd |-> {},
   trans |-> UNION {{S(n)} \X Where(f[n+1]) : n \in Vals}]

\* Lines, cycles and branches, in which every state has a successor.
Endless ==
  {System({0}, <<{1}, {2}, {3}, {3}>>),
   System({0}, <<{1}, {0}, {3}, {2}>>),
   System({0}, <<{0,1}, {1}, {2,3}, {0}>>),
   System({0}, <<{1,2}, {1}, {0,3}, {3}>>),
   System({0,1}, <<{2}, {1}, {0}, {3}>>),
   System({0}, <<{1}, {2}, {0}, {2}>>),
   System({0}, <<{1,3}, {1}, {2}, {3}>>),
   System({1,3}, <<{0}, {0}, {0}, {0}>>)}

\* The same with states that have no successor.
Dying ==
  {System({0}, <<{0}, {1}, {3}, {}>>), System({0}, <<{1}, {}, {3}, {2}>>),
   System({0}, <<{1,2}, {1}, {3}, {}>>), System({0}, <<{0,1}, {}, {3,1}, {}>>)}

Interp == [engine |-> "interp", bound |-> 5, reliable |-> TRUE, all |-> TRUE,
           frontier |-> TRUE, eager |-> FALSE]

Engines ==
  {[Interp EXCEPT !.all = a, !.frontier = f, !.eager = e] : a, f, e \in BOOLEAN}
    \cup {[Interp EXCEPT !.engine = e] : e \in {"ismc", "dar"}}

Unreliable ==
  {[Interp EXCEPT !.engine = e, !.bound = 2, !.reliable = FALSE] : e \in {"interp", "ismc", "dar"}}

AllCases == (Endless \cup Dying) \X (Engines \cup Unreliable)
=============================================================================
