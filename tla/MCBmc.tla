------------------------------- MODULE MCBmc -------------------------------
(***************************************************************************)
(* Systems over one variable with values 0, 1, 2 on which TLC runs Bmc: 0  *)
(* is initial and 2 is bad.                                                *)
(***************************************************************************)
EXTENDS Bmc

S(n) == [v \in Vars |-> n]
Image(N) == {S(n) : n \in N}
System(f) ==
  [init |-> {S(0)}, bad |-> {S(2)}, constr |-> State, noupd |-> {},
   trans |-> UNION {{S(n)} \X Image(f[n]) : n \in Vals}]

\* Dead ends in 1 and in the bad state, returns to init, sticky bad states.
Successors ==
  {f \in [Vals -> SUBSET Vals] :
     /\ f[0] \in {{0}, {1}, {2}, {0, 1}, {0, 2}, {1, 2}}
     /\ f[1] \in {{}, {0}, {2}, {0, 2}, {1, 2}}
     /\ f[2] \in {{}, {0}, {1}, {2}, {1, 2}}}
Graphs3 == {System(f) : f \in Successors}

TwoCalls == <<2, 4>>

Defaults ==
  [start |-> 0, step |-> 1, exp |-> FALSE, neg_init |-> FALSE, single |-> FALSE,
   neg_bad |-> "no", search |-> "binary", any_cex |-> FALSE]
Searches == {"binary", "less_inc", "linear"}

AllOptions ==
  {Defaults,
   [Defaults EXCEPT !.neg_init = TRUE, !.neg_bad = "step"],
   [Defaults EXCEPT !.step = 2, !.single = TRUE, !.neg_bad = "step"],
   [Defaults EXCEPT !.step = 2, !.any_cex = TRUE],
   [Defaults EXCEPT !.start = 3, !.neg_init = TRUE, !.search = "linear"]}
  \cup {[Defaults EXCEPT !.start = 3, !.search = s] : s \in Searches}
  \cup {[Defaults EXCEPT !.start = 1, !.step = 3, !.neg_bad = "all", !.search = s] : s \in Searches}
  \cup {[Defaults EXCEPT !.exp = TRUE, !.search = s] : s \in Searches}
=============================================================================
