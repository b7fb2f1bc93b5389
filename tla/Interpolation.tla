--------------------------- MODULE Interpolation ---------------------------
(***************************************************************************)
(* What the three interpolation engines share (engines/interpolantmc.cpp,  *)
(* interp_seq_mc.cpp, dual_approx_reach.cpp): the loop of check_until,     *)
(* bound 0, the interpolation query and the concrete counterexample.       *)
(*                                                                         *)
(* Formulas are the sets of states they denote and an interpolant is any   *)
(* set the solver may return; that of the negated or swapped query         *)
(* (interp_backward_) ranges over the same sets.                           *)
(***************************************************************************)
EXTENDS Unrolling, Sequences

CONSTANT Cases  (* pairs of a system and the options it is checked with    *)

Systems == {c[1] : c \in Cases}

OptionType ==
  [engine   : {"interp", "ismc", "dar"},
   bound    : Nat,         \* the argument k of check_until
   reliable : BOOLEAN,     \* every interpolation query is answered
   all      : BOOLEAN,     \* interp_props_ is INTERP_ALL_PROPS
   frontier : BOOLEAN,     \* use_frontier_simpl_
   eager    : BOOLEAN]     \* unroll_eagerly_

ASSUME CasesAssumption ==
  \A c \in Cases : c[1] \in SystemType /\ c[2] \in OptionType

VARIABLES
  sys, opt,   (* never change                                              *)
  pc,         (* the next query                                            *)
  i,          (* the loop variable of check_until                          *)
  itp,        (* of a sequence of interpolants, the one used last          *)
  at,         (* the position a reachability sequence is strengthened at   *)
  reached,    (* reached_k_                                                *)
  verdict,    (* what check_until returned, or "ERROR" for an exception    *)
  invar,      (* invar_                                                    *)
  witness     (* witness_                                                  *)

setup == <<sys, opt>>
strengthening == <<itp, at>>
answer == <<verdict, invar, witness>>

----------------------------------------------------------------------------
Image(S) == {p[2] : p \in {q \in sys.trans : q[1] \in S}}
Preimage(S) == {p[1] : p \in {q \in sys.trans : q[2] \in S}}

IsPath(p, n) ==
  p \in [0..n -> State] /\ \A t \in 0..n-1 : <<p[t], p[t+1]>> \in sys.trans

\* The states with a path of n steps to S.
Reaches(S, n) ==
  {s \in State : \E p \in [0..n -> State] : IsPath(p, n) /\ p[0] = s /\ p[n] \in S}

\* Slip: the interpolant is not required to exclude the second formula.
Interpolants_Weak(A, B) == {S \in SUBSET State : A \subseteq S}

\* The interpolants of a formula with models A and one with models B.
Interpolants(A, B) == {S \in SUBSET State : A \subseteq S /\ S \cap B = {}}

\* The union of the sets before position n.
UpTo(seq, n) == UNION {seq[t] : t \in 0..n-1}

\* check_fixed_point: the positions covered by what comes before them.
FixedPoints(seq) ==
  {n \in DOMAIN seq \ {0} : seq[n] \subseteq UpTo(seq, n)}

First(N) == CHOOSE n \in N : \A m \in N : n <= m

----------------------------------------------------------------------------
InitShared ==
  /\ \E c \in Cases : sys = c[1] /\ opt = c[2]
  /\ pc = "loop"
  /\ i = 0
  /\ itp = {} /\ at = 0
  /\ reached = -1
  /\ verdict = "NONE" /\ invar = {} /\ witness = <<>>

Answer(v) == verdict' = v /\ pc' = "done"

\* The query is satisfiable: check_until returns with the model it got.
ConcreteCex(n) ==
  /\ \E p \in [0..n -> State] : IsCex(sys, p, n) /\ witness' = p
  /\ Answer("FALSE")
  /\ UNCHANGED <<setup, i, reached, invar>>

Proof(S) ==
  /\ invar' = S
  /\ Answer("TRUE")

AtStep(e) ==
  opt.engine = e /\ pc = "loop" /\ reached < i /\ i <= opt.bound

\* The bounds are used up.
GiveUp ==
  /\ pc = "loop"
  /\ i > opt.bound
  /\ Answer("UNKNOWN")
  /\ UNCHANGED <<setup, i, reached, invar, witness>>

\* Bounds an eager unrolling has completed already.
Skip ==
  /\ pc = "loop"
  /\ i <= opt.bound
  /\ i <= reached
  /\ i' = i + 1
  /\ UNCHANGED <<setup, pc, reached, answer>>

\* step_0: bad in an initial state.
InitialBad ==
  /\ AtStep(opt.engine)
  /\ i = 0
  /\ ConcreteCex(0)

InitialGood ==
  /\ AtStep(opt.engine)
  /\ i = 0
  /\ sys.init \cap sys.bad = {}
  /\ reached' = 0
  /\ i' = 1
  /\ UNCHANGED <<setup, pc, answer>>

Shared == GiveUp \/ Skip \/ InitialBad \/ InitialGood

\* An exception leaves check_until.
Fail ==
  /\ Answer("ERROR")
  /\ UNCHANGED <<setup, i, reached, invar, witness>>
=============================================================================
