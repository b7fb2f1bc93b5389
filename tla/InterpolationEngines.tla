------------------------ MODULE InterpolationEngines ------------------------
(***************************************************************************)
(* check_until of the three interpolation engines, each with the systems   *)
(* and options it is given.                                                *)
(***************************************************************************)
EXTENDS InterpolantMC, DualApproxReach

vars == <<setup, pc, i, strengthening, reached, answer, growth, reach_seq, sequences, idx>>

Init == InitShared /\ InitImc /\ InitIsmc /\ InitDar

Next ==
  \/ Shared /\ UNCHANGED <<growth, sequence, sequences, idx>>
  \/ NextImc /\ UNCHANGED <<sequence, sequences, idx>>
  \/ NextIsmc /\ UNCHANGED <<growth, sequences, idx>>
  \/ NextDar /\ UNCHANGED <<growth, reach_seq>>

\* check_until is one thread and the solver answers.
Spec == Init /\ [][Next]_vars /\ WF_vars(Next)

----------------------------------------------------------------------------
(* A bound that DualApproxReach has completed separates all pairs of       *)
(* positions that add up to it, wherever strengthening started: no state   *)
(* is reached from init in n steps and reaches bad in the rest.            *)
SequencesStayApart ==
  opt.engine = "dar" /\ reached >= 0 /\ pc \in {"loop", "done"} /\ verdict # "ERROR" =>
    \A n \in 0..reached : forward[n] \cap backward[reached - n] = {}

----------------------------------------------------------------------------
\* The sets of states an engine claims to over-approximate; InterpolantMC
\* keeps none from one bound to the next, and claims the exact ones.
Exactly(n) ==
  {s \in State : \E p \in [0..n -> State] : IsRun(sys, p, n) /\ p[n] = s}

Claimed ==
  CASE opt.engine = "ismc" -> reach_seq
    [] opt.engine = "dar"  -> forward
    [] opt.engine = "interp" -> [n \in 0..(IF reached < 0 THEN 0 ELSE reached) |-> Exactly(n)]

\* What InterpolantMC calls an invariant is one if every state has a
\* successor; if not, TRUE only says that one exists.
Invariant ==
  IF opt.engine = "interp" /\ verdict = "TRUE" /\ Preimage(State) # State
  THEN Reachable(sys)
  ELSE invar

Sequence == INSTANCE ReachSequence WITH
  invar   <- Invariant,
  reach   <- [n \in 1..Cardinality(DOMAIN Claimed) |-> Claimed[n-1]],
  verdict <- IF verdict = "ERROR" THEN "UNKNOWN" ELSE verdict

(* The sequences over-approximate what is reachable whatever interpolants  *)
(* are chosen; a bound counts as completed, also several at a time by      *)
(* eager unrolling, only when no counterexample ends at it; TRUE comes     *)
(* with an inductive invariant, from InterpolantMC if every state has a    *)
(* successor, and FALSE with a counterexample of reached_k_ + 1 steps.     *)
ImplementsReachSequence == Sequence!Spec

(* Where every interpolation query is answered and the bound is beyond the *)
(* number of states, there is an answer: interpolants cannot be too coarse *)
(* for ever, and no query the code expects to be unsatisfiable is not.     *)
(* InterpolantMC must be told to look at bad at all times: with            *)
(* INTERP_FIRST_AND_LAST_PROPS, or when eager unrolling skips bounds whose *)
(* bad then never enters bad_disjuncts_, an unreachable cycle through bad  *)
(* keeps interpolants too coarse at every bound.                           *)
Decides ==
  (/\ opt.reliable /\ opt.bound > Cardinality(State)
   /\ opt.engine = "interp" => opt.all /\ ~opt.eager)
  => <>(verdict \in {"TRUE", "FALSE"})
=============================================================================
