--------------------------- MODULE InterpolantMC ---------------------------
(***************************************************************************)
(* The two engines that interpolate BMC queries from the initial states.   *)
(***************************************************************************)
EXTENDS Interpolation

(***************************************************************************)
(* Interpolation-based model checking (engines/interpolantmc.cpp): step i  *)
(* grows a set R from init by interpolants, each an over-approximation of  *)
(* one more image that cannot reach bad along transB, until nothing new is *)
(* added or an interpolant is too coarse.                                  *)
(***************************************************************************)

VARIABLES
  R,          (* the states reached in this step                           *)
  Ri,         (* the last interpolant                                      *)
  count,      (* interp_count                                              *)
  unrolled,   (* transB_ speaks of the times from 1 to this one            *)
  bads        (* the times of bad_disjuncts_                               *)

growth == <<R, Ri, count, unrolled, bads>>

InitImc == R = {} /\ Ri = {} /\ count = 0 /\ unrolled = 1 /\ bads = {}

StartStep ==
  /\ AtStep("interp")
  /\ i > 0
  /\ bads' = IF opt.all THEN bads \cup {i} ELSE {1, i}
  /\ R' = sys.init /\ Ri' = sys.init
  /\ count' = 0
  /\ pc' = "interpolate"
  /\ UNCHANGED <<setup, i, reached, answer, unrolled>>

\* The states at time 1: of R or of the last interpolant and transA, ...
FormulaA == Image(IF opt.frontier THEN Ri ELSE R)

\* Slip: bad is only looked for at the last time.
FormulaB_LastOnly ==
  {p[0] : p \in {q \in [0..unrolled-1 -> State] :
                   IsPath(q, unrolled-1) /\ q[i-1] \in sys.bad}}

\* ... and of transB and bad_disjuncts_.
FormulaB ==
  UNION {{p[0] : p \in {q \in [0..unrolled-1 -> State] :
                          IsPath(q, unrolled-1) /\ q[t-1] \in sys.bad}} : t \in bads}

Unsat == FormulaA \cap FormulaB = {}

\* The interpolant adds nothing: R is closed.
Converged ==
  /\ pc = "interpolate"
  /\ Unsat
  /\ \E S \in Interpolants(FormulaA, FormulaB) : S \subseteq R
  /\ Proof(R)
  /\ UNCHANGED <<setup, i, reached, witness, growth>>

Grow ==
  /\ pc = "interpolate"
  /\ Unsat
  /\ \E S \in Interpolants(FormulaA, FormulaB) :
       /\ ~(S \subseteq R)
       /\ Ri' = S
       /\ R' = R \cup S
  /\ count' = count + 1
  /\ UNCHANGED <<setup, pc, i, reached, answer, unrolled, bads>>

\* The first query has a model, or no answer: the BMC query decides.
FindCex ==
  /\ pc = "interpolate"
  /\ count = 0
  /\ ~Unsat \/ ~opt.reliable
  /\ ConcreteCex(i)
  /\ UNCHANGED growth

InterpolantFails ==
  /\ pc = "interpolate"
  /\ ~Unsat \/ ~opt.reliable
  /\ IF count = 0 THEN ~HasCex(sys, i) ELSE ~opt.reliable
  /\ Fail
  /\ UNCHANGED growth

\* The bound completed by step i with count interpolants.
Completed == IF opt.eager THEN count + i - 1 ELSE i

\* R is too coarse: on to the next bound, with a longer transB.
Extend ==
  /\ pc = "interpolate"
  /\ ~Unsat
  /\ count > 0
  /\ reached' = Completed
  /\ unrolled' = unrolled + (IF opt.eager THEN count ELSE 1)
  /\ i' = i + 1
  /\ pc' = "loop"
  /\ UNCHANGED <<setup, answer, R, Ri, count, bads>>

NextImc ==
  \/ StartStep
  \/ Converged
  \/ Grow
  \/ FindCex
  \/ InterpolantFails
  \/ Extend

----------------------------------------------------------------------------
(***************************************************************************)
(* Interpolation-sequence-based model checking (engines/interp_seq_mc.cpp):*)
(* an unsatisfiable BMC query of length i gives i interpolants, one for    *)
(* each time, which strengthen the reachability sequence.                  *)
(***************************************************************************)

VARIABLE
  reach_seq   (* reach_seq_                                                *)

sequence == <<reach_seq, strengthening>>

InitIsmc == reach_seq = [t \in {0} |-> sys.init]

\* The query is unsatisfiable: one more position, unconstrained as yet.
StartSequence ==
  /\ AtStep("ismc")
  /\ i > 0
  /\ ~HasCex(sys, i)
  /\ reach_seq' = [t \in 0..i |-> IF t = i THEN State ELSE reach_seq[t]]
  /\ itp' = sys.init
  /\ at' = 0
  /\ pc' = "sequence"
  /\ UNCHANGED <<setup, i, reached, answer>>

\* The next interpolant: what the one before reaches, and nothing from which
\* bad is reached in the steps that are left.
StrengthenSequence ==
  /\ pc = "sequence"
  /\ at < i
  /\ \E S \in Interpolants(Image(itp), Reaches(sys.bad, i - at - 1)) :
       /\ itp' = S
       /\ reach_seq' = [reach_seq EXCEPT ![at + 1] = @ \cap S]
  /\ at' = at + 1
  /\ UNCHANGED <<setup, pc, i, reached, answer>>

SequenceCloses ==
  /\ pc = "sequence"
  /\ at = i
  /\ FixedPoints(reach_seq) # {}
  /\ Proof(UpTo(reach_seq, First(FixedPoints(reach_seq))))
  /\ UNCHANGED <<setup, i, reached, witness, sequence>>

SequenceStaysOpen ==
  /\ pc = "sequence"
  /\ at = i
  /\ FixedPoints(reach_seq) = {}
  /\ reached' = reached + 1
  /\ i' = i + 1
  /\ pc' = "loop"
  /\ UNCHANGED <<setup, answer, sequence>>

\* The query has a model, or the interpolator no answer: the BMC query
\* decides.
Replay ==
  /\ AtStep("ismc")
  /\ i > 0
  /\ ConcreteCex(i)
  /\ UNCHANGED sequence

SequenceFails ==
  /\ AtStep("ismc")
  /\ i > 0
  /\ ~opt.reliable
  /\ ~HasCex(sys, i)
  /\ Fail
  /\ UNCHANGED sequence

NextIsmc ==
  \/ StartSequence
  \/ StrengthenSequence
  \/ SequenceCloses
  \/ SequenceStaysOpen
  \/ Replay
  \/ SequenceFails
=============================================================================
