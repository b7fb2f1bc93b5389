-------------------------- MODULE DualApproxReach --------------------------
(***************************************************************************)
(* Dual approximated reachability (engines/dual_approx_reach.cpp): one     *)
(* sequence over-approximates what init reaches, another what reaches bad. *)
(* A bound is completed by showing them apart at one pair of positions and *)
(* strengthening all other pairs from there; both grow by one position.    *)
(***************************************************************************)
EXTENDS Interpolation

VARIABLES
  forward,    (* forward_seq_                                              *)
  backward,   (* backward_seq_                                             *)
  idx         (* unsat_idx, the position strengthening starts from         *)

sequences == <<forward, backward>>
pairing == <<idx, strengthening>>

InitDar ==
  /\ forward = [t \in {0} |-> sys.init]
  /\ backward = [t \in {0} |-> sys.bad]
  /\ idx = 0

\* The index of the last position, seq_len - 1, is reached_k_.
Longer(seq) == [t \in 0..reached+1 |-> IF t <= reached THEN seq[t] ELSE State]

Narrow(seq, n, S) == [seq EXCEPT ![n] = @ \cap S]

\* pairwise_strengthen, up to its first interpolant.
StartPairwise(n) ==
  /\ idx' = n /\ at' = n
  /\ pc' = "forward"

----------------------------------------------------------------------------
(* local_strengthen looks for an unsatisfiable step between a pair.        *)

LocalIndices == {n \in 0..reached : Image(forward[reached - n]) \cap backward[n] = {}}

LocalStrengthen ==
  /\ AtStep("dar")
  /\ i > 0
  /\ LocalIndices # {}
  /\ StartPairwise(reached - First(LocalIndices))
  /\ forward' = Longer(forward)
  /\ UNCHANGED <<setup, i, reached, answer, backward, itp>>

\* There is none: at bound 1 this is a counterexample.
LocalCex ==
  /\ AtStep("dar")
  /\ i = 1
  /\ LocalIndices = {}
  /\ ConcreteCex(1)
  /\ UNCHANGED <<sequences, pairing>>

----------------------------------------------------------------------------
(* global_strengthen unrolls from init until a backward set is not reached.*)

GlobalIndices ==
  {n \in 1..reached : sys.init \cap Reaches(backward[reached - n], n + 1) = {}}

GlobalStrengthen ==
  /\ AtStep("dar")
  /\ i > 1
  /\ LocalIndices = {}
  /\ GlobalIndices # {}
  /\ idx' = First(GlobalIndices)
  /\ at' = 0
  /\ itp' = sys.init
  /\ pc' = "global"
  /\ UNCHANGED <<setup, i, reached, answer, sequences>>

GlobalCex ==
  /\ AtStep("dar")
  /\ i > 1
  /\ LocalIndices = {}
  /\ GlobalIndices = {}
  /\ ConcreteCex(i)
  /\ UNCHANGED <<sequences, pairing>>

\* The sequence interpolants strengthen the positions that exist, up to the
\* one after idx.
StrengthenGlobally ==
  /\ pc = "global"
  /\ at < idx + 1 /\ at < reached
  /\ \E S \in Interpolants(Image(itp), Reaches(backward[reached - idx], idx - at)) :
       /\ itp' = S
       /\ forward' = Narrow(forward, at + 1, S)
  /\ at' = at + 1
  /\ UNCHANGED <<setup, pc, i, reached, answer, backward, idx>>

GloballyStrengthened ==
  /\ pc = "global"
  /\ at = idx + 1 \/ at = reached
  /\ StartPairwise(idx)
  /\ forward' = Longer(forward)
  /\ UNCHANGED <<setup, i, reached, answer, backward, itp>>

----------------------------------------------------------------------------
(* pairwise_strengthen.                                                    *)

\* Slip: the partner of a position is one too close.
Partner_OffByOne(n) == IF n = reached THEN 0 ELSE reached - n - 1

\* The position in the other sequence a step from position n leads to.
Partner(n) == reached - n

StrengthenForward ==
  /\ pc = "forward"
  /\ at <= reached
  /\ \E S \in Interpolants(Image(forward[at]), backward[Partner(at)]) :
       forward' = Narrow(forward, at + 1, S)
  /\ at' = at + 1
  /\ UNCHANGED <<setup, pc, i, reached, answer, backward, idx, itp>>

TurnRound ==
  /\ pc = "forward"
  /\ at = reached + 1
  /\ at' = reached - idx
  /\ backward' = Longer(backward)
  /\ pc' = "backward"
  /\ UNCHANGED <<setup, i, reached, answer, forward, idx, itp>>

StrengthenBackward ==
  /\ pc = "backward"
  /\ at <= reached
  /\ \E S \in Interpolants(Preimage(backward[at]), forward[Partner(at)]) :
       backward' = Narrow(backward, at + 1, S)
  /\ at' = at + 1
  /\ UNCHANGED <<setup, pc, i, reached, answer, forward, idx, itp>>

\* The interpolator has no answer.
PairFails ==
  /\ pc \in {"forward", "backward", "global"}
  /\ ~opt.reliable
  /\ Fail
  /\ UNCHANGED <<sequences, pairing>>

----------------------------------------------------------------------------
(* The bound is completed; check_fixed_point.                              *)

Complete ==
  /\ pc = "backward"
  /\ at = reached + 1
  /\ reached' = reached + 1
  /\ pc' = "fixpoint"
  /\ UNCHANGED <<setup, i, answer, sequences, pairing>>

ForwardFixedPoint ==
  /\ pc = "fixpoint"
  /\ FixedPoints(forward) # {}
  /\ Proof(UpTo(forward, First(FixedPoints(forward))))
  /\ UNCHANGED <<setup, i, reached, witness, sequences, pairing>>

BackwardFixedPoint ==
  /\ pc = "fixpoint"
  /\ FixedPoints(forward) = {}
  /\ FixedPoints(backward) # {}
  /\ Proof(State \ UpTo(backward, First(FixedPoints(backward))))
  /\ UNCHANGED <<setup, i, reached, witness, sequences, pairing>>

SequencesStayOpen ==
  /\ pc = "fixpoint"
  /\ FixedPoints(forward) = {}
  /\ FixedPoints(backward) = {}
  /\ i' = i + 1
  /\ pc' = "loop"
  /\ UNCHANGED <<setup, reached, answer, sequences, pairing>>

NextDar ==
  \/ LocalStrengthen
  \/ LocalCex
  \/ GlobalStrengthen
  \/ GlobalCex
  \/ StrengthenGlobally
  \/ GloballyStrengthened
  \/ StrengthenForward
  \/ TurnRound
  \/ StrengthenBackward
  \/ PairFails
  \/ Complete
  \/ ForwardFixedPoint
  \/ BackwardFixedPoint
  \/ SequencesStayOpen
=============================================================================
