--------------------------- MODULE ReachSequence ---------------------------
(***************************************************************************)
(* What the engines that prove by over-approximation have in common        *)
(* (IC3, interpolation sequences, dual approximated reachability and, with *)
(* the exact sets for its sequence, interpolation): a sequence of sets of  *)
(* states, the one at position d+1 holding at least what is reachable in   *)
(* exactly d steps.  Bounds are completed because these sets avoid bad,    *)
(* and TRUE comes with an inductive invariant (invar_ of SafetyProver).    *)
(* It lies between those engines and ProverContract.                       *)
(***************************************************************************)
EXTENDS Unrolling, Sequences

CONSTANT Systems

VARIABLES
  sys,        (* the system under check                                    *)
  reach,      (* the sequence of over-approximations, from step 0          *)
  invar,      (* invar_, {} while there is none                            *)
  reached,    (* reached_k_                                                *)
  verdict,    (* the answer returned, "NONE" while there is none           *)
  witness     (* the frames of the counterexample                          *)

vars == <<sys, reach, invar, reached, verdict, witness>>

ImageOf(R, S) == {p[2] : p \in {q \in R : q[1] \in S}}

OverApproximates(s, seq) ==
  /\ Len(seq) > 0
  /\ s.init \subseteq seq[1]
  /\ \A n \in 1..Len(seq)-1 : ImageOf(s.trans, seq[n]) \subseteq seq[n+1]

Avoids(s, seq, k) ==
  k < Len(seq) /\ \A n \in 1..k+1 : seq[n] \cap s.bad = {}

Inductive(s, S) ==
  /\ s.init \subseteq S
  /\ ImageOf(s.trans, S) \subseteq S
  /\ S \cap s.bad = {}

Init ==
  /\ sys \in Systems
  /\ reach = <<sys.init>>
  /\ invar = {}
  /\ reached = -1
  /\ verdict = "NONE"
  /\ witness = <<>>

\* The sets change, and bounds are completed whose sets avoid bad.
Advance ==
  /\ verdict = "NONE"
  /\ reach' \in Seq(SUBSET State)
  /\ OverApproximates(sys, reach')
  /\ reached' \in Int
  /\ reached' >= reached
  /\ Avoids(sys, reach', reached')
  /\ UNCHANGED <<sys, invar, verdict, witness>>

\* Once there is an answer nothing is said of the sets any more.
Prove ==
  /\ verdict = "NONE"
  /\ verdict' = "TRUE"
  /\ invar' \in SUBSET State
  /\ Inductive(sys, invar')
  /\ UNCHANGED <<sys, reached, witness>>

Refute ==
  /\ verdict = "NONE"
  /\ verdict' = "FALSE"
  /\ reached' \in Int
  /\ reached' >= reached
  /\ IsCex(sys, witness', reached' + 1)
  /\ UNCHANGED <<sys, invar>>

GiveUp ==
  /\ verdict = "NONE"
  /\ verdict' = "UNKNOWN"
  /\ UNCHANGED <<sys, invar, reached, witness>>

Next == Advance \/ Prove \/ Refute \/ GiveUp

Spec == Init /\ [][Next]_vars
=============================================================================
