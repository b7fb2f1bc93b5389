--------------------------- MODULE ProverContract ---------------------------
(***************************************************************************)
(* What a SafetyProver promises its caller, whatever the engine            *)
(* (engines/prover.h, engines/prover.cpp, core/proverresult.h): reached_k_ *)
(* is the last bound completed without finding a bug, TRUE means the       *)
(* property holds, FALSE comes with a counterexample of                    *)
(* witness_length() = reached_k_ + 1 steps, and UNKNOWN promises nothing.  *)
(***************************************************************************)
EXTENDS Unrolling

CONSTANT Systems

VARIABLES
  sys,        (* the system under check                                    *)
  reached,    (* reached_k_                                                *)
  verdict,    (* the answer returned, "NONE" while there is none           *)
  witness     (* the frames of the counterexample                          *)

vars == <<sys, reached, verdict, witness>>

Init ==
  /\ sys \in Systems
  /\ reached = -1
  /\ verdict = "NONE"
  /\ witness = <<>>

\* A bound is completed only when no counterexample ends at it.
Advance ==
  /\ verdict = "NONE"
  /\ reached' \in Nat
  /\ reached' > reached
  /\ \A d \in (reached+1)..reached' : ~HasCex(sys, d)
  /\ UNCHANGED <<sys, verdict, witness>>

Prove ==
  /\ verdict = "NONE"
  /\ Safe(sys)
  /\ verdict' = "TRUE"
  /\ UNCHANGED <<sys, reached, witness>>

Refute ==
  /\ verdict = "NONE"
  /\ verdict' = "FALSE"
  /\ reached' \in Int
  /\ reached' >= reached
  /\ IsCex(sys, witness', reached' + 1)
  /\ UNCHANGED sys

GiveUp ==
  /\ verdict = "NONE"
  /\ verdict' = "UNKNOWN"
  /\ UNCHANGED <<sys, reached, witness>>

Next == Advance \/ Prove \/ Refute \/ GiveUp

Spec == Init /\ [][Next]_vars
=============================================================================
