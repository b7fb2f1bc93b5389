------------------------------- MODULE Driver -------------------------------
(***************************************************************************)
(* pono.cpp as a whole: a safety property, a justice property translated   *)
(* to safety, or one checked by KLiveness, on a system and with options.   *)
(***************************************************************************)
EXTENDS KLiveness

vars == <<setup, pc, layers, prop, monitored, trace, answer, live>>

Init == InitCheckProp

Finished == pc = "done" /\ UNCHANGED vars

Next ==
  \/ NextCheckProp
  \/ NextKLiveness
  \/ Finished

\* One thread, and every engine returns: weak fairness of Next, which can take
\* a step that changes something as long as pc is not "done" (TLC would report
\* a deadlock).
Fairness == []<>(pc = "done") \/ []<><<Next>>_vars

Spec == Init /\ [][Next]_vars /\ Fairness

----------------------------------------------------------------------------
\* With --pseudo-init-prop the monitor lags behind a property that mentions
\* inputs, and its last step is not removed from the counterexample.
Reported ==
  IF verdict = "FALSE" /\ opt.pseudo /\ sys.kind = "input" /\ ~opt.justice THEN Rest(witness)
  ELSE witness

User == INSTANCE Answers WITH witness <- Reported

(* What the user is told is true of the system as it was read: TRUE means  *)
(* that it keeps the property, with the clock and the reset sequence that  *)
(* were asked for, and the frames reported with FALSE are an execution     *)
(* that violates it, without the steps the modifiers add, or a lasso.      *)
ImplementsAnswers == User!Spec

\* The steps the search loses to the modifiers.
Delay ==
  IF ~opt.pseudo THEN 0 ELSE IF sys.kind = "input" /\ ~opt.justice THEN 2 ELSE 1

(* An answer other than FALSE covers the bound that was asked for but for  *)
(* the steps options.cpp:442-443 speaks of: no violation of a safety       *)
(* property is that short, whatever monitors delay it.                     *)
BoundIsCovered ==
  verdict \in {"TRUE", "UNKNOWN"} /\ ~opt.justice => ~User!ViolatedBy(opt.bound - Delay)

\* Room for a lasso through every condition, and for KLiveness to count the
\* frames that can be met before one has to come back.
Ample == opt.bound >= 2 * Cardinality(Frames(sys)) /\ opt.max >= Cardinality(Frames(sys))

(* A justice property is decided if the engine is complete and the bounds  *)
(* are ample: by the translation, and by KLiveness with either of its two  *)
(* ways to find a lasso, also when the steps between two counts are many.  *)
Decides ==
  (/\ opt.justice /\ opt.complete /\ ~opt.coi /\ Ample
   /\ opt.klive => Len(sys.justice) = 1 /\ (opt.revisit \/ opt.lockstep))
  => <>(verdict \in {"TRUE", "FALSE"})
=============================================================================
