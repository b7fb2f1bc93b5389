----------------------------- MODULE KLiveness -----------------------------
(***************************************************************************)
(* KLiveness (engines/kliveness.cpp): the justice condition is counted,    *)
(* and reaching ever larger counts is checked with a safety engine, until  *)
(* a count is out of reach or a lasso turns up, in the counterexample or   *)
(* by BMC on the translated system.                                        *)
(***************************************************************************)
EXTENDS CheckProp

ToCount == pc' = "count" /\ UNCHANGED <<setup, prop, monitored>>

\* The constructor and initialize.
StartCounting ==
  /\ pc = "main"
  /\ opt.justice /\ opt.klive
  /\ Len(sys.justice) = 1
  /\ LET cone == IF opt.coi THEN <<ConeLayer({sys.justice[1]})>> ELSE <<>>
     IN  layers' = cone \o IF opt.promote
                           THEN <<[kind |-> "promote", vars |-> Inputs(sys, cone)]>> ELSE <<>>
  /\ live' = opt.start
  /\ ToCount
  /\ UNCHANGED <<trace, answer>>

TooManyConditions ==
  pc = "main" /\ opt.justice /\ opt.klive /\ Len(sys.justice) > 1 /\ Throw

\* The bits of the counter, unless it is an integer.
Width(k) == IF opt.encoding = "bv_binary" THEN FloorLog2(k) + 1 ELSE k + 1

\* instrument_ts.
Counted(k) ==
  Append(layers, [kind |-> "count", encoding |-> opt.encoding, width |-> Width(k),
                  zero |-> IF opt.encoding = "bv_one_hot" THEN 1 ELSE 0])
CountTo(k) ==
  [Property("counter") EXCEPT !.count = IF opt.encoding = "bv_one_hot" THEN 2^k ELSE k]

ReachedCount == Levels(sys, Counted(live), CountTo(live), opt.bound,
                       <<InitOf(sys, Counted(live))>>)

GiveUpCounting ==
  /\ pc = "count"
  /\ live > opt.max \/ opt.bound < live + 1
  /\ Answer("UNKNOWN")
  /\ UNCHANGED <<setup, layers, prop, monitored, trace, witness, live>>

AtCount == pc = "count" /\ live <= opt.max /\ opt.bound >= live + 1

\* The safety engine reaches the count, on a shortest execution or on one
\* that is longer.
Reached ==
  /\ AtCount
  /\ LET seq == ReachedCount
         longer == IF opt.slack = 1 /\ Len(seq) <= opt.bound
                   THEN {Append(seq, Image(sys, Counted(live), Top(seq)))} ELSE {}
     IN  \E levels \in {seq} \cup longer :
           trace' \in Paths(sys, Counted(live), levels, Bad(sys, CountTo(live), Top(levels)))
  /\ pc' = "revisit"
  /\ UNCHANGED <<setup, layers, prop, monitored, answer, live>>

\* The count is out of reach, or not reached within the bound.
OutOfReach ==
  /\ AtCount
  /\ Bad(sys, CountTo(live), Top(ReachedCount)) = {}
  /\ IsSafe(sys, Counted(live), CountTo(live))
  /\ Answer("TRUE")
  /\ UNCHANGED <<setup, layers, prop, monitored, trace, witness, live>>

NotReached ==
  /\ AtCount
  /\ Bad(sys, CountTo(live), Top(ReachedCount)) = {}
  /\ ~(opt.complete /\ IsSafe(sys, Counted(live), CountTo(live)))
  /\ live' = live + opt.step
  /\ ToCount
  /\ UNCHANGED <<layers, trace, answer>>

\* store_cex, which looks up every variable of the original system.
Store(w) ==
  IF StateVars(sys) \cup sys.inputs \subseteq DOMAIN w[1]
  THEN witness' = w /\ Answer("FALSE")
  ELSE Answer("ERROR") /\ UNCHANGED witness

Free == {v \in StateVars(sys) : \A g \in Frames(sys) : Value(sys, v, g) = {a[v] : a \in sys.states}}

\* The variables of a state that are compared: not the counter, and not
\* those without an update.
Compared(f) == DOMAIN f \ (Inputs(sys, layers) \cup Promoted(layers) \cup Free \cup {"counter"})

\* The second of two steps, from the same state, at which the counter goes up.
Revisits(w) ==
  LET just == {t \in 1..Len(w)-1 : w[t]["counter"] # w[t+1]["counter"]}
  IN  {t \in just : \E l \in just : l < t /\ On(w[l], Compared(w[l])) = On(w[t], Compared(w[t]))}

\* detect_revisit_in_cex.
DetectRevisit ==
  /\ pc = "revisit"
  /\ opt.revisit /\ live # 1
  /\ \E t \in Revisits(trace) :
       /\ \A l \in Revisits(trace) : t <= l
       /\ Store(SubSeq(trace, 1, t))
  /\ UNCHANGED <<setup, layers, prop, monitored, trace, live>>

\* Slip: the count is increased only after BMC.
NoRevisit_SameCount ==
  /\ pc = "revisit"
  /\ opt.revisit /\ live # 1 => Revisits(trace) = {}
  /\ pc' = IF opt.lockstep THEN "bmc" ELSE "count"
  /\ UNCHANGED <<setup, live, layers, prop, monitored, trace, answer>>

NoRevisit ==
  /\ pc = "revisit"
  /\ opt.revisit /\ live # 1 => Revisits(trace) = {}
  /\ IF opt.lockstep THEN pc' = "bmc" /\ UNCHANGED live
     ELSE pc' = "count" /\ live' = live + opt.step
  /\ UNCHANGED <<setup, layers, prop, monitored, trace, answer>>

\* find_lasso_by_bmc: up to the length of the counterexample.  The same Bmc is
\* called each time, and goes on from the bound it has reached.
Translated == Append(layers, [kind |-> "l2s"])
Lassos == Levels(sys, Translated, Property("l2s"), Len(trace) - 1, <<InitOf(sys, Translated)>>)

BmcFindsLasso ==
  /\ pc = "bmc"
  /\ \E w \in Paths(sys, Translated, Lassos, Bad(sys, Property("l2s"), Top(Lassos))) : Store(w)
  /\ UNCHANGED <<setup, layers, prop, monitored, trace, live>>

BmcFindsNone ==
  /\ pc = "bmc"
  /\ Bad(sys, Property("l2s"), Top(Lassos)) = {}
  /\ live' = live + opt.step
  /\ ToCount
  /\ UNCHANGED <<layers, trace, answer>>

NextKLiveness ==
  \/ StartCounting
  \/ TooManyConditions
  \/ GiveUpCounting
  \/ Reached
  \/ OutOfReach
  \/ NotReached
  \/ DetectRevisit
  \/ NoRevisit
  \/ BmcFindsLasso
  \/ BmcFindsNone
=============================================================================
