-------------------------------- MODULE Bmc --------------------------------
(***************************************************************************)
(* Bounded model checking in intervals (engines/bmc.cpp): check_until      *)
(* steps through bounds, asks for a bad state anywhere in the interval     *)
(* since the last bound, and, once there is one, searches the interval for *)
(* the shortest counterexample in one of four ways.                        *)
(*                                                                         *)
(* One action per solver query, as in PDKind.  check_until may be called   *)
(* again with a larger bound after it answered UNKNOWN.  The solver decides*)
(* every query here.                                                       *)
(***************************************************************************)
EXTENDS Unrolling, Sequences, FiniteSetsExt

CONSTANTS
  Systems,    (* the systems check_until is run on                         *)
  Calls,      (* the arguments k of successive calls of check_until        *)
  Options     (* the settings of the --bmc-* options                       *)

OptionType ==
  [start     : Nat,                              \* bmc_bound_start_
   step      : Nat \ {0},                        \* bmc_bound_step_
   exp       : BOOLEAN,                          \* bmc_exponential_step_
   neg_init  : BOOLEAN,                          \* bmc_neg_init_step_
   single    : BOOLEAN,                          \* bmc_single_bad_state_
   neg_bad   : {"no", "step", "all"},            \* bmc_neg_bad_step_(all_)
   search    : {"binary", "less_inc", "linear"}, \* bmc_min_cex_*_search_
   any_cex   : BOOLEAN]                          \* bmc_allow_non_minimal_cex_

ASSUME SystemsAssumption == Systems \subseteq SystemType
ASSUME CallsAssumption   == Calls \in Seq(Nat) /\ Calls # <<>>
ASSUME OptionsAssumption == Options \subseteq OptionType

VARIABLES
  sys, opt,   (* the system and the options; never change                  *)
  call,       (* the call of check_until in progress                       *)
  pc,         (* the next piece of step or of a search to run              *)
  i,          (* the loop variable of check_until                          *)
  base,       (* formulas asserted outside every scope                     *)
  scopes,     (* the pushed frames, the innermost last                     *)
  low, high,  (* what is left of the interval being searched               *)
  saved, ub,  (* reached_k_saved and cex_upper_bound                       *)
  reached,    (* reached_k_                                                *)
  verdict,    (* what check_until returned                                 *)
  witness     (* witness_, the frames compute_witness recorded             *)

search == <<low, high, saved, ub>>
vars == <<sys, opt, call, pc, i, base, scopes, search, reached, verdict, witness>>

----------------------------------------------------------------------------
good == State \ sys.bad
NotInit == State \ sys.init
Never(S, I) == {At(State \ S, t) : t \in I}

\* Models of what is asserted together with F, over the times 0..i.
Answers(F) ==
  Models(sys, base \cup (UNION {scopes[n] : n \in DOMAIN scopes}) \cup F, i)

AddToTop(st, F) ==
  [st EXCEPT ![Len(st)] = @ \cup F]

\* compute_witness reads the frames 0..witness_length() of the model.
Report(m, r) ==
  /\ reached' = r
  /\ witness' = [t \in 0..r+1 |-> m[t]]
  /\ verdict' = "FALSE"
  /\ pc' = "done"

\* Slip: the bound before the first bad state.
FirstBad_Before(m, I) == Min({t \in I : m[t] \in sys.bad}) - 1

\* bmc_interval_get_cex_ub: the first bad state of the model.
FirstBad(m, I) == Min({t \in I : m[t] \in sys.bad})

\* Slip: doubling never leaves 0.
NextBound_FromZero == IF opt.exp THEN 2 * i ELSE i + opt.step

NextBound == IF opt.exp THEN (IF i = 0 THEN 1 ELSE 2 * i) ELSE i + opt.step

----------------------------------------------------------------------------
Init ==
  /\ sys \in Systems
  /\ opt \in Options
  /\ call = 1
  /\ pc = "loop"
  /\ i = opt.start
  /\ base = {At(sys.init, 0)}
  /\ scopes = <<>>
  /\ low = 0 /\ high = 0 /\ saved = -1 /\ ub = 0
  /\ reached = -1
  /\ verdict = "NONE"
  /\ witness = <<>>

\* The bounds of this call are used up; a later call starts over at bound_start_.
Return ==
  /\ pc = "loop"
  /\ i > Calls[call]
  /\ IF call < Len(Calls)
     THEN call' = call + 1 /\ i' = opt.start /\ UNCHANGED <<pc, verdict>>
     ELSE pc' = "done" /\ verdict' = "UNKNOWN" /\ UNCHANGED <<call, i>>
  /\ UNCHANGED <<sys, opt, base, scopes, search, reached, witness>>

\* A bound an earlier call has completed.
Skip ==
  /\ pc = "loop"
  /\ i <= Calls[call]
  /\ i <= reached
  /\ i' = NextBound
  /\ UNCHANGED <<sys, opt, call, pc, base, scopes, search, reached, verdict, witness>>

\* What step asserts for good on its way to bound i.
Unrolled ==
  LET new == (IF reached = -1 THEN 1 ELSE reached + 1)..i
  IN  {TransAt(j-1) : j \in new}
        \cup (IF opt.neg_init THEN {At(NotInit, j) : j \in new} ELSE {})

\* Slips: the interval starts one late, only its last bound is asked for.
Interval_Late == reached+2..i
Clause_Last == At(sys.bad, i)

Interval == reached+1..i
Clause == IF opt.single THEN At(sys.bad, i) ELSE Sometime(sys.bad, Interval)

\* No bad state in the interval.
StepUnsat ==
  /\ pc = "loop"
  /\ i <= Calls[call]
  /\ i > reached
  /\ Answers(Unrolled \cup {Clause}) = {}
  /\ base' = base \cup Unrolled
                  \cup CASE opt.neg_bad = "all"  -> Never(sys.bad, Interval)
                         [] opt.neg_bad = "step" -> Never(sys.bad, {i})
                         [] OTHER -> {}
  /\ reached' = i
  /\ i' = NextBound
  /\ UNCHANGED <<sys, opt, call, pc, scopes, search, verdict, witness>>

\* A bad state in the interval.  Either the model is reported as it is, or the
\* search starts from its first bad state, with the bounds after it blocked in
\* a frame of their own, which the linear search pops at once.
StepSat ==
  /\ pc = "loop"
  /\ i <= Calls[call]
  /\ i > reached
  /\ base' = base \cup Unrolled
  /\ \E m \in Answers(Unrolled \cup {Clause}) :
       LET first == FirstBad(m, Interval)
       IN  IF opt.any_cex \/ opt.single \/ first = reached + 1
           THEN /\ Report(m, i - 1)
                /\ scopes' = <<{Clause}>>
                /\ UNCHANGED search
           ELSE /\ scopes' = IF first < i /\ opt.search # "linear"
                             THEN <<{Clause}, Never(sys.bad, first+1..i)>>
                             ELSE <<{Clause}>>
                /\ low' = reached + 1 /\ high' = first
                /\ saved' = reached /\ ub' = first
                /\ pc' = opt.search
                /\ UNCHANGED <<reached, verdict, witness>>
  /\ UNCHANGED <<sys, opt, call, i>>

----------------------------------------------------------------------------
mid == low + (high - low) \div 2

\* find_shortest_cex_binary_search: a turn of its loop pushes a frame that
\* blocks mid+1..high.  On SAT the frame stays, and what follows the first bad
\* state of the model is blocked too.
BinarySat ==
  /\ pc = "binary"
  /\ \E m \in Answers(Never(sys.bad, mid+1..high)) :
       IF low = mid
       THEN Report(m, reached) /\ UNCHANGED <<scopes, high>>
       ELSE LET first == FirstBad(m, low..mid)
            IN  /\ high' = first
                /\ scopes' = Append(scopes, Never(sys.bad, (first+1..mid) \cup (mid+1..high)))
                /\ UNCHANGED <<pc, reached, verdict, witness>>
  /\ UNCHANGED <<sys, opt, call, i, base, low, saved, ub>>

\* On UNSAT it is popped and low..mid is blocked in the frame below.
BinaryUnsat ==
  /\ pc = "binary"
  /\ low < high
  /\ Answers(Never(sys.bad, mid+1..high)) = {}
  /\ reached' = mid
  /\ low' = mid + 1
  /\ scopes' = AddToTop(scopes, Never(sys.bad, low..mid))
  /\ UNCHANGED <<sys, opt, call, pc, i, base, high, saved, ub, verdict, witness>>

\* The blocked bounds leave no model: every frame of the search is popped and
\* the linear search starts over.
BinaryFails ==
  /\ pc = "binary"
  /\ low >= high
  /\ Answers(Never(sys.bad, mid+1..high)) = {}
  /\ scopes' = <<scopes[1]>>
  /\ reached' = saved
  /\ low' = saved + 1
  /\ high' = ub
  /\ pc' = "linear"
  /\ UNCHANGED <<sys, opt, call, i, base, saved, ub, verdict, witness>>

----------------------------------------------------------------------------
\* The other two searches replace the top frame by a new clause, over low..mid
\* in find_shortest_cex_binary_search_less_inc, low alone in the linear search.
Probed == IF pc = "linear" THEN low..low ELSE low..mid

ProbeAnswers ==
  LET below == UNION {scopes[n] : n \in 1..Len(scopes)-1}
  IN  Models(sys, base \cup below \cup {Sometime(sys.bad, Probed)}, i)

ReplaceTop == scopes' = [scopes EXCEPT ![Len(scopes)] = {Sometime(sys.bad, Probed)}]

\* A bad state among the bounds probed: at a single one the search is over,
\* otherwise the first of the model is the new upper end.
ProbeSat ==
  /\ pc \in {"less_inc", "linear"}
  /\ ReplaceTop
  /\ \E m \in ProbeAnswers :
       IF Probed = {low}
       THEN Report(m, reached) /\ UNCHANGED high
       ELSE high' = FirstBad(m, Probed) /\ UNCHANGED <<pc, reached, verdict, witness>>
  /\ UNCHANGED <<sys, opt, call, i, base, low, saved, ub>>

ProbeUnsat ==
  /\ pc \in {"less_inc", "linear"}
  /\ low <= high
  /\ ProbeAnswers = {}
  /\ ReplaceTop
  /\ reached' = Max(Probed)
  /\ low' = Max(Probed) + 1
  /\ UNCHANGED <<sys, opt, call, pc, i, base, high, saved, ub, verdict, witness>>

----------------------------------------------------------------------------
Next ==
  \/ Return
  \/ Skip
  \/ StepUnsat
  \/ StepSat
  \/ BinarySat
  \/ BinaryUnsat
  \/ BinaryFails
  \/ ProbeSat
  \/ ProbeUnsat

\* check_until is one thread and its caller makes every call of Calls.
Spec == Init /\ [][Next]_vars /\ WF_vars(Next)

----------------------------------------------------------------------------
\* Every interval is a single bound.
OneByOne == opt.start = 0 /\ opt.step = 1 /\ ~opt.exp

\* The settings with which the engine is exact: bounds one by one, or longer
\* intervals on a system without dead ends, no option that trades
\* minimality away, and a search that blocks no bound.
Exact ==
  \/ OneByOne
  \/ /\ ~opt.neg_init /\ ~opt.single /\ ~opt.any_cex
     /\ opt.search # "binary"
     /\ Total(sys)

\* The model of step is reported without a search although its interval is
\* longer than one bound (bmc.cpp:147-152).
ReportsUnsearched == pc = "loop" /\ verdict' = "FALSE" /\ i > reached + 1

Contract == INSTANCE ProverContract

(* With exact settings every step keeps the contract of SafetyProver:      *)
(* reached_k_ moves only past bounds without a counterexample, in step and *)
(* in the middle of a search, and FALSE comes with a counterexample of     *)
(* witness_length() steps.                                                 *)
KeepsContract ==
  [][Exact /\ ~ReportsUnsearched => Contract!Next]_Contract!vars

(* Whatever the options, FALSE comes with an execution from an initial     *)
(* state that visits a bad state; bounds one by one, and the searches,     *)
(* find the shortest counterexample, although the solver may answer each   *)
(* query with a model that has later bad states, and although blocked      *)
(* initial states hide other executions.                                   *)
CexIsShortest ==
  verdict = "FALSE" =>
    /\ IsRun(sys, witness, reached + 1)
    /\ \E t \in DOMAIN witness : witness[t] \in sys.bad
    /\ OneByOne \/ (Exact /\ ub > 0) =>
         /\ IsCex(sys, witness, reached + 1)
         /\ \A d \in 0..reached : ~HasCex(sys, d)

(* What is left of the interval holds a counterexample that the permanent  *)
(* assertions allow, so the searches that block no bound never run out of  *)
(* bounds: the asserts after less_inc and the exception of the linear      *)
(* search are never reached, also after a failed binary search.            *)
SearchKeepsCex ==
  pc \in {"less_inc", "linear"} =>
    /\ reached + 1 = low /\ low <= high
    /\ Models(sys, base \cup {Sometime(sys.bad, low..high)}, i) # {}

(* Every call returns: the bounds grow, also when they double from 0, and  *)
(* the searches shrink their interval.                                     *)
Returns == <>(pc = "done")
=============================================================================
