----------------------------- MODULE CheckProp -----------------------------
(***************************************************************************)
(* check_prop (pono.cpp): the modifiers a safety property goes through,    *)
(* the engine, and what is done to its counterexample; and the part of     *)
(* main that turns a justice property into a safety property.              *)
(***************************************************************************)
EXTENDS LayeredSystem

CONSTANT Cases  (* pairs of a system and the options it is checked with    *)

OptionType ==
  [justice  : BOOLEAN,   \* --justice: check the justice conditions
   klive    : BOOLEAN,   \* with KLiveness instead of the translation
   bound    : Nat,
   complete : BOOLEAN,   \* the engine answers TRUE if it can
   clock    : {"none", "state", "input"},
   reset    : Nat,       \* reset_bnd_, 0 without --reset
   signal   : STRING,    \* the reset symbol and its value while active
   active   : Bit,
   coi      : BOOLEAN,   \* --static-coi
   pseudo   : BOOLEAN,   \* --pseudo-init-prop
   promote  : BOOLEAN,   \* --promote-inputvars
   assume   : BOOLEAN,   \* --assume-prop
   start    : Nat \ {0}, \* the options --klive-...
   step     : Nat \ {0},
   max      : Nat,
   encoding : {"bv_binary", "bv_one_hot", "integer"},
   revisit  : BOOLEAN,
   lockstep : BOOLEAN,
   slack    : 0..1]      \* how much longer than necessary counterexamples are

ASSUME CasesAssumption ==
  /\ \A s \in {c[1] : c \in Cases} : IsSystem(s)
  /\ \A c \in Cases : c[2] \in OptionType

VARIABLES
  sys, opt,   (* never change                                              *)
  pc,         (* what comes next                                           *)
  layers,     (* what is on top of the system                              *)
  prop,       (* the property                                              *)
  monitored,  (* has_monitor                                               *)
  trace,      (* the counterexample of the engine                          *)
  verdict,    (* the answer, or "ERROR" for an exception                   *)
  witness,    (* cex, or witness_ of KLiveness                             *)
  live        (* live_count_ of KLiveness                                  *)

setup == <<sys, opt>>
answer == <<verdict, witness>>

Answer(v) == verdict' = v /\ pc' = "done"

\* An exception goes up to main.
Throw ==
  /\ Answer("ERROR")
  /\ UNCHANGED <<setup, live, layers, prop, monitored, trace, witness>>

OnTop(l) == layers' = Append(layers, l)

----------------------------------------------------------------------------
\* The property has no inputs and no next-state variables.
OnlyCurr ==
  prop.atom = "prop" =>
    sys.kind = "state" \/ (sys.kind = "input" /\ "promote" \in Kinds(layers))

Stages == <<"clock", "reset", "coi", "pseudo", "promote", "monitor", "assume", "check">>
After(stage) == Stages[1 + CHOOSE n \in DOMAIN Stages : Stages[n] = stage]

Wanted ==
  CASE pc = "clock"   -> opt.clock # "none"
    [] pc = "reset"   -> opt.reset > 0
    [] pc = "coi"     -> opt.coi /\ ~opt.justice
    [] pc = "pseudo"  -> opt.pseudo
    [] pc = "promote" -> opt.promote \/ (~OnlyCurr /\ sys.kind # "next")
    [] pc = "monitor" -> ~OnlyCurr
    [] pc = "assume"  -> opt.assume

Stage(stage) == pc = stage /\ Wanted

\* A modifier that is not asked for.
SkipStage ==
  /\ pc \in {Stages[n] : n \in 1..Len(Stages)-1}
  /\ ~Wanted
  /\ pc' = After(pc)
  /\ UNCHANGED <<setup, live, layers, prop, monitored, trace, answer>>

Modified == pc' = After(pc) /\ UNCHANGED <<setup, live, trace, answer>>

\* toggle_clock.  For an input the variable meant to hold the new state is
\* declared in an inner scope, and constrain_init refuses the input.
ToggleClock ==
  /\ Stage("clock")
  /\ opt.clock = "state"
  /\ OnTop([kind |-> "clock", signal |-> "c"])
  /\ Modified
  /\ UNCHANGED <<prop, monitored>>

ClockIsInput == Stage("clock") /\ opt.clock = "input" /\ Throw

CeilLog2(n) == CHOOSE e \in 0..n : 2^e >= n /\ \A d \in 0..e-1 : 2^d < n
FloorLog2(n) == CHOOSE e \in 0..n : 2^e <= n /\ n < 2^(e+1)

ResetLayer(width) ==
  [kind |-> "reset", signal |-> opt.signal, active |-> opt.active,
   bound |-> opt.reset, width |-> width]

\* add_reset_seq, and the guard of the property.
AddReset ==
  /\ Stage("reset")
  /\ OnTop(ResetLayer(CeilLog2(opt.reset) + 1))
  /\ prop' = [prop EXCEPT !.after = opt.reset]
  /\ Modified
  /\ UNCHANGED monitored

\* The variables in the cone of influence, and those that stay because init
\* mentions them, but without their updates.
ConeLayer(Fs) ==
  LET cone == Cone(sys, Fs, IF "reset" \in Kinds(layers) THEN {opt.signal, "cnt"} ELSE {})
               \cup ({"cnt"} \cap Names(InitOf(sys, layers)))
      fixed == {v \in StateVars(sys) : \E a \in sys.init, b \in sys.states :
                  (\A w \in StateVars(sys) \ {v} : a[w] = b[w]) /\ b \notin sys.init}
  IN  [kind |-> "coi", cone |-> cone,
       kept |-> Names(InitOf(sys, layers)) \cap (cone \cup fixed \cup
                  IF "clock" \in Kinds(layers) THEN {"c"} ELSE {})]

\* StaticConeOfInfluence; only functional systems are allowed.
ReduceToCone ==
  /\ Stage("coi")
  /\ ~sys.relational
  /\ OnTop(ConeLayer({sys.prop}))
  /\ Modified
  /\ UNCHANGED <<prop, monitored>>

ConeNotFunctional == Stage("coi") /\ sys.relational /\ Throw

\* pseudo_init_and_prop; assign_next refuses a property over next states.
PseudoInit ==
  /\ Stage("pseudo")
  /\ prop.atom = "prop" => sys.kind # "next"
  /\ OnTop([kind |-> "pseudo", prop |-> [prop EXCEPT !.guarded = TRUE], current |-> OnlyCurr])
  /\ prop' = Property("prop_monitor")
  /\ Modified
  /\ UNCHANGED monitored

PseudoInitOverNext ==
  Stage("pseudo") /\ prop.atom = "prop" /\ sys.kind = "next" /\ Throw

\* promote_inputvars, for all inputs or for those in the property.
PromoteInputs ==
  /\ Stage("promote")
  /\ LET all == Inputs(sys, layers)
     IN  OnTop([kind |-> "promote",
                vars |-> IF opt.promote THEN all ELSE {v \in all : Depends(sys, sys.prop, v)}])
  /\ Modified
  /\ UNCHANGED <<prop, monitored>>

\* add_prop_monitor, for relational systems.
AddMonitor ==
  /\ Stage("monitor")
  /\ sys.relational
  /\ OnTop([kind |-> "monitor", prop |-> prop])
  /\ prop' = Property("monitor")
  /\ monitored' = TRUE
  /\ Modified

NextInFunctional == Stage("monitor") /\ ~sys.relational /\ Throw

\* prop_in_trans.
AssumeProperty ==
  /\ Stage("assume")
  /\ OnTop([kind |-> "assume", prop |-> prop])
  /\ Modified
  /\ UNCHANGED <<prop, monitored>>

----------------------------------------------------------------------------
\* Slip: the step the monitor adds is not counted.
Bound_NoMonitor == opt.bound

\* What check_until is called with.
Bound == opt.bound + (IF monitored THEN 1 ELSE 0)

Searched == Levels(sys, layers, prop, Bound, <<InitOf(sys, layers)>>)

FindCex ==
  /\ pc = "check"
  /\ \E w \in Paths(sys, layers, Searched, Bad(sys, prop, Top(Searched))) : trace' = w
  /\ pc' = "witness"
  /\ UNCHANGED <<setup, live, layers, prop, monitored, answer>>

\* No counterexample up to the bound.
FindNone ==
  /\ pc = "check"
  /\ Bad(sys, prop, Top(Searched)) = {}
  /\ LET safe == IsSafe(sys, layers, prop)
     IN  \/ safe /\ Answer("TRUE")
         \/ ~(safe /\ opt.complete) /\ Answer("UNKNOWN")
  /\ UNCHANGED <<setup, live, layers, prop, monitored, trace, witness>>

\* Slip: the pseudo-initial state stays in the counterexample.
Trimmed_KeepsFirst == IF monitored THEN Rest(trace) ELSE trace

\* cex without the pseudo-initial state and without the step of the monitor.
Trimmed ==
  LET w == IF opt.pseudo THEN Tail(trace) ELSE trace
  IN  IF monitored THEN Rest(w) ELSE w

Report ==
  /\ pc = "witness"
  /\ witness' = Trimmed
  /\ Answer("FALSE")
  /\ UNCHANGED <<setup, live, layers, prop, monitored, trace>>

----------------------------------------------------------------------------
\* main: the cone of influence of the justice conditions and their
\* translation, LivenessToSafetyTranslator::translate.
Translate ==
  /\ pc = "main"
  /\ opt.justice /\ ~opt.klive
  /\ layers' = (IF opt.coi THEN <<ConeLayer({sys.justice[n] : n \in DOMAIN sys.justice})>> ELSE <<>>)
                 \o <<[kind |-> "l2s"]>>
  /\ prop' = Property("l2s")
  /\ pc' = "clock"
  /\ UNCHANGED <<setup, live, monitored, trace, answer>>

CheckSafety ==
  /\ pc = "main"
  /\ ~opt.justice
  /\ pc' = "clock"
  /\ UNCHANGED <<setup, live, layers, prop, monitored, trace, answer>>

InitCheckProp ==
  /\ \E c \in Cases : sys = c[1] /\ opt = c[2]
  /\ pc = "main"
  /\ layers = <<>>
  /\ prop = Property("prop")
  /\ monitored = FALSE
  /\ trace = <<>>
  /\ verdict = "NONE"
  /\ witness = <<>>
  /\ live = 0

NextCheckProp ==
  \/ CheckSafety
  \/ Translate
  \/ SkipStage
  \/ ToggleClock
  \/ ClockIsInput
  \/ AddReset
  \/ ReduceToCone
  \/ ConeNotFunctional
  \/ PseudoInit
  \/ PseudoInitOverNext
  \/ PromoteInputs
  \/ AddMonitor
  \/ NextInFunctional
  \/ AssumeProperty
  \/ FindCex
  \/ FindNone
  \/ Report
=============================================================================
