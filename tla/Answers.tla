------------------------------ MODULE Answers ------------------------------
(***************************************************************************)
(* What the user of the pipeline is promised of the system as it was read  *)
(* and of the signals given on the command line (options.cpp:338-355,      *)
(* control_signals.h, core/prop.h): TRUE means that no execution violates  *)
(* the property, FALSE comes with one that does, for a justice property    *)
(* with a lasso that meets each of its conditions, and UNKNOWN promises    *)
(* nothing.                                                                *)
(***************************************************************************)
EXTENDS LayeredSystem

CONSTANT Cases   (* pairs of a system and the options it is checked with   *)

VARIABLES
  sys, opt,   (* never change                                              *)
  verdict,    (* the answer, "NONE" while there is none                    *)
  witness     (* the frames returned with FALSE                            *)

vars == <<sys, opt, verdict, witness>>

\* The variables a witness has to be right about.
Kept ==
  IF opt.coi
  THEN Cone(sys, IF opt.justice THEN {sys.justice[n] : n \in DOMAIN sys.justice}
                 ELSE IF sys.kind = "next" THEN {} ELSE {sys.prop},
            IF opt.reset > 0 THEN {opt.signal} ELSE {})
  ELSE StateVars(sys) \cup sys.inputs

Matching(f) == {g \in Frames(sys) : \A v \in DOMAIN f \cap Kept : g[v] = f[v]}
Agree(a, f) == \A v \in DOMAIN a \cap DOMAIN f \cap Kept : a[v] = f[v]
Goes(f, g) == \E m \in Matching(f) : \E a \in sys.step[m] : Agree(a, g)

\* The clock and the reset signal in a frame at time t.
Driven(f, t) ==
  /\ opt.clock = "state" /\ "c" \in DOMAIN f \cap Kept => f["c"] = t % 2
  /\ opt.reset > 0 => (f[opt.signal] = opt.active <=> t < opt.reset)

IsExecution(w) ==
  /\ \E f \in Matching(w[1]) : \E a \in sys.init : On(f, StateVars(sys)) = a
  /\ \A t \in 1..Len(w)-1 : Goes(w[t], w[t+1]) /\ Driven(w[t], t-1)

\* The last frame violates the property.
EndsInViolation(w) ==
  LET f == w[Len(w)]
  IN  /\ Len(w) > opt.reset
      /\ opt.clock = "state" /\ "c" \in DOMAIN f \cap Kept => f["c"] = (Len(w) - 1) % 2
      /\ CASE sys.kind = "state" -> Matching(f) \cap sys.prop = {}
           [] sys.kind = "input" -> /\ Driven(f, Len(w)-1)
                                    /\ \E g \in Matching(f) : g \in sys.constraint /\ g \notin sys.prop
           [] sys.kind = "next" -> /\ Driven(f, Len(w)-1)
                                   /\ \E g \in Matching(f) : \E a \in sys.step[g] : <<g, a>> \notin sys.prop

\* The last frame closes a cycle on which every condition is met.  Variables
\* without update need not come back to their values: they are chosen anew.
ClosesFairCycle(w) ==
  \E l \in 1..Len(w)-1 :
    /\ Goes(w[Len(w)-1], w[l])
    /\ \A n \in DOMAIN sys.justice : \E t \in l..Len(w)-1 : Matching(w[t]) \cap sys.justice[n] # {}

----------------------------------------------------------------------------
(* The states the system can be in at time t, from those at time 0.        *)

AtStart == {a \in sys.init : opt.clock = "state" => a["c"] = 0}
DrivenFrames(S, t) == {f \in Frames(sys) : On(f, StateVars(sys)) \in S /\ Driven(f, t)}
Afterwards(S, t) ==
  {b \in UNION {sys.step[f] : f \in DrivenFrames(S, t)} : opt.clock = "state" => b["c"] = (t+1) % 2}

ViolatedIn(S, t) ==
  /\ t >= opt.reset
  /\ CASE sys.kind = "state" -> \E f \in Frames(sys) \ sys.prop : On(f, StateVars(sys)) \in S
       [] sys.kind = "input" -> (DrivenFrames(S, t) \cap sys.constraint) \ sys.prop # {}
       [] sys.kind = "next"  -> \E f \in DrivenFrames(S, t) : \E a \in sys.step[f] : <<f, a>> \notin sys.prop

\* In S at time t, or later but not after time n.
RECURSIVE ViolatedFrom(_, _, _)
ViolatedFrom(S, t, n) ==
  t <= n /\ (ViolatedIn(S, t) \/ ViolatedFrom(Afterwards(S, t), t + 1, n))

ViolatedBy(n) == ViolatedFrom(AtStart, 0, n)

RECURSIVE From(_)
From(S) ==
  LET T == S \cup UNION {sys.step[f] : f \in {g \in Frames(sys) : On(g, StateVars(sys)) \in S}}
  IN  IF T = S THEN S ELSE From(T)

HasFairLasso ==
  \E a \in From(AtStart) : \A n \in DOMAIN sys.justice :
    \E f \in sys.justice[n] :
      /\ On(f, StateVars(sys)) \in From({a})
      /\ a \in From(sys.step[f])

\* Clock and reset sequence repeat after this many steps.
Horizon == opt.reset + Cardinality(sys.states)

Fulfilled ==
  IF opt.justice THEN ~HasFairLasso ELSE ~ViolatedBy(Horizon)

Violates(w) ==
  IsExecution(w) /\ IF opt.justice THEN ClosesFairCycle(w) ELSE EndsInViolation(w)

----------------------------------------------------------------------------
Init ==
  /\ \E c \in Cases : sys = c[1] /\ opt = c[2]
  /\ verdict = "NONE"
  /\ witness = <<>>

Prove ==
  /\ verdict = "NONE"
  /\ verdict' = "TRUE"
  /\ Fulfilled
  /\ UNCHANGED <<sys, opt, witness>>

Refute ==
  /\ verdict = "NONE"
  /\ verdict' = "FALSE"
  /\ Violates(witness')
  /\ UNCHANGED <<sys, opt>>

\* UNKNOWN, or an exception that reaches main.
GiveUp ==
  /\ verdict = "NONE"
  /\ verdict' \in {"UNKNOWN", "ERROR"}
  /\ UNCHANGED <<sys, opt, witness>>

Next == Prove \/ Refute \/ GiveUp

Spec == Init /\ [][Next]_vars
=============================================================================
