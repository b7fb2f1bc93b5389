------------------------------- MODULE PDKind -------------------------------
(***************************************************************************)
(* The property-directed k-induction engine (engines/pdk_ind.cpp).         *)
(*                                                                         *)
(* One action per solver query or block of assertions of check_until.  The *)
(* solver is modelled by the context it holds: base, the formulas asserted *)
(* permanently, and scopes, the stack of pushed frames.  A query is        *)
(* satisfiable when that context has a model; where the code reads the     *)
(* model, the step picks any one.  Unknowns names the queries to which the *)
(* solver may also answer UNKNOWN, on some of the systems.                 *)
(***************************************************************************)
EXTENDS Unrolling, Sequences

CONSTANTS
  Systems,        (* the systems check_until is run on                     *)
  MaxBound,       (* the argument k of check_until                         *)
  Unknowns,       (* queries the solver may leave undecided                *)
  HardSystems,    (* the systems on which it may do so                     *)
  kMaxDropProbes, (* probes literal_drop may spend on one CTI              *)
  HalfBudgetAfter,(* depth beyond which half of that budget is used (20)   *)
  NoBudgetAfter   (* depth beyond which literal_drop skips all probes (50) *)

Queries == {"base", "inductive", "drop", "initiation", "consecution"}

ASSUME ValsAssumption    == Vals # {}
ASSUME SystemsAssumption == Systems \subseteq SystemType
ASSUME BoundAssumption   == MaxBound \in Nat
ASSUME UnknownsAssumption == Unknowns \subseteq Queries
ASSUME BudgetAssumption  ==
  /\ kMaxDropProbes \in Nat
  /\ HalfBudgetAfter \in Nat
  /\ NoBudgetAfter \in Nat

VARIABLES
  sys,        (* the system under check; never changes                     *)
  pc,         (* the next piece of check_until to run                      *)
  i,          (* the loop variable of check_until                          *)
  base,       (* formulas asserted outside every scope                     *)
  scopes,     (* the pushed frames, the innermost last                     *)
  lemmas,     (* lemmas_, each given by the cube of states it blocks       *)
  cti,        (* the state read by extract_cti                             *)
  kept, rest, (* literal_drop: literals found essential, and not yet tried *)
  probes,     (* probes_used                                               *)
  reached,    (* reached_k_                                                *)
  verdict,    (* what check_until returned                                 *)
  witness     (* witness_, the frames compute_witness recorded             *)

ctiVars == <<cti, kept, rest, probes>>
vars == <<sys, pc, i, base, scopes, lemmas, ctiVars, reached, verdict, witness>>

----------------------------------------------------------------------------
good == State \ sys.bad

\* The states that agree with the CTI on the literals in K.
Cube(K) == {s \in State : Agree(K, s, cti)}

InScope == UNION {scopes[n] : n \in DOMAIN scopes}
Context == base \cup InScope
Push(F) == scopes' = Append(scopes, F)
Pop     == scopes' = SubSeq(scopes, 1, Len(scopes) - 1)
AssertInScope(F) ==
  scopes' = [scopes EXCEPT ![Len(scopes)] = @ \cup F]

Sat(F)    == Models(sys, Context \cup F, i) # {}
Unsat(F)  == Models(sys, Context \cup F, i) = {}
Unknown(q) == q \in Unknowns /\ sys \in HardSystems

\* The variables simple_path_constraint(a, b) compares.
Compared(a, b) == IF a > 0 /\ b > 0 THEN Vars \ sys.noupd ELSE Vars

\* Slip: only neighbouring times are compared.
CyclicPairs_Neighbours(m) ==
  {ab \in (0..i) \X (0..i) :
     ab[2] = ab[1] + 1 /\ Agree(Compared(ab[1], ab[2]), m[ab[1]], m[ab[2]])}

\* The pairs of times inductive_check finds equal in model m.
CyclicPairs(m) ==
  {ab \in (0..i) \X (0..i) :
     /\ ab[1] < ab[2]
     /\ Compared(ab[1], ab[2]) # {}
     /\ Agree(Compared(ab[1], ab[2]), m[ab[1]], m[ab[2]])}
SimplePath(ab) == Differ(Compared(ab[1], ab[2]), ab[1], ab[2])

\* The budget literal_drop gives itself at the current depth.
DropBudget ==
  IF i > NoBudgetAfter THEN 0
  ELSE IF i > HalfBudgetAfter THEN kMaxDropProbes \div 2
  ELSE kMaxDropProbes

\* Slip: the last frame is not recorded.
WitnessOf_Short(m) == [t \in 0..reached |-> m[t]]

\* compute_witness reads the frames 0..witness_length() of the model.
WitnessOf(m) == [t \in 0..reached+1 |-> m[t]]

NoCti == [v \in Vars |-> CHOOSE x \in Vals : TRUE]
ClearCti == cti' = NoCti /\ kept' = {} /\ rest' = {} /\ probes' = 0

\* The end of the loop body.  The CTI and its cube were locals.
NextBound == /\ i' = i + 1
             /\ reached' = i
             /\ ClearCti
             /\ pc' = "extend"

----------------------------------------------------------------------------
Init ==
  /\ sys \in Systems
  /\ pc = "extend"
  /\ i = 0
  /\ base = {}
  /\ scopes = <<>>
  /\ lemmas = {}
  /\ cti = NoCti
  /\ kept = {} /\ rest = {} /\ probes = 0
  /\ reached = -1
  /\ verdict = "NONE"
  /\ witness = <<>>

\* Slip: the wrong transition is unrolled.
Extend_WrongStep ==
  /\ pc = "extend"
  /\ i <= MaxBound
  /\ base' = base \cup {At(sys.constr, i), TransAt(i)}
                  \cup {At(State \ c, i) : c \in lemmas}
  /\ pc' = "base"
  /\ UNCHANGED <<sys, i, scopes, lemmas, ctiVars, reached, verdict, witness>>

\* The loop head: constraints at i, T(i-1), and every lemma at i.
Extend ==
  /\ pc = "extend"
  /\ i <= MaxBound
  /\ base' = base \cup {At(sys.constr, i)}
                  \cup (IF i > 0
                        THEN {TransAt(i-1)} \cup {At(State \ c, i) : c \in lemmas}
                        ELSE {})
  /\ pc' = "base"
  /\ UNCHANGED <<sys, i, scopes, lemmas, ctiVars, reached, verdict, witness>>

\* The loop ends without an answer.
GiveUp ==
  /\ pc = "extend"
  /\ i > MaxBound
  /\ verdict' = "UNKNOWN"
  /\ pc' = "done"
  /\ UNCHANGED <<sys, i, base, scopes, lemmas, ctiVars, reached, witness>>

----------------------------------------------------------------------------
\* base_check: is bad reachable in exactly i steps?  Its scope is popped before
\* the next block runs, so it is part of the query here.
BaseQuery == {At(sys.init, 0), At(sys.bad, i)}

BaseSat ==
  /\ pc = "base"
  /\ \E m \in Models(sys, Context \cup BaseQuery, i) : witness' = WitnessOf(m)
  /\ verdict' = "FALSE"
  /\ pc' = "done"
  /\ UNCHANGED <<sys, i, base, scopes, lemmas, ctiVars, reached>>

\* UNSAT, or UNKNOWN and the loop continues optimistically.  inductive_check
\* then pushes the induction hypothesis and bad at i.
BaseClear ==
  /\ pc = "base"
  /\ Unsat(BaseQuery) \/ Unknown("base")
  /\ Push({At(good, j) : j \in 0..i-1} \cup {At(sys.bad, i)})
  /\ pc' = "inductive"
  /\ UNCHANGED <<sys, i, base, lemmas, ctiVars, reached, verdict, witness>>

----------------------------------------------------------------------------
\* inductive_check.  Every action is one turn of its loop.
InductiveUnsat ==
  /\ pc = "inductive"
  /\ Unsat({})
  /\ Pop
  /\ verdict' = "TRUE"
  /\ pc' = "done"
  /\ UNCHANGED <<sys, i, base, lemmas, ctiVars, reached, witness>>

\* Slips: the scope stays pushed, UNKNOWN passes for proved, or the bound is
\* tried again.
InductiveUnknown_NoPop ==
  /\ pc = "inductive"
  /\ Unknown("inductive")
  /\ NextBound
  /\ UNCHANGED <<sys, base, scopes, lemmas, verdict, witness>>
InductiveUnknown_Proved ==
  /\ pc = "inductive"
  /\ Unknown("inductive")
  /\ Pop
  /\ verdict' = "TRUE"
  /\ pc' = "done"
  /\ UNCHANGED <<sys, i, base, lemmas, ctiVars, reached, witness>>
InductiveUnknown_SameBound ==
  /\ pc = "inductive"
  /\ Unknown("inductive")
  /\ Pop
  /\ pc' = "extend"
  /\ UNCHANGED <<sys, i, base, lemmas, ctiVars, reached, verdict, witness>>

InductiveUnknown ==
  /\ pc = "inductive"
  /\ Unknown("inductive")
  /\ Pop
  /\ NextBound
  /\ UNCHANGED <<sys, base, lemmas, verdict, witness>>

\* The model visits a state twice: assert every violated simple-path
\* constraint at once and ask again.
InductiveRetry ==
  /\ pc = "inductive"
  /\ \E m \in Models(sys, Context, i) :
       /\ CyclicPairs(m) # {}
       /\ AssertInScope({SimplePath(ab) : ab \in CyclicPairs(m)})
  /\ UNCHANGED <<sys, pc, i, base, lemmas, ctiVars, reached, verdict, witness>>

\* A loop-free model: a genuine CTI.  At i = 0 there is no pre-state and the
\* frame is just popped; otherwise extract_cti reads time i-1, the frame is
\* popped, and literal_drop pushes the hypothesis again without bad.
InductiveSat ==
  /\ pc = "inductive"
  /\ \E m \in Models(sys, Context, i) :
       /\ CyclicPairs(m) = {}
       /\ IF i = 0
          THEN Pop /\ NextBound
          ELSE /\ cti' = m[i-1]
               /\ kept' = {} /\ rest' = Vars /\ probes' = 0
               /\ scopes' = Append(SubSeq(scopes, 1, Len(scopes) - 1),
                                   {At(good, j) : j \in 0..i-1})
               /\ pc' = "drop"
               /\ UNCHANGED <<i, reached>>
  /\ UNCHANGED <<sys, base, lemmas, verdict, witness>>

----------------------------------------------------------------------------
\* literal_drop probes whether the cube without v still forces bad.
ProbeQuery(v) == {At(Cube(kept \cup (rest \ {v})), i-1), At(good, i)}

\* Slip: the existential probe of v2, which drops v when bad stays possible.
DropLiteral_Existential(v) ==
  /\ pc = "drop"
  /\ v \in rest
  /\ probes < DropBudget
  /\ Sat({At(Cube(kept \cup (rest \ {v})), i-1), At(sys.bad, i)})
  /\ rest' = rest \ {v}
  /\ probes' = probes + 1
  /\ UNCHANGED <<sys, pc, i, base, scopes, lemmas, cti, kept, reached, verdict, witness>>

DropLiteral(v) ==
  /\ pc = "drop"
  /\ v \in rest
  /\ probes < DropBudget
  /\ Unsat(ProbeQuery(v))
  /\ rest' = rest \ {v}
  /\ probes' = probes + 1
  /\ UNCHANGED <<sys, pc, i, base, scopes, lemmas, cti, kept, reached, verdict, witness>>

KeepLiteral(v) ==
  /\ pc = "drop"
  /\ v \in rest
  /\ probes < DropBudget
  /\ Sat(ProbeQuery(v)) \/ Unknown("drop")
  /\ kept' = kept \cup {v}
  /\ rest' = rest \ {v}
  /\ probes' = probes + 1
  /\ UNCHANGED <<sys, pc, i, base, scopes, lemmas, cti, reached, verdict, witness>>

\* The probe or the time budget is used up: keep everything not yet tried.  The
\* clock can expire before any probe, so only the literals left are a guard.
KeepRemaining ==
  /\ pc = "drop"
  /\ rest # {}
  /\ kept' = kept \cup rest
  /\ rest' = {}
  /\ UNCHANGED <<sys, pc, i, base, scopes, lemmas, cti, probes, reached, verdict, witness>>

\* The hypothesis is popped.  An empty cube yields the lemma true, which
\* try_add_lemma discards; any other cube goes to the soundness gate.
DropDone ==
  /\ pc = "drop"
  /\ rest = {}
  /\ Pop
  /\ IF kept = {} THEN NextBound
     ELSE pc' = "initiation" /\ UNCHANGED <<i, reached, ctiVars>>
  /\ UNCHANGED <<sys, base, lemmas, verdict, witness>>

----------------------------------------------------------------------------
\* is_lemma_sound: each query lives in a scope of its own, on top of the whole
\* background (T at 0..i-1, the constraints and every lemma at 0..i).
\* Slip: the bounded check tried first (see FIX 1c).
ConsecutionQuery_Bounded == {At(sys.init, 0), At(Cube(kept), 1)}

InitiationQuery  == {At(sys.init, 0), At(Cube(kept), 0)}
ConsecutionQuery == {At(State \ Cube(kept), 0), At(Cube(kept), 1)}

InitiationHolds ==
  /\ pc = "initiation"
  /\ Unsat(InitiationQuery)
  /\ pc' = "consecution"
  /\ UNCHANGED <<sys, i, base, scopes, lemmas, ctiVars, reached, verdict, witness>>

RejectLemma ==
  /\ \/ pc = "initiation" /\ (Sat(InitiationQuery) \/ Unknown("initiation"))
     \/ pc = "consecution" /\ (Sat(ConsecutionQuery) \/ Unknown("consecution"))
  /\ NextBound
  /\ UNCHANGED <<sys, base, scopes, lemmas, verdict, witness>>

\* Slip: UNKNOWN passes for UNSAT.
AdoptLemma_OnUnknown ==
  /\ pc = "consecution"
  /\ Unsat(ConsecutionQuery) \/ Unknown("consecution")
  /\ lemmas' = lemmas \cup {Cube(kept)}
  /\ base' = base \cup {At(State \ Cube(kept), t) : t \in 0..i}
  /\ NextBound
  /\ UNCHANGED <<sys, scopes, verdict, witness>>

\* Consecution holds: try_add_lemma stamps a new lemma at every time in use.
AdoptLemma ==
  /\ pc = "consecution"
  /\ Unsat(ConsecutionQuery)
  /\ IF Cube(kept) \in lemmas
     THEN UNCHANGED <<lemmas, base>>
     ELSE /\ lemmas' = lemmas \cup {Cube(kept)}
          /\ base' = base \cup {At(State \ Cube(kept), t) : t \in 0..i}
  /\ NextBound
  /\ UNCHANGED <<sys, scopes, verdict, witness>>

----------------------------------------------------------------------------
Next ==
  \/ Extend
  \/ GiveUp
  \/ BaseSat
  \/ BaseClear
  \/ InductiveUnsat
  \/ InductiveUnknown
  \/ InductiveRetry
  \/ InductiveSat
  \/ \E v \in Vars : DropLiteral(v) \/ KeepLiteral(v)
  \/ KeepRemaining
  \/ DropDone
  \/ InitiationHolds
  \/ RejectLemma
  \/ AdoptLemma

\* check_until is one thread: it runs until it returns.
Spec == Init /\ [][Next]_vars /\ WF_vars(Next)

----------------------------------------------------------------------------
IsFormula(f, n) ==
  \/ f \in [kind : {"state"}, set : SUBSET State, time : 0..n]
  \/ f \in [kind : {"trans"}, time : 0..n-1]
  \/ f \in [kind : {"differ"}, vars : SUBSET Vars, left : 0..n, right : 0..n]

(* Every variable holds what its declaration says, and no formula mentions *)
(* a time beyond the bound in progress.                                    *)
TypeOK ==
  /\ sys \in SystemType
  /\ pc \in {"extend", "base", "inductive", "drop", "initiation", "consecution", "done"}
  /\ i \in 0..MaxBound+1
  /\ \A f \in base : IsFormula(f, i)
  /\ scopes = <<>> \/ \E F \in {scopes[1]} : scopes = <<F>> /\ \A f \in F : IsFormula(f, i)
  /\ lemmas \subseteq SUBSET State
  /\ cti \in State
  /\ kept \subseteq Vars /\ rest \subseteq Vars
  /\ probes \in Nat
  /\ reached \in Int
  /\ verdict \in {"NONE", "TRUE", "FALSE", "UNKNOWN"}

(* The side conditions of the soundness argument: the system is well       *)
(* formed, and the solver always decides the base case.                    *)
Trusted == WellFormed(sys) /\ "base" \notin Unknowns

(* Answering TRUE means that no reachable state is bad, although the query *)
(* that was UNSAT also assumed every lemma and every simple-path           *)
(* constraint collected so far.                                            *)
ProofIsSound == verdict = "TRUE" /\ Trusted => Safe(sys)

(* A lemma is asserted at every time for the rest of the run, base checks  *)
(* included, so the cube it blocks must contain no reachable state.        *)
LemmasUnreachable ==
  lemmas # {} /\ Trusted => \A c \in lemmas : c \cap Reachable(sys) = {}

(* FALSE comes with an execution into bad, of witness_length() =           *)
(* reached_k_ + 1 steps, and there is no shorter one: no lemma ever hides  *)
(* a counterexample from an earlier base check.                            *)
CexIsShortest ==
  verdict = "FALSE" /\ Trusted =>
    /\ IsCex(sys, witness, reached + 1)
    /\ \A d \in 0..reached : ~HasCex(sys, d)

(* Once literal_drop has dropped a literal, the cube that is left forces   *)
(* bad: no loop-free or looping path of good states through the cube at    *)
(* i-1 continues into a good state.                                        *)
DroppedCubeForcesBad ==
  pc = "initiation" /\ kept # Vars /\ kept # {} =>
    Models(sys, base \cup {At(good, t) : t \in 0..i}
                     \cup {At(Cube(kept), i-1)}, i) = {}

\* Everything check_until means to hold asserted at the bound n.
Stamped(n) ==
  {At(sys.constr, t) : t \in 0..n} \cup {TransAt(t) : t \in 0..n-1}
    \cup {At(State \ c, t) : c \in lemmas, t \in 0..n}

(* Between two bounds the solver holds exactly the constraints and lemmas  *)
(* stamped at every time in use and the unrolled transitions: no scope is  *)
(* left pushed, no lemma misses a time.                                    *)
BackgroundIsExact ==
  /\ pc \notin {"inductive", "drop"} => scopes = <<>>
  /\ pc = "base" => base = Stamped(i)

(* What K-Induction with simple paths asks at bound k, without lemmas.     *)
PlainInductive(k) ==
  Models(sys, {At(sys.constr, t) : t \in 0..k} \cup {TransAt(t) : t \in 0..k-1}
                \cup {At(good, t) : t \in 0..k-1} \cup {At(sys.bad, k)}
                \cup {SimplePath(ab) : ab \in {x \in (0..k) \X (0..k) : x[1] < x[2]}},
         k) = {}

(* PDKind never goes past a bound at which k-induction with simple paths   *)
(* proves the property, if some variable has an update: every violated     *)
(* simple-path constraint is found.  Without one k-induction asserts the   *)
(* empty disjunction and is done at bound 2, where PDKind skips the pair.  *)
DominatesSimplePathInduction ==
  pc = "extend" /\ reached >= 0 /\ ~Unknown("inductive") /\ Vars \ sys.noupd # {} =>
    ~PlainInductive(reached)

(* check_until returns: the lazy simple-path loop runs dry.  With a solver *)
(* that decides every query and a bound beyond the longest simple path,    *)
(* the answer is right and never UNKNOWN.                                  *)
Decides ==
  <>(IF \E q \in Queries : Unknown(q) THEN verdict # "NONE"
     ELSE verdict = IF Safe(sys) THEN "TRUE" ELSE "FALSE")

Contract == INSTANCE ProverContract WITH Systems <- SystemType

(* PDKind implements the contract of SafetyProver.                         *)
ImplementsContract == Contract!Spec
=============================================================================
