------------------------------ MODULE MCCegar -------------------------------
(***************************************************************************)
(* The loops of the CEGAR engines side by side: a behavior is a run of one *)
(* of them, on one of its systems.                                         *)
(***************************************************************************)
EXTENDS CegProphecyArrays

VARIABLES loop, tsys, tpc, equalities, treached, answer, witness

\* A location, an index register and a flag.
Regs == (0..3) \X {0, 1} \X {0, 1}
\* Index terms: the input, the index register or a constant.
Over(f)  == [t \in Term |-> IF f[t] = "input" THEN "input" ELSE "state"]
IndexOf(f) ==
  [t \in Term |-> [p \in Reg \X Input |->
     CASE f[t] = "input" -> p[2]
       [] f[t] = "reg"   -> p[1][2]
       [] OTHER          -> 0]]

\* Steps: the location advances up to the last; the register is kept or chosen
\* anew; the flag is kept or is what is read, at every location or at the second.
Last(m) == CASE m = "latch early" -> 3 [] m = "stay" -> 0 [] OTHER -> 2
Latches(m, l) == m = "latch" \/ (m = "latch early" /\ l = 1)
StepOf(m) ==
  {p \in Reg \X Input \X Elem \X Reg :
     LET s == p[1] t == p[4]
     IN  /\ t[1] = IF s[1] < Last(m) THEN s[1] + 1 ELSE s[1]
         /\ m # "choose" => t[2] = s[2]
         /\ t[3] = IF Latches(m, s[1]) THEN p[3] ELSE s[3]}

\* Bad, in the last location: a set flag, a difference or a one that is read.
BadOf(m, differs) ==
  {p \in Reg \X Elem :
     /\ p[1][1] = Last(m)
     /\ CASE m \in {"latch", "latch early"} -> p[1][3] = 1
          [] differs                        -> TRUE
          [] OTHER                          -> p[2] = 1}

Make(strong, red, f, data, stores, m, differs) ==
  [strong |-> strong, consecRed |-> red, nonconsecRed |-> red,
   over |-> Over(f), index |-> IndexOf(f), write |-> "i", read |-> "r", check |-> "j",
   stores |-> IF stores THEN Reg \X Input ELSE {}, data |-> data,
   value |-> 0, init |-> {<<0, 0, 0>>, <<0, 1, 0>>}, step |-> StepOf(m),
   bad |-> BadOf(m, differs), differs |-> differs]

Zero == [p \in Reg \X Input |-> 0]
OneLate == [p \in Reg \X Input |-> IF p[1][1] = 1 THEN 1 ELSE 0]
OneAtEnd == [p \in Reg \X Input |-> IF p[1][1] = 2 THEN 1 ELSE 0]


\* What is stored where, under which index, and what is read.
Uses(i, r, j) == [t \in Term |-> CASE t = "i" -> i [] t = "r" -> r [] OTHER -> j]
Programs ==
  {<<Uses("input", "input", "reg"), d, TRUE, m, FALSE>> :
     d \in {Zero, OneLate}, m \in {"latch", "latch early", "stay"}}
  \cup {<<Uses("input", "reg", "reg"), d, TRUE, m, df>> :
     d \in {Zero, OneLate, OneAtEnd}, m \in {"keep", "choose"}, df \in BOOLEAN}
  \cup {<<Uses("reg", "input", "zero"), d, st, m, FALSE>> :
     d \in {Zero, OneLate}, st \in BOOLEAN, m \in {"choose", "latch"}}
SomeSystems ==
  {Make(s, red, q[1], q[2], q[3], q[4], q[5]) : s \in BOOLEAN, red \in BOOLEAN, q \in Programs}

----------------------------------------------------------------------------
(* The loop over terms: CegarTerms.                                        *)
Mod3 == 0..2
PlusOne == [v \in Mod3 |-> (v + 1) % 3]
TermNames == {"a", "b"}
OfTerms == INSTANCE CegarTerms WITH
  State <- Mod3, Val <- Mod3, Op <- PlusOne, Term <- TermNames, Systems <- {},
  sys <- tsys, pc <- tpc, axioms <- equalities, reached <- treached, verdict <- answer

\* Two terms, op(x) and a second one, over the inputs or the next state.
OverState == [k \in TermNames |-> [p \in Mod3 \X Input |-> p[1]]]
OverInput == [OverState EXCEPT !["b"] = [p \in Mod3 \X Input |-> (p[1] + p[2]) % 3]]
Constants == [k \in TermNames |-> [p \in Mod3 \X Input |-> IF k = "a" THEN 0 ELSE 2]]
Second(o) == [k \in TermNames |-> IF k = "b" THEN o ELSE "state"]

\* The next state as a predicate.
Steps == {"a", "b", "either", "choice", "guarded", "before", "lock"}
TermStepOf(n) ==
  {p \in Mod3 \X Input \X OfTerms!Values \X Mod3 :
     LET s == p[1] v == p[3] t == p[4]
     IN  CASE n = "a"       -> t = v["a"]
           [] n = "b"       -> t = v["b"]
           [] n = "either"  -> t = IF p[2] = 1 THEN v["a"] ELSE v["b"]
           [] n = "choice"  -> t = IF v["a"] = 1 THEN v["b"] ELSE s
           [] n = "guarded" -> v["a"] # 0 /\ t = v["a"]
           [] n = "before"  -> v["b"] = s
           [] n = "lock"    -> t = IF v["b"] = 0 /\ s < 2 THEN 2
                                   ELSE IF v["b"] = 1 /\ s = 0 THEN 1 ELSE s}
Inits == {"zero", "by term"}
TermInitOf(n) ==
  {p \in Mod3 \X OfTerms!Values : IF n = "zero" THEN p[1] = 0 ELSE p[2]["a"] = 1}
Bads == {"two", "by term", "mixed", "never"}
TermBadOf(n) ==
  {p \in Mod3 \X OfTerms!Values :
     CASE n = "two"     -> p[1] = 2
       [] n = "by term" -> p[2]["a"] = 0
       [] n = "mixed"   -> p[1] = 1 /\ p[2]["a"] = 2
       [] n = "never"   -> p[1] = 1 /\ p[2]["a"] = 0}

OnTwoTerms(mode, fun, keeps, over, arg, i, s, b) ==
  [mode |-> mode, functional |-> fun, keeps |-> keeps, terms |-> TermNames, over |-> Second(over),
   arg |-> arg, init |-> TermInitOf(i), step |-> TermStepOf(s), bad |-> TermBadOf(b)]

Functional ==
  {OnTwoTerms(m, TRUE, kp, "input", OverInput, i, s, b) :
     m \in {"functions", "symbols"}, kp \in BOOLEAN, i \in Inits, s \in Steps \ {"before"}, b \in Bads}
Relational ==
  {OnTwoTerms(m, FALSE, FALSE, "next", OverState, i, s, b) :
     m \in {"functions", "symbols"}, i \in Inits, s \in {"a", "guarded", "before"}, b \in Bads}
RelationalInputs(m) ==
  {OnTwoTerms(m, FALSE, FALSE, "input", OverInput, "zero", s, b) : s \in {"lock", "either", "choice"}, b \in Bads}
Frozen ==
  {OnTwoTerms("values", f, FALSE, "state", Constants, "zero", s, b) :
     f \in BOOLEAN, s \in {"a", "choice", "guarded"}, b \in Bads}

TermSystems == Functional \cup Relational \cup RelationalInputs("functions") \cup Frozen
  \cup {[sy EXCEPT !.terms = {}] : sy \in RelationalInputs("functions")}

\* The systems are such as CegarProofs asks for.
ASSUME TermSystemsAssumption ==
  \A sy \in TermSystems : OfTerms!Proper(sy) /\ OfTerms!NoSharedInputs(sy)

termVars == <<tsys, tpc, equalities, treached, answer, witness>>
allVars == <<loop, vars, termVars>>

\* The loop that is not run stays at the start, on any of its systems.
InitArrays ==
  /\ loop = "arrays" /\ Init
  /\ tsys = (CHOOSE sy \in TermSystems : TRUE) /\ OfTerms!Start
InitTerms(systems) ==
  /\ loop = "terms" /\ tsys \in systems /\ OfTerms!Start
  /\ sys = (CHOOSE sy \in Systems : TRUE) /\ Start

OnArrays(A) == loop = "arrays" /\ A /\ UNCHANGED <<loop, termVars>>
OnTerms(A) == loop = "terms" /\ A /\ UNCHANGED <<loop, vars>>

LoopEnded == IF loop = "arrays" THEN Ended ELSE tpc = "done"
LoopFinished == LoopEnded /\ UNCHANGED allVars

NextLoop ==
  \/ OnArrays(Enumerate)
  \/ OnArrays(NothingToAdd)
  \/ OnArrays(AddAxioms)
  \/ OnArrays(Prophesy)
  \/ OnArrays(ConcreteCex)
  \/ OnArrays(Proved)
  \/ OnArrays(GiveUp)
  \/ OnArrays(AbstractCex)
  \/ OnTerms(OfTerms!Proved)
  \/ OnTerms(OfTerms!GiveUp)
  \/ OnTerms(OfTerms!AbstractCex)
  \/ OnTerms(OfTerms!StoreWitness)
  \/ OnTerms(OfTerms!Refine)
  \/ LoopFinished

\* The program goes on until it ends, as in Fairness of CegProphecyArrays.
LoopFairness == []<>LoopEnded \/ []<><<NextLoop>>_allVars
LoopSpec == (InitArrays \/ InitTerms(TermSystems)) /\ [][NextLoop]_allVars /\ LoopFairness

\* Free symbols that stand for terms over the inputs of a relational system.
SharedInputsSpec == InitTerms(RelationalInputs("symbols")) /\ [][NextLoop]_allVars

(* The loop over terms answers rightly: CegarTerms.                        *)
TermsAnswerIsRight == OfTerms!TermsAnswerIsRight

(* Each loop ends: every refinement adds an equality that was missing, and *)
(* the axioms and variables a counterexample may bring come to an end.     *)
LoopDecides == <>LoopEnded

(* ops_abstractor.cpp:220: with free symbols for operators, each is "a new *)
(* state var without next state (equivalent to an input)", which takes any *)
(* value at each step; what is TRUE with it is TRUE with the operator, in  *)
(* a relational system over inputs as well.                                *)
FreeSymbolIsAnInput ==
  answer = "TRUE" => OfTerms!ConcreteCexLengths(Cardinality(Mod3)) = {}
=============================================================================
