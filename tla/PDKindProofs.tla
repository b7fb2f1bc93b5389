---------------------------- MODULE PDKindProofs ----------------------------
(***************************************************************************)
(* Proofs about PDKind, for every set of systems, every bound, every       *)
(* budget and any finite or infinite set of states.                        *)
(***************************************************************************)
EXTENDS PDKind, UnrollingProofs

----------------------------------------------------------------------------
(* The assertion stack, in the only two shapes it takes.                   *)

LEMMA PushOnEmpty ==
  ASSUME NEW F
  PROVE  Append(<<>>, F) = <<F>>
OBVIOUS

LEMMA PopSingle ==
  ASSUME NEW F
  PROVE  SubSeq(<<F>>, 1, Len(<<F>>) - 1) = <<>>
OBVIOUS

LEMMA AssertInSingle ==
  ASSUME NEW F, NEW G
  PROVE  [<<F>> EXCEPT ![Len(<<F>>)] = @ \cup G] = <<F \cup G>>
OBVIOUS

LEMMA ContextOfEmpty ==
  ASSUME scopes = <<>>
  PROVE  Context = base
BY DEF Context, InScope

LEMMA ContextOfSingle ==
  ASSUME NEW F, scopes = <<F>>
  PROVE  Context = base \cup F
BY DEF Context, InScope

(* Timed formulas.                                                         *)

LEMMA AtIsFormula ==
  ASSUME NEW S \in SUBSET State, NEW n \in Nat, NEW t \in 0..n
  PROVE  IsFormula(At(S, t), n)
BY DEF IsFormula, At

LEMMA TransIsFormula ==
  ASSUME NEW n \in Nat, NEW t \in 0..n-1
  PROVE  IsFormula(TransAt(t), n)
BY DEF IsFormula, TransAt

LEMMA DifferIsFormula ==
  ASSUME NEW V \in SUBSET Vars, NEW n \in Nat, NEW a \in 0..n, NEW b \in 0..n
  PROVE  IsFormula(Differ(V, a, b), n)
BY DEF IsFormula, Differ

LEMMA FormulaOfLaterBound ==
  ASSUME NEW f, NEW n \in Nat, IsFormula(f, n)
  PROVE  IsFormula(f, n+1)
<1>1. 0..n \subseteq 0..n+1 /\ 0..n-1 \subseteq 0..(n+1)-1
  OBVIOUS
<1>2. CASE f \in [kind : {"state"}, set : SUBSET State, time : 0..n]
  BY <1>1, <1>2 DEF IsFormula
<1>3. CASE f \in [kind : {"trans"}, time : 0..n-1]
  BY <1>1, <1>3 DEF IsFormula
<1>4. CASE f \in [kind : {"differ"}, vars : SUBSET Vars, left : 0..n, right : 0..n]
  BY <1>1, <1>4 DEF IsFormula
<1> QED BY <1>2, <1>3, <1>4 DEF IsFormula

----------------------------------------------------------------------------
(* Types, and the shape of the assertion stack in each piece of            *)
(* check_until: one frame during inductive_check and literal_drop, none    *)
(* anywhere else.  A CTI exists only at a positive bound, and there is a   *)
(* verdict once check_until has returned.                                  *)
StackShape ==
  /\ pc \notin {"inductive", "drop"} => scopes = <<>>
  /\ pc \in {"inductive", "drop"} => scopes = <<scopes[1]>>
  /\ pc \notin {"extend", "done"} => i <= MaxBound
  /\ pc \in {"drop", "initiation", "consecution"} => i > 0
  /\ pc # "done" <=> verdict = "NONE"

TypeInv == TypeOK /\ StackShape

LEMMA NoCtiIsState == NoCti \in State
BY ValsAssumption DEF NoCti, State

LEMMA CubeIsSetOfStates ==
  ASSUME NEW K PROVE Cube(K) \in SUBSET State
BY DEF Cube

\* The end of the loop body keeps every type.
LEMMA NextBoundType ==
  ASSUME TypeInv, pc \notin {"extend", "done"}, NextBound, scopes' = <<>>,
         sys' = sys, verdict' = verdict,
         lemmas' \subseteq SUBSET State,
         \A f \in base' : IsFormula(f, i)
  PROVE  TypeInv'
<1>1. i \in Nat /\ i <= MaxBound /\ MaxBound \in Nat
  BY BoundAssumption DEF TypeInv, TypeOK, StackShape
<1>2. i' = i + 1 /\ i' \in 0..MaxBound+1 /\ pc' = "extend" /\ reached' = i
  BY <1>1 DEF NextBound
<1>3. \A f \in base' : IsFormula(f, i')
  BY <1>1, <1>2, FormulaOfLaterBound
<1>4. cti' \in State /\ kept' \subseteq Vars /\ rest' \subseteq Vars /\ probes' \in Nat
  BY NoCtiIsState DEF NextBound, ClearCti
<1>5. sys' \in SystemType /\ verdict' \in {"NONE", "TRUE", "FALSE", "UNKNOWN"}
  BY DEF TypeInv, TypeOK
<1>6. TypeOK'
  BY <1>1, <1>2, <1>3, <1>4, <1>5 DEF TypeOK
<1>7. StackShape'
  BY <1>2 DEF TypeInv, StackShape
<1> QED BY <1>6, <1>7 DEF TypeInv

LEMMA InitType == Init => TypeInv
BY SystemsAssumption, BoundAssumption, NoCtiIsState DEF Init, TypeInv, TypeOK, StackShape

LEMMA ExtendType == TypeInv /\ Extend => TypeInv'
<1> SUFFICES ASSUME TypeInv, Extend PROVE TypeInv'
  OBVIOUS
<1>1. i \in Nat /\ i <= MaxBound
  BY BoundAssumption DEF TypeInv, TypeOK, Extend
<1>2. sys.constr \in SUBSET State
  BY DEF TypeInv, TypeOK, SystemType
<1>3. IsFormula(At(sys.constr, i), i)
  BY <1>1, <1>2, AtIsFormula
<1>4. i > 0 => IsFormula(TransAt(i-1), i)
  BY <1>1, TransIsFormula
<1>5. \A c \in lemmas : IsFormula(At(State \ c, i), i)
  BY <1>1, AtIsFormula
<1>6. \A f \in base' : IsFormula(f, i')
  BY <1>3, <1>4, <1>5 DEF Extend, TypeInv, TypeOK
<1>7. TypeOK'
  BY <1>6 DEF Extend, TypeInv, TypeOK, StackShape, ctiVars
<1>8. StackShape'
  BY <1>1 DEF Extend, TypeInv, StackShape
<1> QED BY <1>7, <1>8 DEF TypeInv

LEMMA BaseClearType == TypeInv /\ BaseClear => TypeInv'
<1> SUFFICES ASSUME TypeInv, BaseClear PROVE TypeInv'
  OBVIOUS
<1> DEFINE F == {At(good, j) : j \in 0..i-1} \cup {At(sys.bad, i)}
<1>1. i \in Nat /\ i <= MaxBound /\ scopes = <<>>
  BY BoundAssumption DEF TypeInv, TypeOK, StackShape, BaseClear
<1>2. sys.bad \in SUBSET State /\ good \in SUBSET State
  BY DEF TypeInv, TypeOK, SystemType, good
<1>3. \A f \in F : IsFormula(f, i)
  BY <1>1, <1>2, AtIsFormula
<1>4. scopes' = <<F>>
  BY <1>1, PushOnEmpty DEF BaseClear, Push
<1> HIDE DEF F
<1>5. scopes'[1] = F
  BY <1>4
<1>6. TypeOK'
  BY <1>3, <1>4, <1>5 DEF BaseClear, TypeInv, TypeOK, ctiVars
<1>7. StackShape'
  BY <1>1, <1>4, <1>5 DEF BaseClear, TypeInv, StackShape
<1> QED BY <1>6, <1>7 DEF TypeInv

\* Popping the only frame.
LEMMA PopToEmpty ==
  ASSUME TypeInv, pc \in {"inductive", "drop"}
  PROVE  SubSeq(scopes, 1, Len(scopes) - 1) = <<>>
<1>1. scopes = <<scopes[1]>>
  BY DEF TypeInv, StackShape
<1> QED BY <1>1, PopSingle

LEMMA InductiveRetryType == TypeInv /\ InductiveRetry => TypeInv'
<1> SUFFICES ASSUME TypeInv, InductiveRetry PROVE TypeInv'
  OBVIOUS
<1>1. i \in Nat /\ i <= MaxBound /\ scopes = <<scopes[1]>> /\ pc = "inductive"
  BY BoundAssumption DEF TypeInv, TypeOK, StackShape, InductiveRetry
<1>2. PICK m \in Models(sys, Context, i) :
        AssertInScope({SimplePath(ab) : ab \in CyclicPairs(m)})
  BY DEF InductiveRetry
<1> DEFINE D == {SimplePath(ab) : ab \in CyclicPairs(m)}
<1>3. \A f \in D : IsFormula(f, i)
  BY <1>1, DifferIsFormula DEF CyclicPairs, SimplePath, Compared
<1>4. scopes' = <<scopes[1] \cup D>>
  BY <1>1, <1>2, AssertInSingle DEF AssertInScope
<1> HIDE DEF D
<1>5. scopes'[1] = scopes[1] \cup D
  BY <1>4
<1>6. \A f \in scopes[1] : IsFormula(f, i)
  <2>1. scopes # <<>>
    <3>1. <<scopes[1]>> # <<>>
      OBVIOUS
    <3> QED BY <1>1, <3>1, Zenon
  <2> QED BY <2>1 DEF TypeInv, TypeOK
<1>7. TypeOK'
  BY <1>3, <1>4, <1>5, <1>6 DEF InductiveRetry, TypeInv, TypeOK, ctiVars
<1>8. StackShape'
  BY <1>1, <1>4, <1>5 DEF InductiveRetry, TypeInv, StackShape
<1> QED BY <1>7, <1>8 DEF TypeInv

LEMMA InductiveSatType == TypeInv /\ InductiveSat => TypeInv'
<1> SUFFICES ASSUME TypeInv, InductiveSat PROVE TypeInv'
  OBVIOUS
<1>1. i \in Nat /\ i <= MaxBound /\ pc = "inductive"
  BY BoundAssumption DEF TypeInv, TypeOK, StackShape, InductiveSat
<1>2. SubSeq(scopes, 1, Len(scopes) - 1) = <<>>
  BY <1>1, PopToEmpty
<1>3. CASE i = 0
  <2>1. NextBound /\ scopes' = <<>> /\ UNCHANGED <<sys, base, lemmas, verdict>>
    BY <1>2, <1>3 DEF InductiveSat, Pop
  <2>2. lemmas' \subseteq SUBSET State /\ \A f \in base' : IsFormula(f, i)
    BY <2>1 DEF TypeInv, TypeOK
  <2> QED BY <1>1, <2>1, <2>2, NextBoundType
<1>4. CASE i # 0
  <2> DEFINE F == {At(good, j) : j \in 0..i-1}
  <2>1. PICK m \in Models(sys, Context, i) :
          /\ cti' = m[i-1]
          /\ kept' = {} /\ rest' = Vars /\ probes' = 0
          /\ scopes' = Append(SubSeq(scopes, 1, Len(scopes) - 1), F)
          /\ pc' = "drop"
          /\ UNCHANGED <<i, reached>>
    BY <1>4 DEF InductiveSat
  <2>2. cti' \in State
    BY <1>1, <1>4, <2>1 DEF Models
  <2>3. good \in SUBSET State
    BY DEF good
  <2>4. \A f \in F : IsFormula(f, i)
    BY <1>1, <2>3, AtIsFormula
  <2>5. scopes' = <<F>>
    BY <1>2, <2>1, PushOnEmpty
  <2> HIDE DEF F
  <2>6. scopes'[1] = F
    BY <2>5
  <2>7. UNCHANGED <<sys, base, lemmas, verdict>>
    BY DEF InductiveSat
  <2>8. TypeOK'
    BY <2>1, <2>2, <2>4, <2>5, <2>6, <2>7 DEF TypeInv, TypeOK
  <2>9. StackShape'
    <3>1. pc' = "drop" /\ i' = i
      BY <2>1
    <3>2. scopes' = <<scopes'[1]>>
      BY <2>5, <2>6
    <3> QED BY <1>1, <1>4, <2>7, <3>1, <3>2 DEF TypeInv, StackShape
  <2> QED BY <2>8, <2>9 DEF TypeInv
<1> QED BY <1>3, <1>4

\* The remaining steps change no formula but those of the frame they pop.
LEMMA DropLiteralType ==
  ASSUME TypeInv, NEW v \in Vars, DropLiteral(v) \/ KeepLiteral(v)
  PROVE  TypeInv'
<1>1. /\ UNCHANGED <<sys, pc, i, base, scopes, lemmas, cti, reached, verdict>>
      /\ rest' = rest \ {v} /\ probes' = probes + 1
      /\ kept' = kept \/ kept' = kept \cup {v}
  BY DEF DropLiteral, KeepLiteral
<1>2. TypeOK'
  BY <1>1 DEF TypeInv, TypeOK
<1>3. StackShape'
  BY <1>1 DEF TypeInv, StackShape
<1> QED BY <1>2, <1>3 DEF TypeInv

LEMMA KeepRemainingType == TypeInv /\ KeepRemaining => TypeInv'
<1> SUFFICES ASSUME TypeInv, KeepRemaining PROVE TypeInv'
  OBVIOUS
<1>1. TypeOK'
  BY DEF KeepRemaining, TypeInv, TypeOK
<1>2. StackShape'
  BY DEF KeepRemaining, TypeInv, StackShape
<1> QED BY <1>1, <1>2 DEF TypeInv

LEMMA DropDoneType == TypeInv /\ DropDone => TypeInv'
<1> SUFFICES ASSUME TypeInv, DropDone PROVE TypeInv'
  OBVIOUS
<1>1. pc = "drop" /\ scopes' = <<>> /\ UNCHANGED <<sys, base, lemmas, verdict>>
  BY PopToEmpty DEF DropDone, Pop
<1>2. CASE NextBound
  <2>1. lemmas' \subseteq SUBSET State /\ \A f \in base' : IsFormula(f, i)
    BY <1>1 DEF TypeInv, TypeOK
  <2> QED BY <1>1, <1>2, <2>1, NextBoundType
<1>3. CASE pc' = "initiation" /\ UNCHANGED <<i, reached, ctiVars>>
  <2>1. TypeOK'
    BY <1>1, <1>3 DEF TypeInv, TypeOK, ctiVars
  <2>2. StackShape'
    BY <1>1, <1>3 DEF TypeInv, StackShape
  <2> QED BY <2>1, <2>2 DEF TypeInv
<1> QED BY <1>2, <1>3 DEF DropDone

LEMMA AdoptLemmaType == TypeInv /\ AdoptLemma => TypeInv'
<1> SUFFICES ASSUME TypeInv, AdoptLemma PROVE TypeInv'
  OBVIOUS
<1>1. i \in Nat /\ pc = "consecution" /\ scopes' = <<>> /\ UNCHANGED <<sys, verdict>>
  BY DEF TypeInv, TypeOK, StackShape, AdoptLemma
<1>2. \A t \in 0..i : IsFormula(At(State \ Cube(kept), t), i)
  BY <1>1, AtIsFormula
<1>3. \A f \in base' : IsFormula(f, i)
  <2>1. \A f \in base : IsFormula(f, i)
    BY DEF TypeInv, TypeOK
  <2>2. base' \subseteq base \cup {At(State \ Cube(kept), t) : t \in 0..i}
    <3>1. CASE Cube(kept) \in lemmas
      BY <3>1, Zenon DEF AdoptLemma
    <3>2. CASE Cube(kept) \notin lemmas
      BY <3>2, Zenon DEF AdoptLemma
    <3> QED BY <3>1, <3>2
  <2>3. \A f \in {At(State \ Cube(kept), t) : t \in 0..i} : IsFormula(f, i)
    BY <1>2
  <2> QED BY <2>1, <2>2, <2>3, Zenon
<1>4. lemmas' \subseteq SUBSET State
  <2>1. Cube(kept) \in SUBSET State
    BY CubeIsSetOfStates
  <2>2. lemmas' = lemmas \/ lemmas' = lemmas \cup {Cube(kept)}
    BY DEF AdoptLemma
  <2>3. lemmas \subseteq SUBSET State
    BY DEF TypeInv, TypeOK
  <2> QED BY <2>1, <2>2, <2>3, Zenon
<1> QED BY <1>1, <1>3, <1>4, NextBoundType DEF AdoptLemma

LEMMA StepType == TypeInv /\ [Next]_vars => TypeInv'
<1> SUFFICES ASSUME TypeInv, [Next]_vars PROVE TypeInv'
  OBVIOUS
<1>1. CASE Extend
  BY <1>1, ExtendType
<1>2. CASE GiveUp
  <2>1. TypeOK'
    BY <1>2 DEF GiveUp, TypeInv, TypeOK, ctiVars
  <2>2. StackShape'
    BY <1>2 DEF GiveUp, TypeInv, StackShape
  <2> QED BY <2>1, <2>2 DEF TypeInv
<1>3. CASE BaseSat
  <2>1. TypeOK'
    BY <1>3 DEF BaseSat, TypeInv, TypeOK, ctiVars
  <2>2. StackShape'
    BY <1>3 DEF BaseSat, TypeInv, StackShape
  <2> QED BY <2>1, <2>2 DEF TypeInv
<1>4. CASE BaseClear
  BY <1>4, BaseClearType
<1>5. CASE InductiveUnsat
  <2>1. scopes' = <<>>
    BY <1>5, PopToEmpty DEF InductiveUnsat, Pop
  <2>2. TypeOK'
    BY <1>5, <2>1 DEF InductiveUnsat, TypeInv, TypeOK, ctiVars
  <2>3. StackShape'
    BY <1>5, <2>1 DEF InductiveUnsat, TypeInv, StackShape
  <2> QED BY <2>2, <2>3 DEF TypeInv
<1>6. CASE InductiveUnknown
  <2>1. scopes' = <<>> /\ pc = "inductive" /\ NextBound
    BY <1>6, PopToEmpty DEF InductiveUnknown, Pop
  <2>2. UNCHANGED <<sys, base, lemmas, verdict>>
    BY <1>6 DEF InductiveUnknown
  <2>3. lemmas' \subseteq SUBSET State /\ \A f \in base' : IsFormula(f, i)
    BY <2>2 DEF TypeInv, TypeOK
  <2> QED BY <2>1, <2>2, <2>3, NextBoundType
<1>7. CASE InductiveRetry
  BY <1>7, InductiveRetryType
<1>8. CASE InductiveSat
  BY <1>8, InductiveSatType
<1>9. CASE \E v \in Vars : DropLiteral(v) \/ KeepLiteral(v)
  BY <1>9, DropLiteralType
<1>10. CASE KeepRemaining
  BY <1>10, KeepRemainingType
<1>11. CASE DropDone
  BY <1>11, DropDoneType
<1>12. CASE InitiationHolds
  <2>1. TypeOK'
    BY <1>12 DEF InitiationHolds, TypeInv, TypeOK, ctiVars
  <2>2. StackShape'
    BY <1>12 DEF InitiationHolds, TypeInv, StackShape
  <2> QED BY <2>1, <2>2 DEF TypeInv
<1>13. CASE RejectLemma
  <2>1. /\ pc \in {"initiation", "consecution"} /\ NextBound
        /\ UNCHANGED <<sys, base, scopes, lemmas, verdict>>
    BY <1>13 DEF RejectLemma
  <2>2. scopes' = <<>> /\ lemmas' \subseteq SUBSET State
    BY <2>1 DEF TypeInv, TypeOK, StackShape
  <2>3. \A f \in base' : IsFormula(f, i)
    BY <2>1 DEF TypeInv, TypeOK
  <2> QED BY <2>1, <2>2, <2>3, NextBoundType
<1>14. CASE AdoptLemma
  BY <1>14, AdoptLemmaType
<1>15. CASE UNCHANGED vars
  BY <1>15 DEF vars, ctiVars, TypeInv, TypeOK, StackShape
<1> QED
  BY <1>1, <1>2, <1>3, <1>4, <1>5, <1>6, <1>7, <1>8, <1>9, <1>10, <1>11,
     <1>12, <1>13, <1>14, <1>15 DEF Next

(* Types: whatever the solver answers, every variable holds what its       *)
(* declaration says, every formula stays within the bound, and the stack   *)
(* holds one frame exactly while inductive_check or literal_drop runs.     *)
THEOREM TypeInvariant == Spec => [](TypeOK /\ StackShape)
<1>1. Spec => []TypeInv
  BY InitType, StepType, PTL DEF Spec
<1>2. TypeInv => TypeOK /\ StackShape
  BY DEF TypeInv
<1> QED BY <1>1, <1>2, PTL

----------------------------------------------------------------------------
(* The permanent context speaks about every walk: its state formulas       *)
(* contain every reachable state, its transition formulas are trans.       *)
Background(sy, f, n) ==
  \/ \E S \in SUBSET State, t \in 0..n : f = At(S, t) /\ Reachable(sy) \subseteq S
  \/ \E t \in 0..n-1 : f = TransAt(t)

LEMMA BackgroundOfLaterBound ==
  ASSUME NEW sy, NEW n \in Nat, NEW f, Background(sy, f, n)
  PROVE  Background(sy, f, n+1)
<1>1. 0..n \subseteq 0..n+1 /\ 0..n-1 \subseteq 0..(n+1)-1
  OBVIOUS
<1> QED BY <1>1, Zenon DEF Background

LEMMA WalkSatisfiesBackground ==
  ASSUME NEW sy \in SystemType, NEW n \in Nat, NEW m, IsWalk(sy, m, n),
         NEW f, Background(sy, f, n)
  PROVE  Satisfies(sy, m, f)
<1>1. ASSUME NEW S \in SUBSET State, NEW t \in 0..n, f = At(S, t), Reachable(sy) \subseteq S
      PROVE  Satisfies(sy, m, f)
  <2>1. m[t] \in S
    BY <1>1, WalkStaysReachable
  <2> QED BY <1>1, <2>1, SatisfiesAt
<1>2. ASSUME NEW t \in 0..n-1, f = TransAt(t)
      PROVE  Satisfies(sy, m, f)
  <2>1. <<m[t], m[t+1]>> \in sy.trans
    BY DEF IsWalk
  <2> QED BY <1>2, <2>1, SatisfiesTrans
<1> QED BY <1>1, <1>2 DEF Background

----------------------------------------------------------------------------
(* The frame of inductive_check: the hypothesis, bad at the last time, and *)
(* simple-path constraints.                                                *)
HypothesisOrSimplePath(sy, f, n) ==
  \/ \E j \in 0..n-1 : f = At(State \ sy.bad, j)
  \/ f = At(sy.bad, n)
  \/ \E a \in 0..n, b \in 0..n :
       /\ a < b
       /\ f = Differ(IF a > 0 /\ b > 0 THEN Vars \ sy.noupd ELSE Vars, a, b)

\* The last k+1 states of a shortest counterexample satisfy the frame of
\* inductive_check.
LEMMA WindowSatisfiesFrame ==
  ASSUME NEW sy \in SystemType, WellFormed(sy),
         NEW n \in Nat, NEW p, IsCex(sy, p, n),
         \A m \in Nat : HasCex(sy, m) => n <= m,
         NEW k \in Nat, k < n,
         NEW f, HypothesisOrSimplePath(sy, f, k)
  PROVE  Satisfies(sy, Window(p, n, k), f)
<1> DEFINE w == Window(p, n, k)
<1>1. p \in [0..n -> State] /\ p[n] \in sy.bad
  BY DEF IsCex, IsRun
<1>2. ASSUME NEW j \in 0..k-1, f = At(State \ sy.bad, j)
      PROVE  Satisfies(sy, w, f)
  <2>1. n - k + j \in 0..n /\ n - k + j \in Nat /\ ~(n <= n - k + j) /\ j \in 0..k
    OBVIOUS
  <2>2. w[j] = p[n-k+j] /\ p[n-k+j] \in State
    BY <1>1, <2>1 DEF Window
  <2>3. p[n-k+j] \notin sy.bad
    <3> SUFFICES ASSUME p[n-k+j] \in sy.bad PROVE FALSE
      OBVIOUS
    <3> DEFINE l == n - k + j
               q == [t \in 0..l |-> p[t]]
    <3>1. l \in 0..n /\ q \in [0..l -> State] /\ q[0] = p[0] /\ q[l] = p[l]
      BY <1>1, <2>1
    <3>2. \A t \in 0..l-1 : q[t] = p[t] /\ q[t+1] = p[t+1] /\ t \in 0..n-1
      BY <2>1
    <3>3. IsCex(sy, q, l)
      BY <3>1, <3>2 DEF IsCex, IsRun
    <3> QED BY <2>1, <3>1, <3>3 DEF HasCex
  <2> QED BY <1>2, <2>2, <2>3, SatisfiesAt
<1>3. ASSUME f = At(sy.bad, k) PROVE Satisfies(sy, w, f)
  <2>1. w[k] = p[n]
    BY DEF Window
  <2> QED BY <1>1, <1>3, <2>1, SatisfiesAt
<1>4. ASSUME NEW a \in 0..k, NEW b \in 0..k, a < b, NEW V,
             V = Vars \/ V = Vars \ sy.noupd,
             f = Differ(V, a, b)
      PROVE  Satisfies(sy, w, f)
  <2>1. n-k+a \in 1..n /\ n-k+b \in 1..n /\ n-k+a < n-k+b
    BY <1>4
  <2>2. ~Agree(Vars \ sy.noupd, p[n-k+a], p[n-k+b])
    BY <2>1, ShortestCexIsSimple DEF WellFormed
  <2>3. PICK v \in Vars \ sy.noupd : p[n-k+a][v] # p[n-k+b][v]
    BY <2>2 DEF Agree
  <2>4. v \in V /\ w[a] = p[n-k+a] /\ w[b] = p[n-k+b]
    BY <1>4, <2>3 DEF Window
  <2>5. w[a][v] # w[b][v]
    BY <2>3, <2>4
  <2> HIDE DEF w
  <2> QED BY <1>4, <2>4, <2>5, SatisfiesDiffer
<1>5. CASE \E a \in 0..k, b \in 0..k :
             /\ a < b
             /\ f = Differ(IF a > 0 /\ b > 0 THEN Vars \ sy.noupd ELSE Vars, a, b)
  <2>1. PICK a \in 0..k, b \in 0..k :
             /\ a < b
             /\ f = Differ(IF a > 0 /\ b > 0 THEN Vars \ sy.noupd ELSE Vars, a, b)
    BY <1>5
  <2> DEFINE V == IF a > 0 /\ b > 0 THEN Vars \ sy.noupd ELSE Vars
  <2>2. V = Vars \/ V = Vars \ sy.noupd
    OBVIOUS
  <2>3. f = Differ(V, a, b)
    BY <2>1
  <2> HIDE DEF V
  <2> QED BY <1>4, <2>1, <2>2, <2>3
<1> QED BY <1>2, <1>3, <1>5 DEF HypothesisOrSimplePath

----------------------------------------------------------------------------
(* The inductive invariant behind soundness.  What is asserted for good is *)
(* true of every walk, the frame of inductive_check is made of the induct- *)
(* ion hypothesis and simple-path constraints, T is unrolled up to the     *)
(* bound in progress, and every bound passed has no counterexample.        *)
Unrolled == IF pc = "extend" THEN i - 1 ELSE i

ContextSound ==
  /\ \A f \in base : Background(sys, f, i)
  /\ pc = "inductive" => \A f \in scopes[1] : HypothesisOrSimplePath(sys, f, i)
  /\ pc # "done" => \A t \in 0..Unrolled-1 : TransAt(t) \in base

LemmasSound ==
  /\ \A c \in lemmas : c \cap Reachable(sys) = {}
  /\ pc = "consecution" => Cube(kept) \cap sys.init = {}

ProgressSound ==
  /\ reached = i - 1
  /\ \A d \in 0..reached : ~HasCex(sys, d)
  /\ pc \notin {"extend", "base", "done"} => ~HasCex(sys, i)

VerdictSound ==
  /\ verdict = "TRUE" => Safe(sys)
  /\ verdict = "FALSE" => IsCex(sys, witness, reached + 1)

Sound == ContextSound /\ LemmasSound /\ ProgressSound /\ VerdictSound

IInv == TypeInv /\ (Trusted => Sound)

\* What a query sees while no frame is pushed: only the background.
LEMMA WalkModelsBackground ==
  ASSUME TypeInv, ContextSound, scopes = <<>>, NEW m, IsWalk(sys, m, i),
         NEW Q, \A f \in Q : Satisfies(sys, m, f)
  PROVE  m \in Models(sys, Context \cup Q, i)
<1>1. sys \in SystemType /\ i \in Nat
  BY BoundAssumption DEF TypeInv, TypeOK
<1>2. Context = base
  BY ContextOfEmpty
<1>3. \A f \in base : Satisfies(sys, m, f)
  BY <1>1, WalkSatisfiesBackground DEF ContextSound
<1>4. m \in [0..i -> State]
  BY DEF IsWalk
<1> QED BY <1>2, <1>3, <1>4 DEF Models

\* base_check answering UNSAT rules out a counterexample of length i.
LEMMA BaseUnsatMeansNoCex ==
  ASSUME TypeInv, ContextSound, pc = "base", Unsat(BaseQuery)
  PROVE  ~HasCex(sys, i)
<1>0. sys \in SystemType /\ i \in Nat /\ scopes = <<>>
  BY BoundAssumption DEF TypeInv, TypeOK, StackShape
<1> SUFFICES ASSUME HasCex(sys, i) PROVE FALSE
  OBVIOUS
<1>1. PICK p : IsCex(sys, p, i)
  BY DEF HasCex
<1>2. IsWalk(sys, p, i)
  BY <1>0, <1>1, RunIsWalk DEF IsCex
<1>3. \A f \in BaseQuery : Satisfies(sys, p, f)
  BY <1>1, SatisfiesAt DEF BaseQuery, IsCex, IsRun
<1> QED BY <1>0, <1>2, <1>3, WalkModelsBackground DEF Unsat

\* base_check answering SAT yields a counterexample.
LEMMA BaseSatIsCex ==
  ASSUME TypeInv, ContextSound, ProgressSound, pc = "base",
         NEW m \in Models(sys, Context \cup BaseQuery, i)
  PROVE  IsCex(sys, WitnessOf(m), reached + 1)
<1>1. i \in Nat /\ reached + 1 = i /\ scopes = <<>>
  BY BoundAssumption DEF TypeInv, TypeOK, StackShape, ProgressSound
<1>2. Context = base
  BY <1>1, ContextOfEmpty
<1>3. m \in [0..i -> State] /\ \A f \in base \cup BaseQuery : Satisfies(sys, m, f)
  BY <1>2 DEF Models
<1>4. m[0] \in sys.init /\ m[i] \in sys.bad
  BY <1>3, SatisfiesAt DEF BaseQuery
<1>5. \A t \in 0..i-1 : <<m[t], m[t+1]>> \in sys.trans
  <2>1. \A t \in 0..i-1 : TransAt(t) \in base
    BY DEF ContextSound, Unrolled
  <2> QED BY <1>3, <2>1, SatisfiesTrans
<1>6. WitnessOf(m) = m
  BY <1>1, <1>3 DEF WitnessOf
<1> QED BY <1>1, <1>3, <1>4, <1>5, <1>6 DEF IsCex, IsRun

\* inductive_check answering UNSAT proves the property: the last i steps of a
\* shortest counterexample would be a model.
LEMMA InductiveUnsatMeansSafe ==
  ASSUME TypeInv, ContextSound, ProgressSound, WellFormed(sys),
         pc = "inductive", Unsat({})
  PROVE  Safe(sys)
<1>0. sys \in SystemType /\ i \in Nat /\ scopes = <<scopes[1]>>
  BY BoundAssumption DEF TypeInv, TypeOK, StackShape
<1> SUFFICES ASSUME ~Safe(sys) PROVE FALSE
  OBVIOUS
<1>1. PICK n \in Nat : HasCex(sys, n) /\ \A m \in Nat : HasCex(sys, m) => n <= m
  BY <1>0, ShortestCexExists
<1>2. i < n
  <2>1. \A d \in 0..i : ~HasCex(sys, d)
    BY <1>0 DEF ProgressSound
  <2> QED BY <1>0, <1>1, <2>1
<1>3. PICK p : IsCex(sys, p, n)
  BY <1>1 DEF HasCex
<1> DEFINE w == Window(p, n, i)
<1>4. IsWalk(sys, w, i)
  BY <1>0, <1>2, <1>3, WindowIsWalk DEF IsCex
<1>5. \A f \in base : Satisfies(sys, w, f)
  BY <1>0, <1>4, WalkSatisfiesBackground DEF ContextSound
<1>6. \A f \in scopes[1] : Satisfies(sys, w, f)
  BY <1>0, <1>1, <1>2, <1>3, WindowSatisfiesFrame DEF ContextSound
<1>7. Context = base \cup scopes[1]
  BY <1>0, ContextOfSingle
<1>8. w \in [0..i -> State]
  BY <1>4 DEF IsWalk
<1> HIDE DEF w
<1>9. w \in Models(sys, Context \cup {}, i)
  BY <1>5, <1>6, <1>7, <1>8 DEF Models
<1> QED BY <1>9 DEF Unsat

\* The gate, first half: no initial state lies in the cube.
LEMMA InitiationUnsat ==
  ASSUME TypeInv, ContextSound, WellFormed(sys), pc = "initiation", Unsat(InitiationQuery)
  PROVE  Cube(kept) \cap sys.init = {}
<1>0. sys \in SystemType /\ i \in Nat /\ scopes = <<>>
  BY BoundAssumption DEF TypeInv, TypeOK, StackShape
<1> SUFFICES ASSUME NEW s \in Cube(kept), s \in sys.init PROVE FALSE
  OBVIOUS
<1>1. PICK m : IsWalk(sys, m, i) /\ m[0] = s
  BY <1>0, ReachableIsClosed, WalkExists DEF WellFormed
<1>2. \A f \in InitiationQuery : Satisfies(sys, m, f)
  BY <1>1, SatisfiesAt DEF InitiationQuery
<1> QED BY <1>0, <1>1, <1>2, WalkModelsBackground DEF Unsat

\* The gate, both halves: the cube holds no reachable state.  Consecution is
\* asked in the whole background, so totality is what makes a step from any
\* reachable state part of a model.
LEMMA ConsecutionUnsat ==
  ASSUME TypeInv, ContextSound, LemmasSound, WellFormed(sys),
         pc = "consecution", Unsat(ConsecutionQuery)
  PROVE  Cube(kept) \cap Reachable(sys) = {}
<1>0. sys \in SystemType /\ i \in Nat /\ i > 0 /\ scopes = <<>>
  BY BoundAssumption DEF TypeInv, TypeOK, StackShape
<1> DEFINE S == Reachable(sys) \ Cube(kept)
<1>1. sys.init \subseteq S
  BY <1>0, ReachableIsClosed DEF LemmasSound
<1>2. ASSUME NEW s \in S, NEW t \in State, <<s, t>> \in sys.trans
      PROVE  t \in S
  <2>1. t \in Reachable(sys)
    BY <1>0, <1>2, ReachableIsClosed
  <2>2. PICK q : IsWalk(sys, q, i-1) /\ q[0] = t
    BY <1>0, <2>1, WalkExists DEF WellFormed
  <2>3. PICK m : IsWalk(sys, m, i) /\ m[0] = s /\ m[1] = t
    <3>1. i - 1 \in Nat /\ (i - 1) + 1 = i
      BY <1>0
    <3> QED BY <1>0, <1>2, <2>2, <3>1, WalkFromPredecessor
  <2> SUFFICES ASSUME t \in Cube(kept) PROVE FALSE
    BY <2>1
  <2>4. s \in State
    BY <1>0, ReachableIsClosed
  <2>5. \A f \in ConsecutionQuery : Satisfies(sys, m, f)
    BY <2>3, <2>4, SatisfiesAt DEF ConsecutionQuery
  <2> QED BY <1>0, <2>3, <2>5, WalkModelsBackground DEF Unsat
<1>3. Reachable(sys) \subseteq S
  <2>1. S \in SUBSET State
    BY <1>0, ReachableIsClosed
  <2> HIDE DEF S
  <2> QED BY <1>0, <1>1, <1>2, <2>1, ReachableIsLeast
<1> QED BY <1>3

----------------------------------------------------------------------------
(* Each step keeps Sound.                                                  *)

LEMMA InitSound == Init => Sound
<1> SUFFICES ASSUME Init PROVE Sound
  OBVIOUS
<1>1. ContextSound /\ LemmasSound /\ VerdictSound
  BY DEF Init, ContextSound, LemmasSound, VerdictSound, Unrolled
<1>2. ProgressSound
  BY DEF Init, ProgressSound
<1> QED BY <1>1, <1>2 DEF Sound

\* The end of the loop body, whichever way it was reached.
LEMMA NextBoundSound ==
  ASSUME TypeInv, Sound, pc \notin {"extend", "base", "done"}, NextBound,
         sys' = sys, verdict' = verdict, base \subseteq base',
         \A f \in base' : Background(sys, f, i),
         \A c \in lemmas' : c \cap Reachable(sys) = {}
  PROVE  Sound'
<1>1. i \in Nat /\ i' = i + 1 /\ reached' = i /\ pc' = "extend"
  BY BoundAssumption DEF TypeInv, TypeOK, NextBound
<1>2. \A f \in base' : Background(sys', f, i')
  BY <1>1, BackgroundOfLaterBound
<1>3. \A t \in 0..i-1 : TransAt(t) \in base'
  BY DEF Sound, ContextSound, Unrolled
<1>4. Unrolled' - 1 = i - 1
  BY <1>1 DEF Unrolled
<1>5. ContextSound'
  BY <1>1, <1>2, <1>3, <1>4 DEF ContextSound
<1>6. LemmasSound'
  BY <1>1 DEF LemmasSound
<1>7. ProgressSound'
  <2>1. \A d \in 0..i : ~HasCex(sys, d)
    BY <1>1 DEF Sound, ProgressSound
  <2> QED BY <1>1, <2>1 DEF ProgressSound
<1>8. VerdictSound'
  <2>1. verdict' = "NONE"
    BY DEF TypeInv, StackShape
  <2> QED BY <2>1 DEF VerdictSound
<1> QED BY <1>5, <1>6, <1>7, <1>8 DEF Sound

LEMMA ExtendSound == TypeInv /\ Trusted /\ Sound /\ Extend => Sound'
<1> SUFFICES ASSUME TypeInv, Trusted, Sound, Extend PROVE Sound'
  OBVIOUS
<1>1. i \in Nat /\ i' = i /\ pc = "extend" /\ pc' = "base" /\ sys' = sys /\ sys \in SystemType
  BY DEF TypeInv, TypeOK, Extend
<1>2. Background(sys, At(sys.constr, i), i)
  <2>1. sys.constr \in SUBSET State /\ Reachable(sys) \subseteq sys.constr
    BY <1>1 DEF SystemType, Trusted, WellFormed, ConstraintsEverywhere
  <2> QED BY <1>1, <2>1 DEF Background
<1>3. i > 0 => Background(sys, TransAt(i-1), i)
  BY <1>1 DEF Background
<1>4. ASSUME NEW c \in lemmas PROVE Background(sys, At(State \ c, i), i)
  <2>1. Reachable(sys) \subseteq State \ c
    BY <1>1, ReachableIsClosed DEF Sound, LemmasSound
  <2> QED BY <1>1, <2>1 DEF Background
<1>5. \A f \in base' : Background(sys, f, i)
  BY <1>2, <1>3, <1>4 DEF Extend, Sound, ContextSound
<1>6. \A t \in 0..i-1 : TransAt(t) \in base'
  <2>1. \A t \in 0..(i-1)-1 : TransAt(t) \in base
    BY <1>1 DEF Sound, ContextSound, Unrolled
  <2>2. \A t \in 0..i-1 : t \in 0..(i-1)-1 \/ (t = i-1 /\ i > 0)
    BY <1>1
  <2>3. base \subseteq base' /\ (i > 0 => TransAt(i-1) \in base')
    BY DEF Extend
  <2> QED BY <2>1, <2>2, <2>3
<1>7. ContextSound'
  BY <1>1, <1>5, <1>6 DEF ContextSound, Unrolled
<1>8. LemmasSound' /\ ProgressSound' /\ VerdictSound'
  BY <1>1 DEF Extend, Sound, LemmasSound, ProgressSound, VerdictSound
<1> QED BY <1>7, <1>8 DEF Sound

LEMMA BaseSatSound == TypeInv /\ Sound /\ BaseSat => Sound'
<1> SUFFICES ASSUME TypeInv, Sound, BaseSat PROVE Sound'
  OBVIOUS
<1>1. PICK m \in Models(sys, Context \cup BaseQuery, i) : witness' = WitnessOf(m)
  BY DEF BaseSat
<1>2. IsCex(sys, WitnessOf(m), reached + 1)
  BY <1>1, BaseSatIsCex DEF BaseSat, Sound
<1>3. VerdictSound'
  BY <1>1, <1>2 DEF BaseSat, VerdictSound
<1>4. ContextSound' /\ LemmasSound' /\ ProgressSound'
  BY DEF BaseSat, Sound, ContextSound, LemmasSound, ProgressSound
<1> QED BY <1>3, <1>4 DEF Sound

LEMMA BaseClearSound == TypeInv /\ Trusted /\ Sound /\ BaseClear => Sound'
<1> SUFFICES ASSUME TypeInv, Trusted, Sound, BaseClear PROVE Sound'
  OBVIOUS
<1> DEFINE F == {At(good, j) : j \in 0..i-1} \cup {At(sys.bad, i)}
<1>1. scopes' = <<F>>
  BY PushOnEmpty DEF BaseClear, Push, TypeInv, StackShape
<1>2. \A f \in F : HypothesisOrSimplePath(sys, f, i)
  BY DEF HypothesisOrSimplePath, good
<1> HIDE DEF F
<1>3. scopes'[1] = F
  BY <1>1
<1>4. ~HasCex(sys, i)
  BY BaseUnsatMeansNoCex DEF BaseClear, Unknown, Trusted, Sound
<1>5. ContextSound'
  BY <1>2, <1>3 DEF BaseClear, Sound, ContextSound, Unrolled
<1>6. ProgressSound'
  BY <1>4 DEF BaseClear, Sound, ProgressSound
<1>7. LemmasSound' /\ VerdictSound'
  BY DEF BaseClear, Sound, LemmasSound, VerdictSound
<1> QED BY <1>5, <1>6, <1>7 DEF Sound

LEMMA InductiveUnsatSound == TypeInv /\ Trusted /\ Sound /\ InductiveUnsat => Sound'
<1> SUFFICES ASSUME TypeInv, Trusted, Sound, InductiveUnsat PROVE Sound'
  OBVIOUS
<1>1. Safe(sys)
  BY InductiveUnsatMeansSafe DEF InductiveUnsat, Trusted, Sound
<1>2. VerdictSound'
  BY <1>1 DEF InductiveUnsat, VerdictSound
<1>3. ContextSound' /\ LemmasSound' /\ ProgressSound'
  BY DEF InductiveUnsat, Sound, ContextSound, LemmasSound, ProgressSound
<1> QED BY <1>2, <1>3 DEF Sound

LEMMA InductiveRetrySound == TypeInv /\ Sound /\ InductiveRetry => Sound'
<1> SUFFICES ASSUME TypeInv, Sound, InductiveRetry PROVE Sound'
  OBVIOUS
<1>1. i \in Nat /\ scopes = <<scopes[1]>> /\ pc = "inductive"
  BY BoundAssumption DEF TypeInv, TypeOK, StackShape, InductiveRetry
<1>2. PICK m \in Models(sys, Context, i) :
        AssertInScope({SimplePath(ab) : ab \in CyclicPairs(m)})
  BY DEF InductiveRetry
<1> DEFINE D == {SimplePath(ab) : ab \in CyclicPairs(m)}
<1>3. ASSUME NEW ab \in CyclicPairs(m)
      PROVE  HypothesisOrSimplePath(sys, SimplePath(ab), i)
  <2>1. ab[1] \in 0..i /\ ab[2] \in 0..i /\ ab[1] < ab[2]
    BY DEF CyclicPairs
  <2> QED BY <2>1 DEF HypothesisOrSimplePath, SimplePath, Compared
<1>4. scopes' = <<scopes[1] \cup D>>
  BY <1>1, <1>2, AssertInSingle DEF AssertInScope
<1>5. \A f \in D : HypothesisOrSimplePath(sys, f, i)
  BY <1>3
<1> HIDE DEF D
<1>6. scopes'[1] = scopes[1] \cup D
  BY <1>4
<1>7. \A f \in scopes'[1] : HypothesisOrSimplePath(sys, f, i)
  BY <1>1, <1>5, <1>6 DEF Sound, ContextSound
<1>8. ContextSound'
  BY <1>7 DEF InductiveRetry, Sound, ContextSound, Unrolled
<1>9. LemmasSound' /\ ProgressSound' /\ VerdictSound'
  BY DEF InductiveRetry, Sound, LemmasSound, ProgressSound, VerdictSound
<1> QED BY <1>8, <1>9 DEF Sound

\* A step to another piece at the same bound that asserts nothing for good.
LEMMA SameBoundSound ==
  ASSUME Sound, UNCHANGED <<sys, i, base, lemmas, reached, verdict, witness>>,
         pc \in {"inductive", "drop", "initiation", "consecution"},
         pc' \in {"drop", "initiation"}
  PROVE  Sound'
<1>1. ContextSound'
  BY DEF Sound, ContextSound, Unrolled
<1>2. LemmasSound' /\ ProgressSound' /\ VerdictSound'
  BY DEF Sound, LemmasSound, ProgressSound, VerdictSound
<1> QED BY <1>1, <1>2 DEF Sound

\* A step to the next bound that asserts nothing for good.
LEMMA NothingLearnedSound ==
  ASSUME TypeInv, Sound, pc \notin {"extend", "base", "done"}, NextBound,
         UNCHANGED <<sys, base, lemmas, verdict>>
  PROVE  Sound'
<1>1. \A f \in base' : Background(sys, f, i)
  BY DEF Sound, ContextSound
<1>2. \A c \in lemmas' : c \cap Reachable(sys) = {}
  BY DEF Sound, LemmasSound
<1> QED BY <1>1, <1>2, NextBoundSound

LEMMA AdoptLemmaSound == TypeInv /\ Trusted /\ Sound /\ AdoptLemma => Sound'
<1> SUFFICES ASSUME TypeInv, Trusted, Sound, AdoptLemma PROVE Sound'
  OBVIOUS
<1>1. sys \in SystemType /\ i \in Nat /\ pc = "consecution" /\ NextBound
      /\ sys' = sys /\ verdict' = verdict
  BY DEF TypeInv, TypeOK, AdoptLemma
<1>2. Cube(kept) \cap Reachable(sys) = {}
  BY ConsecutionUnsat DEF AdoptLemma, Trusted, Sound
<1> DEFINE N == {At(State \ Cube(kept), t) : t \in 0..i}
<1>3. \A f \in N : Background(sys, f, i)
  <2>1. Reachable(sys) \subseteq State \ Cube(kept)
    BY <1>1, <1>2, ReachableIsClosed
  <2> QED BY <1>1, <2>1 DEF Background
<1>4. /\ base \subseteq base' /\ base' \subseteq base \cup N
      /\ lemmas' \subseteq lemmas \cup {Cube(kept)}
  <2>1. CASE Cube(kept) \in lemmas
    BY <2>1, Zenon DEF AdoptLemma
  <2>2. CASE Cube(kept) \notin lemmas
    BY <2>2, Zenon DEF AdoptLemma
  <2> QED BY <2>1, <2>2
<1> HIDE DEF N
<1>5. \A f \in base' : Background(sys, f, i)
  BY <1>3, <1>4 DEF Sound, ContextSound
<1>6. \A c \in lemmas' : c \cap Reachable(sys) = {}
  <2>1. \A c \in lemmas : c \cap Reachable(sys) = {}
    BY DEF Sound, LemmasSound
  <2> QED BY <1>2, <1>4, <2>1, Zenon
<1> QED BY <1>1, <1>4, <1>5, <1>6, NextBoundSound

LEMMA StepSound == IInv /\ [Next]_vars => IInv'
<1> SUFFICES ASSUME IInv, [Next]_vars PROVE IInv'
  OBVIOUS
<1>0. TypeInv /\ TypeInv'
  BY StepType DEF IInv
<1>a. sys' = sys
  BY DEF Next, vars, Extend, GiveUp, BaseSat, BaseClear, InductiveUnsat,
         InductiveUnknown, InductiveRetry, InductiveSat, DropLiteral, KeepLiteral,
         KeepRemaining, DropDone, InitiationHolds, RejectLemma, AdoptLemma
<1> SUFFICES ASSUME Trusted PROVE Sound'
  BY <1>0, <1>a DEF IInv, Trusted
<1>b. Sound
  BY DEF IInv
<1>1. CASE Extend
  BY <1>0, <1>b, <1>1, ExtendSound
<1>2. CASE GiveUp
  <2>1. ContextSound' /\ LemmasSound' /\ ProgressSound' /\ VerdictSound'
    BY <1>b, <1>2 DEF GiveUp, Sound, ContextSound, LemmasSound, ProgressSound, VerdictSound
  <2> QED BY <2>1 DEF Sound
<1>3. CASE BaseSat
  BY <1>0, <1>b, <1>3, BaseSatSound
<1>4. CASE BaseClear
  BY <1>0, <1>b, <1>4, BaseClearSound
<1>5. CASE InductiveUnsat
  BY <1>0, <1>b, <1>5, InductiveUnsatSound
<1>6. CASE InductiveUnknown
  BY <1>0, <1>b, <1>6, NothingLearnedSound DEF InductiveUnknown
<1>7. CASE InductiveRetry
  BY <1>0, <1>b, <1>7, InductiveRetrySound
<1>8. CASE InductiveSat
  <2>1. pc = "inductive" /\ UNCHANGED <<sys, base, lemmas, verdict, witness>>
    BY <1>8 DEF InductiveSat
  <2>2. CASE i = 0
    BY <1>0, <1>b, <1>8, <2>1, <2>2, NothingLearnedSound DEF InductiveSat
  <2>3. CASE i # 0
    <3>1. pc' = "drop" /\ UNCHANGED <<i, reached>>
      BY <1>8, <2>3 DEF InductiveSat
    <3> QED BY <1>b, <2>1, <3>1, SameBoundSound
  <2> QED BY <2>2, <2>3
<1>9. CASE \E v \in Vars : DropLiteral(v) \/ KeepLiteral(v)
  BY <1>b, <1>9, SameBoundSound DEF DropLiteral, KeepLiteral
<1>10. CASE KeepRemaining
  BY <1>b, <1>10, SameBoundSound DEF KeepRemaining
<1>11. CASE DropDone
  <2>1. pc = "drop" /\ UNCHANGED <<sys, base, lemmas, verdict, witness>>
    BY <1>11 DEF DropDone
  <2>2. CASE kept = {}
    BY <1>0, <1>b, <1>11, <2>1, <2>2, NothingLearnedSound DEF DropDone
  <2>3. CASE kept # {}
    <3>1. pc' = "initiation" /\ UNCHANGED <<i, reached>>
      BY <1>11, <2>3 DEF DropDone
    <3> QED BY <1>b, <2>1, <3>1, SameBoundSound
  <2> QED BY <2>2, <2>3
<1>12. CASE InitiationHolds
  <2>1. Cube(kept) \cap sys.init = {}
    BY <1>0, <1>b, <1>12, InitiationUnsat DEF InitiationHolds, Trusted, Sound
  <2>2. LemmasSound'
    BY <1>b, <1>12, <2>1 DEF InitiationHolds, ctiVars, Sound, LemmasSound, Cube
  <2>3. ContextSound'
    BY <1>b, <1>12 DEF InitiationHolds, ctiVars, Sound, ContextSound, Unrolled
  <2>4. ProgressSound' /\ VerdictSound'
    BY <1>b, <1>12 DEF InitiationHolds, ctiVars, Sound, ProgressSound, VerdictSound
  <2> QED BY <2>2, <2>3, <2>4 DEF Sound
<1>13. CASE RejectLemma
  <2>1. pc \in {"initiation", "consecution"}
    BY <1>13 DEF RejectLemma
  <2> QED BY <1>0, <1>b, <1>13, <2>1, NothingLearnedSound DEF RejectLemma
<1>14. CASE AdoptLemma
  BY <1>0, <1>b, <1>14, AdoptLemmaSound
<1>15. CASE UNCHANGED vars
  BY <1>b, <1>15 DEF vars, ctiVars, Sound, ContextSound, LemmasSound, ProgressSound,
     VerdictSound, Unrolled, Cube
<1> QED
  BY <1>1, <1>2, <1>3, <1>4, <1>5, <1>6, <1>7, <1>8, <1>9, <1>10, <1>11,
     <1>12, <1>13, <1>14, <1>15 DEF Next

----------------------------------------------------------------------------
(* What the invariant gives.                                               *)

LEMMA Invariance == Spec => []IInv
<1>1. Init => IInv
  BY InitType, InitSound DEF IInv
<1> QED BY <1>1, StepSound, PTL DEF Spec

(* A lemma blocks no reachable state, in every well-formed system: the     *)
(* gate is_lemma_sound suffices although it asks consecution in a context  *)
(* that already holds the unrolled transitions and every earlier lemma.    *)
THEOREM LemmaSoundness == Spec => []LemmasUnreachable
<1>1. IInv => LemmasUnreachable
  BY DEF IInv, Sound, LemmasSound, LemmasUnreachable
<1> QED BY <1>1, Invariance, PTL

(* TRUE is never wrong in a well-formed system: the lemmas, the lazily     *)
(* added simple-path constraints and the induction hypothesis together     *)
(* exclude no shortest counterexample.                                     *)
THEOREM ProofSoundness == Spec => []ProofIsSound
<1>1. IInv => ProofIsSound
  BY DEF IInv, Sound, VerdictSound, ProofIsSound
<1> QED BY <1>1, Invariance, PTL

(* FALSE comes with an execution of reached_k_ + 1 steps into bad, and no  *)
(* shorter one exists.                                                     *)
THEOREM CexSoundness == Spec => []CexIsShortest
<1>1. IInv => CexIsShortest
  BY DEF IInv, Sound, VerdictSound, ProgressSound, CexIsShortest
<1> QED BY <1>1, Invariance, PTL

----------------------------------------------------------------------------
(* What the solver holds between two queries, for every system, well       *)
(* formed or not, and whatever the solver leaves undecided.                *)
Hypothesis == {At(good, j) : j \in 0..i-1}

\* Bad is all that follows the cube of K.
Forces(K) ==
  Models(sys, base \cup {At(good, t) : t \in 0..i} \cup {At(Cube(K), i-1)}, i) = {}

\* K-induction does not prove the property at bound n.
BeyondInduction(n) ==
  ~Unknown("inductive") /\ Vars \ sys.noupd # {} => ~PlainInductive(n)

BackgroundExact ==
  /\ reached = i - 1
  /\ i = 0 => lemmas = {}
  /\ pc # "done" => base = Stamped(Unrolled)

FrameExact ==
  /\ pc = "inductive" => Hypothesis \cup {At(sys.bad, i)} \subseteq scopes[1]
  /\ pc = "drop" => scopes[1] = Hypothesis

CubeForces ==
  /\ pc = "drop" /\ kept \cup rest # Vars => Forces(kept \cup rest)
  /\ pc = "initiation" /\ kept # Vars => Forces(kept)

InductionBeaten ==
  /\ pc = "extend" /\ i > 0 => BeyondInduction(i - 1)
  /\ pc \in {"drop", "initiation", "consecution"} => BeyondInduction(i)

Exact == BackgroundExact /\ FrameExact /\ CubeForces /\ InductionBeaten
ExactInv == TypeInv /\ Exact

LEMMA StampedKept ==
  ASSUME UNCHANGED <<sys, lemmas>>
  PROVE  \A n : Stamped(n)' = Stamped(n)
BY DEF Stamped

\* The formulas that block the cubes of L up to time n.
Blocked(L, n) == {At(State \ c, t) : c \in L, t \in 0..n}

\* One more bound.
LEMMA StampedNext ==
  ASSUME NEW n \in Nat
  PROVE  Stamped(n) = Stamped(n-1) \cup {At(sys.constr, n)}
                        \cup (IF n > 0 THEN {TransAt(n-1)} ELSE {})
                        \cup {At(State \ c, n) : c \in lemmas}
<1>1. 0..n = (0..n-1) \cup {n}
  OBVIOUS
<1>2. {At(sys.constr, t) : t \in 0..n} = {At(sys.constr, t) : t \in 0..n-1} \cup {At(sys.constr, n)}
  BY <1>1
<1>3. {TransAt(t) : t \in 0..n-1}
        = {TransAt(t) : t \in 0..(n-1)-1} \cup (IF n > 0 THEN {TransAt(n-1)} ELSE {})
  <2>1. CASE n = 0
    <3>1. 0..n-1 = {} /\ 0..(n-1)-1 = {}
      BY <2>1
    <3> QED BY <2>1, <3>1
  <2>2. CASE n > 0
    <3>1. 0..n-1 = (0..(n-1)-1) \cup {n-1}
      BY <2>2
    <3> QED BY <2>2, <3>1
  <2> QED BY <2>1, <2>2
<1>4. Blocked(lemmas, n) = Blocked(lemmas, n-1) \cup {At(State \ c, n) : c \in lemmas}
  <2>1. ASSUME NEW f
        PROVE  f \in Blocked(lemmas, n)
                 <=> f \in Blocked(lemmas, n-1) \/ \E c \in lemmas : f = At(State \ c, n)
    <3>1. (\E c \in lemmas : \E t \in 0..n : f = At(State \ c, t))
            <=> \/ \E c \in lemmas : \E t \in 0..n-1 : f = At(State \ c, t)
                \/ \E c \in lemmas : f = At(State \ c, n)
      <4>1. \A t : t \in 0..n <=> t \in 0..n-1 \/ t = n
        BY <1>1
      <4> QED BY <4>1, Zenon
    <3>2. f \in Blocked(lemmas, n) <=> \E c \in lemmas : \E t \in 0..n : f = At(State \ c, t)
      BY DEF Blocked
    <3>3. f \in Blocked(lemmas, n-1)
            <=> \E c \in lemmas : \E t \in 0..n-1 : f = At(State \ c, t)
      BY DEF Blocked
    <3> QED BY <3>1, <3>2, <3>3, Zenon
  <2> QED BY <2>1
<1>5. \A k : Stamped(k) = {At(sys.constr, t) : t \in 0..k} \cup {TransAt(t) : t \in 0..k-1}
                            \cup Blocked(lemmas, k)
  BY SMTT(30) DEF Stamped, Blocked
<1> DEFINE A(k) == {At(sys.constr, t) : t \in 0..k}
           B(k) == {TransAt(t) : t \in 0..k-1}
           C == {At(State \ c, n) : c \in lemmas}
           D == IF n > 0 THEN {TransAt(n-1)} ELSE {}
<1>6. /\ A(n) = A(n-1) \cup {At(sys.constr, n)} /\ B(n) = B(n-1) \cup D
      /\ Blocked(lemmas, n) = Blocked(lemmas, n-1) \cup C
      /\ Stamped(n) = A(n) \cup B(n) \cup Blocked(lemmas, n)
      /\ Stamped(n-1) = A(n-1) \cup B(n-1) \cup Blocked(lemmas, n-1)
  BY <1>2, <1>3, <1>4, <1>5, Zenon
<1> HIDE DEF A, B, C, D
<1>7. Stamped(n) = Stamped(n-1) \cup {At(sys.constr, n)} \cup D \cup C
  BY <1>6
<1> QED BY <1>7, Zenon DEF C, D

LEMMA BeyondKept ==
  ASSUME UNCHANGED sys
  PROVE  \A n : BeyondInduction(n)' <=> BeyondInduction(n)
BY DEF BeyondInduction, PlainInductive, Unknown, SimplePath, Compared, good

LEMMA ForcesKept ==
  ASSUME UNCHANGED <<sys, i, base, cti>>
  PROVE  \A K : Forces(K)' <=> Forces(K)
BY DEF Forces, Cube, good

\* The end of the loop body.
LEMMA NextBoundExact ==
  ASSUME ExactInv, pc \notin {"extend", "done"}, NextBound, UNCHANGED sys,
         NEW n, n = i, base' = Stamped(n)', BeyondInduction(n)
  PROVE  Exact'
<1>0. i \in Nat /\ i' = i + 1 /\ i' - 1 = i /\ reached' = i /\ pc' = "extend"
  BY BoundAssumption DEF ExactInv, TypeInv, TypeOK, NextBound
<1>1. BackgroundExact'
  <2>1. Unrolled' = n
    BY <1>0 DEF Unrolled
  <2>2. base' = Stamped(Unrolled)'
    BY <2>1 DEF Stamped
  <2> QED BY <1>0, <2>2 DEF BackgroundExact
<1>2. FrameExact' /\ CubeForces'
  BY <1>0 DEF FrameExact, CubeForces
<1>3. InductionBeaten'
  BY <1>0, BeyondKept DEF InductionBeaten
<1> QED BY <1>1, <1>2, <1>3 DEF Exact

\* A piece of check_until in the middle of the loop body.
LEMMA MidLoopExact ==
  ASSUME ExactInv, pc \notin {"extend", "done"}, pc' \notin {"extend", "done"},
         UNCHANGED <<sys, i, base, lemmas, reached>>,
         FrameExact', CubeForces', InductionBeaten'
  PROVE  Exact'
<1>1. Unrolled' = i /\ Unrolled = i
  BY DEF Unrolled
<1>2. BackgroundExact'
  BY <1>1, StampedKept DEF ExactInv, Exact, BackgroundExact
<1> QED BY <1>2 DEF Exact

LEMMA DoneExact ==
  ASSUME ExactInv, pc' = "done", UNCHANGED <<i, lemmas, reached>>
  PROVE  Exact'
BY DEF ExactInv, Exact, BackgroundExact, FrameExact, CubeForces, InductionBeaten

\* The bound in progress holds the background.
LEMMA MidLoopBackground ==
  ASSUME ExactInv, pc \notin {"extend", "done"}
  PROVE  base = Stamped(i) /\ i \in Nat /\ sys \in SystemType
BY BoundAssumption DEF ExactInv, Exact, BackgroundExact, Unrolled, TypeInv, TypeOK

LEMMA InitExact == Init => Exact
<1> SUFFICES ASSUME Init PROVE Exact
  OBVIOUS
<1>1. Unrolled = -1 /\ pc = "extend" /\ i = 0 /\ base = {} /\ reached = -1 /\ lemmas = {}
  BY DEF Init, Unrolled
<1>2. Stamped(-1) = {}
  BY DEF Stamped
<1> QED BY <1>1, <1>2 DEF Exact, BackgroundExact, FrameExact, CubeForces, InductionBeaten

LEMMA ExtendExact == ExactInv /\ Extend => Exact'
<1> SUFFICES ASSUME ExactInv, Extend PROVE Exact'
  OBVIOUS
<1>0. /\ i \in Nat /\ pc = "extend" /\ pc' = "base" /\ UNCHANGED <<sys, i, lemmas, reached>>
      /\ base = Stamped(i-1) /\ (i = 0 => lemmas = {})
  BY BoundAssumption DEF ExactInv, Exact, BackgroundExact, Unrolled, TypeInv, TypeOK, Extend
<1>1. base' = base \cup {At(sys.constr, i)}
                \cup (IF i > 0
                      THEN {TransAt(i-1)} \cup {At(State \ c, i) : c \in lemmas}
                      ELSE {})
  BY DEF Extend
<1>2. base' = Stamped(i)
  <2>1. CASE i = 0
    <3>1. {At(State \ c, i) : c \in lemmas} = {}
      BY <1>0, <2>1
    <3> QED BY <1>0, <1>1, <2>1, <3>1, StampedNext
  <2>2. CASE i # 0
    <3>1. i > 0
      BY <1>0, <2>2
    <3> QED BY <1>0, <1>1, <3>1, StampedNext
  <2> QED BY <2>1, <2>2
<1>3. BackgroundExact'
  BY <1>0, <1>2, StampedKept DEF ExactInv, Exact, BackgroundExact, Unrolled
<1> QED BY <1>0, <1>3 DEF Exact, FrameExact, CubeForces, InductionBeaten

LEMMA BaseClearExact == ExactInv /\ BaseClear => Exact'
<1> SUFFICES ASSUME ExactInv, BaseClear PROVE Exact'
  OBVIOUS
<1>0. pc = "base" /\ pc' = "inductive" /\ UNCHANGED <<sys, i, base, lemmas, reached>>
  BY DEF BaseClear
<1>1. scopes = <<>>
  BY <1>0 DEF ExactInv, TypeInv, StackShape
<1> DEFINE F == {At(good, j) : j \in 0..i-1} \cup {At(sys.bad, i)}
<1>2. scopes' = <<F>>
  BY <1>1, PushOnEmpty DEF BaseClear, Push
<1> HIDE DEF F
<1>3. scopes'[1] = F
  BY <1>2
<1>4. FrameExact'
  BY <1>0, <1>3 DEF FrameExact, Hypothesis, good, F
<1>5. CubeForces' /\ InductionBeaten'
  BY <1>0 DEF CubeForces, InductionBeaten
<1> QED BY <1>0, <1>4, <1>5, MidLoopExact

LEMMA InductiveRetryExact == ExactInv /\ InductiveRetry => Exact'
<1> SUFFICES ASSUME ExactInv, InductiveRetry PROVE Exact'
  OBVIOUS
<1>0. pc = "inductive" /\ UNCHANGED <<sys, pc, i, base, lemmas, reached>>
  BY DEF InductiveRetry
<1>1. scopes = <<scopes[1]>>
  BY <1>0 DEF ExactInv, TypeInv, StackShape
<1>2. PICK D : AssertInScope(D)
  BY DEF InductiveRetry
<1>3. scopes' = <<scopes[1] \cup D>>
  BY <1>1, <1>2, AssertInSingle DEF AssertInScope
<1>4. scopes'[1] = scopes[1] \cup D
  BY <1>3
<1>5. FrameExact'
  BY <1>0, <1>4 DEF ExactInv, Exact, FrameExact, Hypothesis, good
<1>6. CubeForces' /\ InductionBeaten'
  BY <1>0 DEF CubeForces, InductionBeaten
<1> QED BY <1>0, <1>5, <1>6, MidLoopExact

\* A loop-free model of inductive_check is one that k-induction finds too.
LEMMA LoopFreeModel ==
  ASSUME ExactInv, pc = "inductive", NEW m \in Models(sys, Context, i), CyclicPairs(m) = {}
  PROVE  BeyondInduction(i)
<1> SUFFICES ASSUME Vars \ sys.noupd # {} PROVE ~PlainInductive(i)
  BY DEF BeyondInduction
<1>0. base = Stamped(i) /\ i \in Nat
  BY MidLoopBackground
<1>1. scopes = <<scopes[1]>> /\ Hypothesis \cup {At(sys.bad, i)} \subseteq scopes[1]
  BY DEF ExactInv, Exact, FrameExact, TypeInv, StackShape
<1>2. Context = base \cup scopes[1]
  BY <1>1, ContextOfSingle
<1>3. m \in [0..i -> State] /\ \A f \in base \cup scopes[1] : Satisfies(sys, m, f)
  BY <1>2 DEF Models
<1> DEFINE P == {x \in (0..i) \X (0..i) : x[1] < x[2]}
           S == {SimplePath(ab) : ab \in P}
<1>4. ASSUME NEW ab \in P PROVE Satisfies(sys, m, SimplePath(ab))
  <2>1. ab \notin CyclicPairs(m) /\ Compared(ab[1], ab[2]) # {}
    BY DEF Compared
  <2>2. ~Agree(Compared(ab[1], ab[2]), m[ab[1]], m[ab[2]])
    BY <2>1 DEF CyclicPairs
  <2> QED BY <2>2, SatisfiesDiffer DEF Agree, SimplePath
<1>5. \A f \in S : Satisfies(sys, m, f)
  BY <1>4
<1> HIDE DEF P, S
<1> DEFINE Q == {At(sys.constr, t) : t \in 0..i} \cup {TransAt(t) : t \in 0..i-1}
                  \cup {At(good, t) : t \in 0..i-1} \cup {At(sys.bad, i)}
<1>6. Q \subseteq base \cup scopes[1]
  BY <1>0, <1>1 DEF Stamped, Hypothesis
<1>7. \A f \in Q : Satisfies(sys, m, f)
  BY <1>3, <1>6
<1> HIDE DEF Q
<1>8. m \in Models(sys, Q \cup S, i)
  BY <1>3, <1>5, <1>7 DEF Models
<1> QED BY <1>8, Zenon DEF PlainInductive, Q, S, P

LEMMA InductiveSatExact == ExactInv /\ InductiveSat => Exact'
<1> SUFFICES ASSUME ExactInv, InductiveSat PROVE Exact'
  OBVIOUS
<1>0. pc = "inductive" /\ UNCHANGED <<sys, base, lemmas>>
  BY DEF InductiveSat
<1>1. BeyondInduction(i)
  BY <1>0, LoopFreeModel DEF InductiveSat
<1>2. base = Stamped(i) /\ i \in Nat
  BY <1>0, MidLoopBackground
<1>3. CASE i = 0
  <2>1. NextBound
    BY <1>3 DEF InductiveSat
  <2>2. PICK n : n = i
    OBVIOUS
  <2>3. base' = Stamped(n)' /\ BeyondInduction(n)
    BY <1>0, <1>1, <1>2, <2>2, StampedKept
  <2> QED BY <1>0, <2>1, <2>2, <2>3, NextBoundExact
<1>4. CASE i # 0
  <2>1. /\ kept' = {} /\ rest' = Vars /\ pc' = "drop" /\ UNCHANGED <<i, reached>>
        /\ scopes' = Append(SubSeq(scopes, 1, Len(scopes) - 1), Hypothesis)
    BY <1>4 DEF InductiveSat, Hypothesis
  <2>2. scopes' = <<Hypothesis>>
    BY <1>0, <2>1, PopToEmpty, PushOnEmpty DEF ExactInv
  <2>5. Hypothesis' = Hypothesis
    BY <1>0, <2>1 DEF Hypothesis, good
  <2>3. scopes'[1] = Hypothesis /\ Hypothesis' = Hypothesis
    BY <2>2, <2>5
  <2>4. FrameExact' /\ CubeForces' /\ InductionBeaten'
    BY <1>0, <1>1, <2>1, <2>3, BeyondKept DEF FrameExact, CubeForces, InductionBeaten
  <2> QED BY <1>0, <2>1, <2>4, MidLoopExact
<1> QED BY <1>3, <1>4

LEMMA InductiveUnknownExact == ExactInv /\ InductiveUnknown => Exact'
<1> SUFFICES ASSUME ExactInv, InductiveUnknown PROVE Exact'
  OBVIOUS
<1>0. /\ pc = "inductive" /\ NextBound /\ UNCHANGED <<sys, base, lemmas>>
      /\ Unknown("inductive")
  BY DEF InductiveUnknown
<1>1. base = Stamped(i)
  BY <1>0, MidLoopBackground
<1>2. PICK n : n = i
  OBVIOUS
<1>3. base' = Stamped(n)' /\ BeyondInduction(n)
  BY <1>0, <1>1, <1>2, StampedKept DEF BeyondInduction
<1> QED BY <1>0, <1>2, <1>3, NextBoundExact

\* An UNSAT probe is about everything that is asserted, and nothing else.
LEMMA ProbeForces ==
  ASSUME ExactInv, pc = "drop", NEW v, Unsat(ProbeQuery(v))
  PROVE  Forces(kept \cup (rest \ {v}))
<1>1. scopes = <<Hypothesis>>
  BY DEF ExactInv, Exact, FrameExact, TypeInv, StackShape
<1>2. Context = base \cup Hypothesis
  BY <1>1, ContextOfSingle
<1>3. i \in Nat
  BY MidLoopBackground
<1>4. {At(good, t) : t \in 0..i} = Hypothesis \cup {At(good, i)}
  BY <1>3 DEF Hypothesis
<1> QED BY <1>2, <1>4 DEF Unsat, ProbeQuery, Forces

LEMMA DropLiteralExact ==
  ASSUME ExactInv, NEW v \in Vars, DropLiteral(v)
  PROVE  Exact'
<1>0. /\ pc = "drop" /\ kept' \cup rest' = kept \cup (rest \ {v})
      /\ UNCHANGED <<sys, pc, i, base, scopes, lemmas, cti, reached>>
  BY DEF DropLiteral
<1>1. Forces(kept \cup (rest \ {v}))
  BY <1>0, ProbeForces DEF DropLiteral
<1>2. CubeForces'
  BY <1>0, <1>1, ForcesKept DEF CubeForces
<1>3. FrameExact' /\ InductionBeaten'
  BY <1>0, BeyondKept DEF ExactInv, Exact, FrameExact, InductionBeaten, Hypothesis, good
<1> QED BY <1>0, <1>2, <1>3, MidLoopExact

LEMMA KeepLiteralsExact ==
  ASSUME ExactInv, KeepRemaining \/ \E v \in Vars : KeepLiteral(v)
  PROVE  Exact'
<1>0. /\ pc = "drop" /\ kept' \cup rest' = kept \cup rest
      /\ UNCHANGED <<sys, pc, i, base, scopes, lemmas, cti, reached>>
  BY DEF KeepRemaining, KeepLiteral
<1>1. CubeForces'
  BY <1>0, ForcesKept DEF ExactInv, Exact, CubeForces
<1>2. FrameExact' /\ InductionBeaten'
  BY <1>0, BeyondKept DEF ExactInv, Exact, FrameExact, InductionBeaten, Hypothesis, good
<1> QED BY <1>0, <1>1, <1>2, MidLoopExact

LEMMA DropDoneExact == ExactInv /\ DropDone => Exact'
<1> SUFFICES ASSUME ExactInv, DropDone PROVE Exact'
  OBVIOUS
<1>0. pc = "drop" /\ rest = {} /\ UNCHANGED <<sys, base, lemmas>>
  BY DEF DropDone
<1>1. base = Stamped(i) /\ BeyondInduction(i)
  BY <1>0, MidLoopBackground DEF ExactInv, Exact, InductionBeaten
<1>2. CASE kept = {}
  <2>1. NextBound
    BY <1>2 DEF DropDone
  <2>2. PICK n : n = i
    OBVIOUS
  <2>3. base' = Stamped(n)' /\ BeyondInduction(n)
    BY <1>0, <1>1, <2>2, StampedKept
  <2> QED BY <1>0, <2>1, <2>2, <2>3, NextBoundExact
<1>3. CASE kept # {}
  <2>1. pc' = "initiation" /\ UNCHANGED <<i, reached, cti, kept>>
    BY <1>3 DEF DropDone, ctiVars
  <2>2. kept # Vars => Forces(kept)
    <3>1. kept \cup rest = kept
      BY <1>0
    <3> QED BY <1>0, <3>1 DEF ExactInv, Exact, CubeForces
  <2>3. CubeForces'
    BY <1>0, <2>1, <2>2, ForcesKept DEF CubeForces
  <2>4. FrameExact' /\ InductionBeaten'
    BY <1>0, <1>1, <2>1, BeyondKept DEF FrameExact, InductionBeaten
  <2> QED BY <1>0, <2>1, <2>3, <2>4, MidLoopExact
<1> QED BY <1>2, <1>3

LEMMA InitiationHoldsExact == ExactInv /\ InitiationHolds => Exact'
<1> SUFFICES ASSUME ExactInv, InitiationHolds PROVE Exact'
  OBVIOUS
<1>0. /\ pc = "initiation" /\ pc' = "consecution"
      /\ UNCHANGED <<sys, i, base, lemmas, reached>>
  BY DEF InitiationHolds
<1>1. FrameExact' /\ CubeForces' /\ InductionBeaten'
  BY <1>0, BeyondKept DEF ExactInv, Exact, FrameExact, CubeForces, InductionBeaten
<1> QED BY <1>0, <1>1, MidLoopExact

LEMMA RejectLemmaExact == ExactInv /\ RejectLemma => Exact'
<1> SUFFICES ASSUME ExactInv, RejectLemma PROVE Exact'
  OBVIOUS
<1>0. /\ pc \in {"initiation", "consecution"} /\ NextBound
      /\ UNCHANGED <<sys, base, lemmas>>
  BY DEF RejectLemma
<1>1. base = Stamped(i) /\ BeyondInduction(i)
  BY <1>0, MidLoopBackground DEF ExactInv, Exact, InductionBeaten
<1>2. PICK n : n = i
  OBVIOUS
<1>3. base' = Stamped(n)' /\ BeyondInduction(n)
  BY <1>0, <1>1, <1>2, StampedKept
<1> QED BY <1>0, <1>2, <1>3, NextBoundExact

\* try_add_lemma catches up on every time in use.
LEMMA AdoptLemmaExact == ExactInv /\ AdoptLemma => Exact'
<1> SUFFICES ASSUME ExactInv, AdoptLemma PROVE Exact'
  OBVIOUS
<1>0. pc = "consecution" /\ NextBound /\ UNCHANGED sys
  BY DEF AdoptLemma
<1>1. base = Stamped(i) /\ BeyondInduction(i)
  BY <1>0, MidLoopBackground DEF ExactInv, Exact, InductionBeaten
<1>2. PICK n : n = i
  OBVIOUS
<1>3. base' = Stamped(n)'
  <2>1. CASE Cube(kept) \in lemmas
    BY <1>0, <1>1, <1>2, <2>1, StampedKept DEF AdoptLemma
  <2>2. CASE Cube(kept) \notin lemmas
    <3> DEFINE C == Cube(kept)
    <3>1. /\ lemmas' = lemmas \cup {C}
          /\ base' = base \cup {At(State \ C, t) : t \in 0..i}
      BY <2>2 DEF AdoptLemma
    <3> HIDE DEF C
    <3>2. Blocked(lemmas', n) = Blocked(lemmas, n) \cup {At(State \ C, t) : t \in 0..n}
      <4>1. ASSUME NEW L, L = lemmas \cup {C}, NEW f
            PROVE  f \in Blocked(L, n) <=> \/ f \in Blocked(lemmas, n)
                                           \/ \E t \in 0..n : f = At(State \ C, t)
        <5>1. (\E c \in L : \E t \in 0..n : f = At(State \ c, t))
                <=> \/ \E c \in lemmas : \E t \in 0..n : f = At(State \ c, t)
                    \/ \E t \in 0..n : f = At(State \ C, t)
          <6>1. \A c : c \in L <=> c \in lemmas \/ c = C
            BY <4>1
          <6> QED BY <6>1, Zenon
        <5>2. f \in Blocked(L, n) <=> \E c \in L : \E t \in 0..n : f = At(State \ c, t)
          BY DEF Blocked
        <5>3. f \in Blocked(lemmas, n)
                <=> \E c \in lemmas : \E t \in 0..n : f = At(State \ c, t)
          BY DEF Blocked
        <5> QED BY <5>1, <5>2, <5>3, Zenon
      <4>2. PICK L : L = lemmas'
        OBVIOUS
      <4>3. Blocked(L, n) = Blocked(lemmas, n) \cup {At(State \ C, t) : t \in 0..n}
        BY <3>1, <4>1, <4>2
      <4> QED BY <4>2, <4>3
    <3>3. base' = {At(sys.constr, t) : t \in 0..n} \cup {TransAt(t) : t \in 0..n-1}
                    \cup Blocked(lemmas', n)
      <4>1. base = {At(sys.constr, t) : t \in 0..n} \cup {TransAt(t) : t \in 0..n-1}
                     \cup Blocked(lemmas, n)
        BY <1>1, <1>2 DEF Stamped, Blocked
      <4> QED BY <1>2, <3>1, <3>2, <4>1
    <3> QED BY <1>0, <3>3 DEF Stamped, Blocked
  <2> QED BY <2>1, <2>2
<1> QED BY <1>0, <1>1, <1>2, <1>3, NextBoundExact

LEMMA StepExact == ExactInv /\ [Next]_vars => ExactInv'
<1> SUFFICES ASSUME ExactInv, [Next]_vars PROVE ExactInv'
  OBVIOUS
<1>0. TypeInv'
  BY StepType DEF ExactInv
<1> SUFFICES Exact'
  BY <1>0 DEF ExactInv
<1>1. CASE Extend
  BY <1>1, ExtendExact
<1>2. CASE GiveUp \/ BaseSat \/ InductiveUnsat
  BY <1>2, DoneExact DEF GiveUp, BaseSat, InductiveUnsat
<1>3. CASE BaseClear
  BY <1>3, BaseClearExact
<1>4. CASE InductiveUnknown
  BY <1>4, InductiveUnknownExact
<1>5. CASE InductiveRetry
  BY <1>5, InductiveRetryExact
<1>6. CASE InductiveSat
  BY <1>6, InductiveSatExact
<1>7. CASE \E v \in Vars : DropLiteral(v)
  BY <1>7, DropLiteralExact
<1>8. CASE KeepRemaining \/ \E v \in Vars : KeepLiteral(v)
  BY <1>8, KeepLiteralsExact
<1>9. CASE DropDone
  BY <1>9, DropDoneExact
<1>10. CASE InitiationHolds
  BY <1>10, InitiationHoldsExact
<1>11. CASE RejectLemma
  BY <1>11, RejectLemmaExact
<1>12. CASE AdoptLemma
  BY <1>12, AdoptLemmaExact
<1>13. CASE UNCHANGED vars
  <2>1. UNCHANGED <<sys, pc, i, base, scopes, lemmas, cti, kept, rest, reached>>
    BY <1>13 DEF vars, ctiVars
  <2>2. BackgroundExact'
    <3>1. Unrolled' = Unrolled
      BY <2>1 DEF Unrolled
    <3> QED BY <2>1, <3>1, StampedKept DEF ExactInv, Exact, BackgroundExact
  <2>3. FrameExact'
    BY <2>1 DEF ExactInv, Exact, FrameExact, Hypothesis, good
  <2>4. CubeForces'
    BY <2>1, ForcesKept DEF ExactInv, Exact, CubeForces
  <2>5. InductionBeaten'
    BY <2>1, BeyondKept DEF ExactInv, Exact, InductionBeaten
  <2> QED BY <2>2, <2>3, <2>4, <2>5 DEF Exact
<1> QED
  BY <1>1, <1>2, <1>3, <1>4, <1>5, <1>6, <1>7, <1>8, <1>9, <1>10, <1>11,
     <1>12, <1>13 DEF Next

LEMMA ExactInvariance == Spec => []ExactInv
<1>1. Init => ExactInv
  BY InitType, InitExact DEF ExactInv
<1> QED BY <1>1, StepExact, PTL DEF Spec

(* Between two bounds the solver holds the constraints, the transitions    *)
(* and every lemma at every time in use, and nothing else: extending the   *)
(* bound and catching up on a new lemma between them forget no time, and   *)
(* no path through inductive_check leaves its scope pushed.                *)
THEOREM BackgroundTheorem == Spec => []BackgroundIsExact
<1>1. ExactInv => BackgroundIsExact
  <2> SUFFICES ASSUME ExactInv PROVE BackgroundIsExact
    OBVIOUS
  <2>1. pc \notin {"inductive", "drop"} => scopes = <<>>
    BY DEF ExactInv, TypeInv, StackShape
  <2>2. ASSUME pc = "base" PROVE base = Stamped(i)
    <3>1. Unrolled = i
      BY <2>2 DEF Unrolled
    <3> QED BY <2>2, <3>1 DEF ExactInv, Exact, BackgroundExact
  <2> QED BY <2>1, <2>2 DEF BackgroundIsExact
<1> QED BY <1>1, ExactInvariance, PTL

(* Whatever literals literal_drop removes, in whatever order and wherever  *)
(* its budget ends, the cube that is left still forces bad.                *)
THEOREM DropTheorem == Spec => []DroppedCubeForcesBad
<1>1. ExactInv => DroppedCubeForcesBad
  BY DEF ExactInv, Exact, CubeForces, Forces, DroppedCubeForcesBad
<1> QED BY <1>1, ExactInvariance, PTL

(* PDKind proves the property no later than k-induction with simple paths  *)
(* when some variable has an update and inductive_check is decided: the    *)
(* lazily found pairs leave no model that the eager constraints exclude.   *)
THEOREM DominationTheorem == Spec => []DominatesSimplePathInduction
<1>1. ASSUME ExactInv PROVE DominatesSimplePathInduction
  <2> SUFFICES ASSUME pc = "extend", reached >= 0, ~Unknown("inductive"),
                      Vars \ sys.noupd # {}
               PROVE  ~PlainInductive(reached)
    BY DEF DominatesSimplePathInduction
  <2>1. i \in Nat /\ reached = i - 1
    BY <1>1, BoundAssumption DEF ExactInv, Exact, BackgroundExact, TypeInv, TypeOK
  <2>2. BeyondInduction(reached)
    BY <1>1, <2>1 DEF ExactInv, Exact, InductionBeaten
  <2> QED BY <2>2 DEF BeyondInduction
<1> QED BY <1>1, ExactInvariance, PTL

----------------------------------------------------------------------------
(* Refinement of the SafetyProver contract.                                *)

SystemsFixed == sys \in Systems

LEMMA SystemsFixedInvariant == Spec => []SystemsFixed
<1>1. Init => SystemsFixed
  BY DEF Init, SystemsFixed
<1>2. SystemsFixed /\ [Next]_vars => SystemsFixed'
  BY DEF SystemsFixed, Next, vars, Extend, GiveUp, BaseSat, BaseClear, InductiveUnsat,
         InductiveUnknown, InductiveRetry, InductiveSat, DropLiteral, KeepLiteral,
         KeepRemaining, DropDone, InitiationHolds, RejectLemma, AdoptLemma
<1> QED BY <1>1, <1>2, PTL DEF Spec

\* The contract speaks of the same executions.
LEMMA SameExecutions ==
  ASSUME NEW sy, NEW p, NEW k
  PROVE  /\ Contract!IsCex(sy, p, k) <=> IsCex(sy, p, k)
         /\ Contract!HasCex(sy, k) <=> HasCex(sy, k)
         /\ Contract!Safe(sy) <=> Safe(sy)
<1>1. Contract!IsCex(sy, p, k) <=> IsCex(sy, p, k)
  BY DEF Contract!IsCex, IsCex, Contract!IsRun, IsRun, Contract!State, State
<1>2. Contract!HasCex(sy, k) <=> HasCex(sy, k)
  BY DEF Contract!HasCex, HasCex, Contract!IsCex, IsCex, Contract!IsRun, IsRun,
         Contract!State, State
<1>3. Contract!Safe(sy) <=> Safe(sy)
  BY DEF Contract!Safe, Safe, Contract!Reachable, Reachable, Contract!Closed, Closed,
         Contract!State, State
<1> QED BY <1>1, <1>2, <1>3

\* The end of the loop body completes a bound.
LEMMA NextBoundAdvances ==
  ASSUME TypeInv, Sound, pc \notin {"extend", "base", "done"}, NextBound,
         UNCHANGED <<sys, verdict, witness>>
  PROVE  Contract!Advance
<1>1. i \in Nat /\ reached = i - 1 /\ reached' = i /\ verdict = "NONE" /\ ~HasCex(sys, i)
  BY BoundAssumption DEF TypeInv, TypeOK, StackShape, Sound, ProgressSound, NextBound
<1>2. \A d \in (reached+1)..reached' : ~Contract!HasCex(sys, d)
  <2>1. \A d \in (reached+1)..reached' : d = i
    BY <1>1
  <2> QED BY <1>1, <2>1, SameExecutions
<1> QED BY <1>1, <1>2 DEF Contract!Advance

LEMMA StepRefines ==
  IInv /\ Trusted /\ IInv' /\ [Next]_vars => [Contract!Next]_(Contract!vars)
<1> SUFFICES ASSUME IInv, Trusted, IInv', [Next]_vars
             PROVE  Contract!Next \/ UNCHANGED Contract!vars
  OBVIOUS
<1>0. TypeInv /\ Sound
  BY DEF IInv
<1>a. ASSUME UNCHANGED <<sys, reached, verdict, witness>>
      PROVE  UNCHANGED Contract!vars
  BY <1>a DEF Contract!vars
<1>1. CASE Extend
  BY <1>1, <1>a DEF Extend
<1>2. CASE GiveUp
  BY <1>0, <1>2 DEF GiveUp, TypeInv, StackShape, Contract!Next, Contract!GiveUp
<1>3. CASE BaseSat
  <2>1. verdict = "NONE" /\ verdict' = "FALSE" /\ UNCHANGED <<sys, reached>>
    BY <1>0, <1>3 DEF BaseSat, TypeInv, StackShape
  <2>2. PICK m \in Models(sys, Context \cup BaseQuery, i) : witness' = WitnessOf(m)
    BY <1>3 DEF BaseSat
  <2>3. IsCex(sys, WitnessOf(m), reached + 1)
    BY <1>0, <1>3, <2>2, BaseSatIsCex DEF BaseSat, Sound
  <2>4. Contract!IsCex(sys, witness', reached' + 1)
    BY <2>1, <2>2, <2>3, SameExecutions
  <2>5. reached' \in Int /\ reached' >= reached
    BY <1>0, <2>1 DEF TypeInv, TypeOK
  <2> QED BY <2>1, <2>4, <2>5 DEF Contract!Next, Contract!Refute
<1>4. CASE BaseClear
  BY <1>4, <1>a DEF BaseClear
<1>5. CASE InductiveUnsat
  <2>1. verdict = "NONE" /\ verdict' = "TRUE" /\ UNCHANGED <<sys, reached, witness>>
    BY <1>0, <1>5 DEF InductiveUnsat, TypeInv, StackShape
  <2>2. Contract!Safe(sys)
    BY <1>0, <1>5, InductiveUnsatMeansSafe, SameExecutions DEF InductiveUnsat, Trusted, Sound
  <2> QED BY <2>1, <2>2 DEF Contract!Next, Contract!Prove
<1>6. CASE InductiveUnknown
  <2>1. Contract!Advance
    BY <1>0, <1>6, NextBoundAdvances DEF InductiveUnknown
  <2> QED BY <2>1 DEF Contract!Next
<1>7. CASE InductiveRetry
  BY <1>7, <1>a DEF InductiveRetry
<1>8. CASE InductiveSat
  <2>1. CASE i = 0
    <3>1. Contract!Advance
      BY <1>0, <1>8, <2>1, NextBoundAdvances DEF InductiveSat
    <3> QED BY <3>1 DEF Contract!Next
  <2>2. CASE i # 0
    BY <1>8, <1>a, <2>2 DEF InductiveSat
  <2> QED BY <2>1, <2>2
<1>9. CASE \E v \in Vars : DropLiteral(v) \/ KeepLiteral(v)
  BY <1>9, <1>a DEF DropLiteral, KeepLiteral
<1>10. CASE KeepRemaining
  BY <1>10, <1>a DEF KeepRemaining
<1>11. CASE DropDone
  <2>1. CASE kept = {}
    <3>1. Contract!Advance
      BY <1>0, <1>11, <2>1, NextBoundAdvances DEF DropDone
    <3> QED BY <3>1 DEF Contract!Next
  <2>2. CASE kept # {}
    BY <1>11, <1>a, <2>2 DEF DropDone
  <2> QED BY <2>1, <2>2
<1>12. CASE InitiationHolds
  BY <1>12, <1>a DEF InitiationHolds
<1>13. CASE RejectLemma
  <2>1. Contract!Advance
    BY <1>0, <1>13, NextBoundAdvances DEF RejectLemma
  <2> QED BY <2>1 DEF Contract!Next
<1>14. CASE AdoptLemma
  <2>1. Contract!Advance
    BY <1>0, <1>14, NextBoundAdvances DEF AdoptLemma
  <2> QED BY <2>1 DEF Contract!Next
<1>15. CASE UNCHANGED vars
  BY <1>15, <1>a DEF vars
<1> QED
  BY <1>1, <1>2, <1>3, <1>4, <1>5, <1>6, <1>7, <1>8, <1>9, <1>10, <1>11,
     <1>12, <1>13, <1>14, <1>15 DEF Next

(* PDKind implements the SafetyProver contract on every well-formed        *)
(* system, provided the solver decides every base check.                   *)
THEOREM Refinement ==
  ASSUME \A sy \in Systems : WellFormed(sy), "base" \notin Unknowns
  PROVE  Spec => ImplementsContract
<1>1. Init => Contract!Init
  BY SystemsAssumption DEF Init, Contract!Init
<1>2. SystemsFixed => Trusted
  BY DEF SystemsFixed, Trusted
<1>3. IInv /\ IInv' /\ SystemsFixed /\ [Next]_vars => [Contract!Next]_(Contract!vars)
  BY <1>2, StepRefines
<1> QED
  BY <1>1, <1>3, Invariance, SystemsFixedInvariant, PTL
     DEF Spec, ImplementsContract, Contract!Spec
=============================================================================
