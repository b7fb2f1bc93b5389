-------------------------- MODULE KInductionProofs --------------------------
(***************************************************************************)
(* K-induction is sound, for every set of systems, every setting of its    *)
(* options, every bound and any set of states: a shortest counterexample   *)
(* satisfies whatever the engine asserts, so that a query without a model  *)
(* rules it out.                                                           *)
(***************************************************************************)
EXTENDS KInduction, UnrollingProofs

Good    == State \ sys.bad
NotInit == State \ sys.init

\* The assertions a base of bound n is made of.
IsAssertion(e, n) ==
  \/ \E t \in 0..n-1 : e = <<"always", TransAt(t)>>
  \/ e = <<"init", At(sys.init, 0)>>
  \/ \E t \in 1..n : e = <<"neg_init", At(NotInit, t)>>
  \/ \E t \in 0..n-1 : e = <<"neg_bad", At(Good, t)>>
  \/ \E a \in 0..n, b \in 0..n : a < b /\ e = SimplePath(<<a, b>>)

TypeInv ==
  /\ sys \in SystemType
  /\ opt \in OptionType
  /\ opt.step # 1 => opt.one_time /\ ~opt.eager
  /\ pc \in {"loop", "simple", "initial", "property", "base", "final", "done"}
  /\ i \in Nat
  /\ reached \in Int
  /\ IF i = 0 THEN reached = -1 ELSE reached \in Nat /\ i = reached + opt.step
  /\ verdict \in {"NONE", "TRUE", "FALSE", "UNKNOWN", "EXCEPTION"}
  /\ verdict = "NONE" <=> pc # "done"

BaseInv ==
  /\ \A e \in base : IsAssertion(e, i)
  /\ <<"init", At(sys.init, 0)>> \in base
  /\ \A t \in 0..i-1 : <<"always", TransAt(t)>> \in base

\* With the eager check every constraint up to the bound in progress is there.
Comparing == ~opt.no_simple /\ Vars # {}
EagerInv ==
  opt.eager /\ Comparing /\ pc \notin {"final", "done"} =>
    \A a \in 0..i, b \in 0..i :
      a < b /\ (pc = "loop" => b < i) => SimplePath(<<a, b>>) \in base

SimpleModel == \E m \in Answers(base, AnyState, {}) : CyclicPairs(m) = {}
LazyInv ==
  pc = "initial" /\ Comparing /\ "simple" \notin solver => SimpleModel

\* No shortest counterexample has k steps or more.
ShorterThan(k) ==
  \A n \in Nat : n >= k => ~ \E p : IsShortest(sys, p, n)

ProgressInv ==
  /\ ~opt.one_time /\ Trusted => \A d \in 0..reached : ~HasCex(sys, d)
  /\ pc = "final" => opt.one_time /\ (Trusted => ShorterThan(i))

KInductionInv ==
  TypeInv /\ BaseInv /\ EagerInv /\ LazyInv /\ ProgressInv /\ AnswerIsRight

----------------------------------------------------------------------------
(* Pieces of a shortest counterexample are models.                         *)

Piece(p, s, k) == [t \in 0..k |-> p[s+t]]

LEMMA PieceSatisfies ==
  ASSUME sys \in SystemType, ConstraintsEverywhere(sys), NoUpdateIsFree(sys),
         NEW n \in Nat, NEW p, IsShortest(sys, p, n),
         NEW k \in Nat, NEW s \in Nat, s + k <= n,
         NEW e, IsAssertion(e, k),
         e[1] = "init" => s = 0
  PROVE  Satisfies(sys, Piece(p, s, k), e[2])
<1> DEFINE q == Piece(p, s, k)
<1>1. /\ p \in [0..n -> State] /\ p[0] \in sys.init
      /\ \A t \in 0..n-1 : <<p[t], p[t+1]>> \in sys.trans
  BY DEF IsShortest, IsCex, IsRun
<1>2. \A t \in 0..k : q[t] = p[s+t] /\ s+t \in 0..n
  BY DEF Piece
<1> HIDE DEF q
<1>3. ASSUME NEW t \in 0..k-1, e = <<"always", TransAt(t)>>
      PROVE  Satisfies(sys, q, e[2])
  <2>1. q[t] = p[s+t] /\ q[t+1] = p[(s+t)+1] /\ s+t \in 0..n-1
    BY <1>2
  <2>2. <<q[t], q[t+1]>> \in sys.trans
    BY <1>1, <2>1
  <2> QED BY <1>3, <2>2, SatisfiesTrans
<1>4. ASSUME e = <<"init", At(sys.init, 0)>>
      PROVE  Satisfies(sys, q, e[2])
  <2>1. q[0] \in sys.init
    BY <1>1, <1>2, <1>4
  <2> QED BY <1>4, <2>1, SatisfiesAt
<1>5. ASSUME NEW t \in 1..k, e = <<"neg_init", At(NotInit, t)>>
      PROVE  Satisfies(sys, q, e[2])
  <2>1. q[t] = p[s+t] /\ s+t \in 1..n
    BY <1>2
  <2>2. q[t] \in NotInit
    BY <1>1, <2>1, ShortestLeavesInit DEF NotInit
  <2> QED BY <1>5, <2>2, SatisfiesAt
<1>6. ASSUME NEW t \in 0..k-1, e = <<"neg_bad", At(Good, t)>>
      PROVE  Satisfies(sys, q, e[2])
  <2>1. q[t] = p[s+t] /\ s+t \in 0..n-1
    BY <1>2
  <2>2. q[t] \in Good
    BY <1>1, <2>1, ShortestEndsFirst DEF Good
  <2> QED BY <1>6, <2>2, SatisfiesAt
<1>7. ASSUME NEW a \in 0..k, NEW b \in 0..k, a < b, e = SimplePath(<<a, b>>)
      PROVE  Satisfies(sys, q, e[2])
  <2>1. /\ q[a] = p[s+a] /\ q[b] = p[s+b]
        /\ s+a \in 0..n /\ s+b \in 0..n /\ s+a < s+b
    BY <1>2, <1>7
  <2>2. ASSUME s + a = 0 PROVE q[a] # q[b]
    BY <1>1, <2>1, <2>2, ShortestLeavesInit
  <2>3. ASSUME s + a # 0 PROVE ~Agree(Vars \ sys.noupd, q[a], q[b])
    <3>1. s + a \in 1..n /\ s + b \in 1..n
      BY <2>1, <2>3
    <3> QED BY <2>1, <3>1, ShortestCexIsSimple DEF IsShortest
  <2>4. \E v \in Compared(a, b) : q[a][v] # q[b][v]
    <3>1. CASE s + a = 0
      <4>1. Compared(a, b) = Vars
        BY <3>1 DEF Compared
      <4>2. q[a] \in State /\ q[b] \in State
        BY <1>1, <2>1
      <4>3. \E v \in Vars : q[a][v] # q[b][v]
        BY <2>2, <3>1, <4>2, StatesDiffer
      <4> QED BY <4>1, <4>3
    <3>2. CASE s + a # 0
      <4>1. PICK v \in Vars \ sys.noupd : q[a][v] # q[b][v]
        BY <2>3, <3>2 DEF Agree
      <4> QED BY <4>1 DEF Compared
    <3> QED BY <3>1, <3>2
  <2>5. e[2] = Differ(Compared(a, b), a, b)
    BY <1>7 DEF SimplePath
  <2> QED BY <2>4, <2>5, SatisfiesDiffer
<1> QED BY <1>3, <1>4, <1>5, <1>6, <1>7, Zenon DEF IsAssertion, q

LEMMA PieceIsModel ==
  ASSUME sys \in SystemType, ConstraintsEverywhere(sys), NoUpdateIsFree(sys),
         i \in Nat,
         NEW n \in Nat, NEW p, IsShortest(sys, p, n),
         NEW s \in Nat, s + i <= n,
         NEW B, \A e \in B : IsAssertion(e, i),
         NEW sels, "init" \in sels => s = 0,
         NEW F, \A f \in F : Satisfies(sys, Piece(p, s, i), f)
  PROVE  Piece(p, s, i) \in Answers(B, sels, F)
<1>1. Piece(p, s, i) \in [0..i -> State]
  <2>1. p \in [0..n -> State] /\ \A t \in 0..i : s+t \in 0..n
    BY DEF IsShortest, IsCex, IsRun
  <2> QED BY <2>1 DEF Piece
<1>2. ASSUME NEW e \in B, e[1] \in sels \cup {"always"}
      PROVE  Satisfies(sys, Piece(p, s, i), e[2])
  <2>1. e[1] = "init" => s = 0
    BY <1>2
  <2> QED BY <2>1, PieceSatisfies
<1>3. \A f \in Enabled(B, sels) : Satisfies(sys, Piece(p, s, i), f)
  BY <1>2 DEF Enabled
<1> QED BY <1>1, <1>3 DEF Answers, Models

\* A query without a model leaves no shortest counterexample of i steps or
\* more: neither its first i steps nor its last ones are a model.
LEMMA FirstStepsExcluded ==
  ASSUME sys \in SystemType, ConstraintsEverywhere(sys), NoUpdateIsFree(sys),
         i \in Nat,
         NEW B, \A e \in B : IsAssertion(e, i),
         NEW sels, Answers(B, sels, {}) = {}
  PROVE  ShorterThan(i)
<1> SUFFICES ASSUME NEW n \in Nat, n >= i, NEW p, IsShortest(sys, p, n)
             PROVE  FALSE
  BY DEF ShorterThan
<1>1. 0 \in Nat /\ 0 + i <= n
  OBVIOUS
<1>2. Piece(p, 0, i) \in Answers(B, sels, {})
  BY <1>1, PieceIsModel
<1> QED BY <1>2

LEMMA LastStepsExcluded ==
  ASSUME sys \in SystemType, ConstraintsEverywhere(sys), NoUpdateIsFree(sys),
         i \in Nat, \A e \in base : IsAssertion(e, i),
         Answers(base, AnyState, BadNow) = {}
  PROVE  ShorterThan(i)
<1> SUFFICES ASSUME NEW n \in Nat, n >= i, NEW p, IsShortest(sys, p, n)
             PROVE  FALSE
  BY DEF ShorterThan
<1>1. n-i \in Nat /\ (n-i) + i = n /\ i \in 0..i
  OBVIOUS
<1>2. Piece(p, n-i, i)[i] \in sys.bad
  BY <1>1 DEF Piece, IsShortest, IsCex
<1>3. \A f \in BadNow : Satisfies(sys, Piece(p, n-i, i), f)
  BY <1>2, SatisfiesAt DEF BadNow
<1>4. "init" \notin AnyState
  BY DEF AnyState
<1>5. Piece(p, n-i, i) \in Answers(base, AnyState, BadNow)
  BY <1>1, <1>3, <1>4, PieceIsModel
<1> QED BY <1>5

\* With all shorter ones excluded, no shortest counterexample means none.
LEMMA NoCexIsSafe ==
  ASSUME sys \in SystemType, NEW k \in Nat, ShorterThan(k),
         \A d \in 0..k-1 : ~HasCex(sys, d)
  PROVE  Safe(sys)
<1> SUFFICES ASSUME ~Safe(sys) PROVE FALSE
  OBVIOUS
<1>1. PICK n \in Nat : HasCex(sys, n) /\ \A m \in Nat : HasCex(sys, m) => n <= m
  BY ShortestCexExists
<1>2. PICK p : IsShortest(sys, p, n)
  BY <1>1 DEF HasCex, IsShortest
<1>3. ~(n >= k)
  BY <1>2 DEF ShorterThan
<1> QED BY <1>1, <1>3

LEMMA CexIsUnsafe ==
  ASSUME sys \in SystemType, NEW n \in Nat, NEW p, IsCex(sys, p, n)
  PROVE  ~Safe(sys)
<1>1. IsWalk(sys, p, n) /\ p[n] \in sys.bad /\ n \in 0..n
  BY RunIsWalk DEF IsCex
<1> QED BY <1>1, WalkStaysReachable DEF Safe

----------------------------------------------------------------------------
(* What a model is: an execution, if the initial states are enforced.      *)

LEMMA ModelIsRun ==
  ASSUME BaseInv, i \in Nat, NEW sels, "init" \in sels, NEW F,
         NEW m \in Answers(base, sels, F)
  PROVE  IsRun(sys, m, i) /\ \A f \in F : Satisfies(sys, m, f)
<1>1. m \in [0..i -> State]
  BY DEF Answers, Models
<1>2. \A f \in Enabled(base, sels) \cup F : Satisfies(sys, m, f)
  BY DEF Answers, Models
<1>3. At(sys.init, 0) \in Enabled(base, sels)
  BY DEF BaseInv, Enabled
<1>4. ASSUME NEW t \in 0..i-1 PROVE TransAt(t) \in Enabled(base, sels)
  <2> DEFINE e == <<"always", TransAt(t)>>
  <2>1. e \in base /\ e[1] \in sels \cup {"always"} /\ e[2] = TransAt(t)
    BY DEF BaseInv
  <2> HIDE DEF e
  <2> QED BY <2>1 DEF Enabled
<1>5. m[0] \in sys.init
  BY <1>2, <1>3, SatisfiesAt
<1>6. \A t \in 0..i-1 : <<m[t], m[t+1]>> \in sys.trans
  BY <1>2, <1>4, SatisfiesTrans
<1> QED BY <1>1, <1>2, <1>5, <1>6 DEF IsRun

LEMMA FinalModelIsCex ==
  ASSUME TypeInv, BaseInv, NEW m \in FinalAnswers
  PROVE  ~Safe(sys)
<1>0. sys \in SystemType /\ i \in Nat
  BY DEF TypeInv
<1>1. CASE opt.know_total /\ RightTotal(sys)
  <2>1. m \in Answers(base, {"init"}, {Sometime(sys.bad, 0..i)})
    BY <1>1 DEF FinalAnswers
  <2>2. IsRun(sys, m, i) /\ \E t \in 0..i : m[t] \in sys.bad
    BY <1>0, <2>1, ModelIsRun, SatisfiesSometime
  <2>3. PICK t \in 0..i : m[t] \in sys.bad
    BY <2>2
  <2>4. m[t] \in Reachable(sys)
    BY <1>0, <2>2, RunIsWalk, WalkStaysReachable
  <2> QED BY <2>3, <2>4 DEF Safe
<1>2. CASE ~(opt.know_total /\ RightTotal(sys))
  <2>1. PICK d \in 0..i :
          m \in Models(sys, {At(sys.init, 0), At(sys.bad, d)} \cup {TransAt(t) : t \in 0..d-1}, i)
    BY <1>2 DEF FinalAnswers
  <2>2. /\ m \in [0..i -> State] /\ m[0] \in sys.init /\ m[d] \in sys.bad
        /\ \A t \in 0..d-1 : <<m[t], m[t+1]>> \in sys.trans
    BY <2>1, SatisfiesAt, SatisfiesTrans DEF Models
  <2> DEFINE p == [t \in 0..d |-> m[t]]
  <2>3. p \in [0..d -> State] /\ p[0] = m[0] /\ p[d] = m[d]
    <3>1. d \in Nat /\ 0 \in 0..d /\ d \in 0..d /\ \A t \in 0..d : t \in 0..i
      BY <1>0
    <3> QED BY <2>2, <3>1
  <2>4. \A t \in 0..d-1 : p[t] = m[t] /\ p[t+1] = m[t+1]
    OBVIOUS
  <2>5. IsCex(sys, p, d) /\ d \in Nat
    BY <2>2, <2>3, <2>4 DEF IsCex, IsRun
  <2> QED BY <1>0, <2>5, CexIsUnsafe
<1> QED BY <1>1, <1>2

\* Without a model of the final query no bound up to i has a counterexample.
\* An execution that ends in a bad state before i goes on up to i.
LEMMA FinalExcludes ==
  ASSUME TypeInv, BaseInv, Trusted, opt.one_time, FinalAnswers = {},
         \A e \in base : IsAssertion(e, i), NEW d \in 0..i
  PROVE  ~HasCex(sys, d)
<1> SUFFICES ASSUME NEW p, IsCex(sys, p, d) PROVE FALSE
  BY DEF HasCex
<1>0. sys \in SystemType /\ i \in Nat /\ d \in Nat
  BY DEF TypeInv
<1>p. /\ p \in [0..d -> State] /\ p[0] \in sys.init /\ p[d] \in sys.bad
      /\ \A t \in 0..d-1 : <<p[t], p[t+1]>> \in sys.trans
  BY DEF IsCex, IsRun
<1>1. CASE opt.know_total /\ RightTotal(sys)
  <2>1. Total(sys)
    BY <1>1 DEF Trusted
  <2>2. PICK q : IsRun(sys, q, i) /\ \A t \in 0..d : q[t] = p[t]
    BY <1>0, <2>1, RunExtends DEF IsCex
  <2>6. \A t \in 0..i-1 : <<q[t], q[t+1]>> \in sys.trans
    BY <2>2 DEF IsRun
  <2>7. q \in [0..i -> State] /\ q[0] \in sys.init /\ q[d] \in sys.bad /\ d \in 0..i
    BY <1>0, <1>p, <2>2 DEF IsRun
  <2>8. \A f \in Enabled(base, {"init"}) : Satisfies(sys, q, f)
    <3> SUFFICES ASSUME NEW e \in base, e[1] \in {"init", "always"}
                 PROVE  Satisfies(sys, q, e[2])
      BY DEF Enabled
    <3>1. CASE e = <<"init", At(sys.init, 0)>>
      BY <2>7, <3>1, SatisfiesAt
    <3>2. ASSUME NEW t \in 0..i-1, e = <<"always", TransAt(t)>>
          PROVE  Satisfies(sys, q, e[2])
      BY <2>6, <3>2, SatisfiesTrans
    <3>3. \/ e = <<"init", At(sys.init, 0)>>
          \/ \E t \in 0..i-1 : e = <<"always", TransAt(t)>>
      BY DEF IsAssertion, SimplePath
    <3> QED BY <3>1, <3>2, <3>3
  <2>9. Satisfies(sys, q, Sometime(sys.bad, 0..i))
    BY <2>7, SatisfiesSometime
  <2>10. q \in Answers(base, {"init"}, {Sometime(sys.bad, 0..i)})
    BY <2>7, <2>8, <2>9 DEF Answers, Models
  <2> QED BY <1>1, <2>10 DEF FinalAnswers
<1>2. CASE ~(opt.know_total /\ RightTotal(sys))
  <2> DEFINE q == [t \in 0..i |-> IF t <= d THEN p[t] ELSE p[d]]
             C == {At(sys.init, 0), At(sys.bad, d)} \cup {TransAt(t) : t \in 0..d-1}
  <2>1. q \in [0..i -> State] /\ \A t \in 0..d : q[t] = p[t]
    BY <1>0, <1>p
  <2> HIDE DEF q
  <2>2. ASSUME NEW t \in 0..d-1 PROVE Satisfies(sys, q, TransAt(t))
    <3>1. t \in 0..d /\ t+1 \in 0..d
      OBVIOUS
    <3> QED BY <1>p, <2>1, <3>1, SatisfiesTrans
  <2>3. Satisfies(sys, q, At(sys.init, 0)) /\ Satisfies(sys, q, At(sys.bad, d))
    BY <1>0, <1>p, <2>1, SatisfiesAt
  <2>4. \A f \in C : Satisfies(sys, q, f)
    BY <2>2, <2>3
  <2>5. q \in Models(sys, C, i)
    BY <2>1, <2>4 DEF Models
  <2> QED BY <1>2, <2>5 DEF FinalAnswers
<1> QED BY <1>1, <1>2

----------------------------------------------------------------------------
(* The invariant.                                                          *)

LEMMA LaterBound ==
  ASSUME NEW n \in Nat, NEW k \in Nat, n <= k, NEW e, IsAssertion(e, n)
  PROVE  IsAssertion(e, k)
<1>1. 0..n-1 \subseteq 0..k-1 /\ 1..n \subseteq 1..k /\ 0..n \subseteq 0..k
  OBVIOUS
<1> QED BY <1>1, Zenon DEF IsAssertion

\* What no action changes.
LEMMA SetupKept ==
  ASSUME UNCHANGED setup
  PROVE  /\ Trusted' <=> Trusted
         /\ Comparing' <=> Comparing
         /\ Safe(sys)' <=> Safe(sys)
         /\ \A e, n : IsAssertion(e, n)' <=> IsAssertion(e, n)
         /\ \A k : ShorterThan(k)' <=> ShorterThan(k)
  BY DEF setup, Trusted, Comparing, IsAssertion, ShorterThan, SimplePath, Compared, NotInit, Good

\* An inductive check has no model: the answer is TRUE, unless the base cases
\* are still to be checked.
LEMMA ProvedKeeps ==
  ASSUME KInductionInv, UNCHANGED <<setup, i, reached, witness>>,
         pc \in {"simple", "initial", "property"}, Proved,
         base \subseteq base', \A e \in base' : IsAssertion(e, i),
         Trusted => ShorterThan(i)
  PROVE  KInductionInv'
<1> USE DEF KInductionInv
<1>0. UNCHANGED setup
  OBVIOUS
<1>1. TypeInv'
  BY DEF TypeInv, Proved, setup
<1>2. BaseInv'
  BY <1>0, SetupKept DEF BaseInv, setup
<1>3. EagerInv'
  BY <1>0, SetupKept DEF EagerInv, Proved, SimplePath, Compared, setup
<1>4. LazyInv'
  BY DEF LazyInv, Proved
<1>5. ProgressInv'
  BY <1>0, SetupKept DEF ProgressInv, Proved, setup
<1>6. AnswerIsRight'
  <2>1. CASE opt.one_time
    BY <1>0, <2>1, SetupKept DEF AnswerIsRight, Proved
  <2>2. CASE ~opt.one_time
    <3>1. ASSUME Trusted PROVE Safe(sys)
      <4>1. 0..i-1 = 0..reached
        BY <2>2 DEF TypeInv
      <4>2. \A d \in 0..i-1 : ~HasCex(sys, d)
        BY <2>2, <3>1, <4>1 DEF ProgressInv
      <4> QED BY <3>1, <4>2, NoCexIsSafe DEF TypeInv
    <3> QED BY <1>0, <2>2, <3>1, SetupKept DEF AnswerIsRight, Proved
  <2> QED BY <2>1, <2>2
<1> QED BY <1>1, <1>2, <1>3, <1>4, <1>5, <1>6

\* A model is reported.
LEMMA RefutedKeeps ==
  ASSUME KInductionInv, UNCHANGED <<setup, i, base, reached>>, pc # "loop",
         NEW m, Refuted(m), ~Safe(sys)
  PROVE  KInductionInv'
<1> USE DEF KInductionInv
<1>0. UNCHANGED setup /\ pc' = "done" /\ verdict' = "FALSE"
  BY DEF Refuted
<1>1. TypeInv'
  BY <1>0 DEF TypeInv, setup
<1>2. BaseInv'
  BY <1>0, SetupKept DEF BaseInv, setup
<1>3. EagerInv'
  BY <1>0, SetupKept DEF EagerInv, SimplePath, Compared, setup
<1>4. LazyInv'
  BY <1>0 DEF LazyInv
<1>5. ProgressInv'
  BY <1>0, SetupKept DEF ProgressInv, setup
<1>6. AnswerIsRight'
  BY <1>0, SetupKept DEF AnswerIsRight
<1> QED BY <1>1, <1>2, <1>3, <1>4, <1>5, <1>6

\* The next check of the same bound.
LEMMA PassKeeps ==
  ASSUME KInductionInv, UNCHANGED <<setup, i, reached, verdict, witness>>,
         pc \notin {"done", "final"}, 
         pc' \in {"simple", "initial", "property", "base"},
         base \subseteq base', \A e \in base' : IsAssertion(e, i),
         EagerInv', LazyInv'
  PROVE  KInductionInv'
<1> USE DEF KInductionInv
<1>0. UNCHANGED setup
  OBVIOUS
<1>1. TypeInv'
  BY DEF TypeInv, setup
<1>2. BaseInv'
  BY <1>0, SetupKept DEF BaseInv, setup
<1>3. ProgressInv'
  BY <1>0, SetupKept DEF ProgressInv, setup
<1>4. AnswerIsRight'
  BY <1>0, SetupKept DEF AnswerIsRight, TypeInv
<1> QED BY <1>1, <1>2, <1>3, <1>4

LEMMA InitInv == Init => KInductionInv
<1> SUFFICES ASSUME Init PROVE KInductionInv
  OBVIOUS
<1>1. TypeInv
  BY SystemsAssumption, OptionsAssumption DEF Init, TypeInv
<1>2. BaseInv
  BY DEF Init, BaseInv, Guarded, IsAssertion
<1>3. EagerInv
  BY DEF Init, EagerInv
<1>4. LazyInv /\ ProgressInv /\ AnswerIsRight
  BY DEF Init, LazyInv, ProgressInv, AnswerIsRight
<1> QED BY <1>1, <1>2, <1>3, <1>4 DEF KInductionInv

----------------------------------------------------------------------------
(* The steps.                                                              *)

LEMMA FirstPairIsPair ==
  ASSUME NEW k \in Nat, NEW P \in SUBSET ((0..k) \X (0..k)), P # {}
  PROVE  FirstPair(P) \in P
<1> DEFINE L == {p[1] : p \in P}
<1>1. L \in SUBSET Nat /\ L # {}
  OBVIOUS
<1>2. PICK a \in L : \A x \in L : a <= x
  BY <1>1, LeastNat
<1> DEFINE R == {p[2] : p \in {q \in P : q[1] = a}}
<1>3. R \in SUBSET Nat /\ R # {}
  BY <1>2
<1>4. PICK b \in R : \A x \in R : b <= x
  BY <1>3, LeastNat
<1>5. <<a, b>> \in P
  BY <1>4
<1>6. \A q \in P : a < q[1] \/ (a = q[1] /\ b <= q[2])
  <2> SUFFICES ASSUME NEW q \in P PROVE a < q[1] \/ (a = q[1] /\ b <= q[2])
    OBVIOUS
  <2>1. q[1] \in L /\ q[1] \in Nat /\ a \in Nat /\ a <= q[1]
    BY <1>1, <1>2
  <2>2. a = q[1] => q[2] \in R
    OBVIOUS
  <2> QED BY <1>4, <2>1, <2>2
<1>7. \E p \in P : \A q \in P : p[1] < q[1] \/ (p[1] = q[1] /\ p[2] <= q[2])
  BY <1>5, <1>6
<1> QED BY <1>7 DEF FirstPair

LEMMA GiveUpKeeps ==
  ASSUME KInductionInv, GiveUp
  PROVE  KInductionInv'
<1> USE DEF KInductionInv, GiveUp
<1>0. UNCHANGED setup
  OBVIOUS
<1>1. TypeInv'
  BY DEF TypeInv, setup
<1>2. BaseInv'
  BY <1>0, SetupKept DEF BaseInv, setup
<1>3. EagerInv'
  BY DEF EagerInv
<1>4. LazyInv' /\ AnswerIsRight'
  BY DEF LazyInv, AnswerIsRight
<1>5. ProgressInv'
  BY <1>0, SetupKept DEF ProgressInv, setup
<1> QED BY <1>1, <1>2, <1>3, <1>4, <1>5

LEMMA EnterKeeps ==
  ASSUME KInductionInv, Enter
  PROVE  KInductionInv'
<1> USE DEF KInductionInv, Enter
<1>0. UNCHANGED setup /\ i \in Nat
  BY DEF TypeInv
<1>1. base \subseteq base' /\ \A e \in base' : IsAssertion(e, i)
  <2>1. \A j \in 0..i-1 : IsAssertion(SimplePath(<<j, i>>), i)
    <3> SUFFICES ASSUME NEW j \in 0..i-1
                 PROVE  \E a \in 0..i, b \in 0..i :
                          a < b /\ SimplePath(<<j, i>>) = SimplePath(<<a, b>>)
      BY DEF IsAssertion
    <3>1. j \in 0..i /\ i \in 0..i /\ j < i
      BY <1>0
    <3> QED BY <3>1
  <2> QED BY <2>1 DEF BaseInv
<1>2. EagerInv'
  <2> SUFFICES ASSUME opt.eager, Comparing,
                      NEW a \in 0..i, NEW b \in 0..i, a < b
               PROVE  SimplePath(<<a, b>>) \in base'
    BY <1>0, SetupKept DEF EagerInv, SimplePath, Compared, setup
  <2>1. CASE b < i
    BY <1>1, <2>1 DEF EagerInv
  <2>2. CASE b = i
    <3>1. a \in 0..i-1
      BY <1>0, <2>2
    <3> QED BY <2>2, <3>1 DEF Comparing
  <2> QED BY <1>0, <2>1, <2>2
<1>3. LazyInv'
  BY <1>0, SetupKept DEF LazyInv, Comparing
<1>4. pc' \in {"simple", "initial"} /\ pc = "loop"
  OBVIOUS
<1> HIDE DEF KInductionInv
<1> QED BY <1>0, <1>1, <1>2, <1>3, <1>4, PassKeeps

LEMMA SimpleUnsatKeeps ==
  ASSUME KInductionInv, SimpleUnsat
  PROVE  KInductionInv'
<1>1. ASSUME Trusted PROVE ShorterThan(i)
  BY <1>1, FirstStepsExcluded DEF KInductionInv, TypeInv, BaseInv, Trusted, SimpleUnsat
<1>2. \A e \in base : IsAssertion(e, i)
  BY DEF KInductionInv, BaseInv
<1> QED BY <1>1, <1>2, ProvedKeeps DEF SimpleUnsat

LEMMA SimpleRefineKeeps ==
  ASSUME KInductionInv, SimpleRefine
  PROVE  KInductionInv'
<1> USE DEF SimpleRefine
<1>0. UNCHANGED setup /\ i \in Nat
  BY DEF KInductionInv, TypeInv
<1>1. PICK m : /\ CyclicPairs(m) # {}
               /\ base' = base \cup IF opt.no_multi
                                    THEN {SimplePath(ab) : ab \in CyclicPairs(m)}
                                    ELSE {SimplePath(FirstPair(CyclicPairs(m)))}
  OBVIOUS
<1>2. \A ab \in CyclicPairs(m) : IsAssertion(SimplePath(ab), i)
  <2> SUFFICES ASSUME NEW ab \in CyclicPairs(m)
               PROVE  \E a \in 0..i, b \in 0..i : a < b /\ SimplePath(ab) = SimplePath(<<a, b>>)
    BY DEF IsAssertion
  <2>1. ab[1] \in 0..i /\ ab[2] \in 0..i /\ ab[1] < ab[2] /\ ab = <<ab[1], ab[2]>>
    BY DEF CyclicPairs
  <2> QED BY <2>1
<1>3. FirstPair(CyclicPairs(m)) \in CyclicPairs(m)
  <2>1. CyclicPairs(m) \in SUBSET ((0..i) \X (0..i))
    BY DEF CyclicPairs
  <2> QED BY <1>0, <1>1, <2>1, FirstPairIsPair
<1>4. base \subseteq base' /\ \A e \in base' : IsAssertion(e, i)
  BY <1>1, <1>2, <1>3 DEF KInductionInv, BaseInv
<1>5. EagerInv' /\ LazyInv'
  BY DEF EagerInv, LazyInv, setup
<1> QED BY <1>4, <1>5, PassKeeps

LEMMA SimplePassKeeps ==
  ASSUME KInductionInv, SimplePass
  PROVE  KInductionInv'
<1> USE DEF SimplePass
<1>0. UNCHANGED <<setup, i, base>>
  OBVIOUS
<1>1. EagerInv'
  BY <1>0, SetupKept DEF KInductionInv, EagerInv, SimplePath, Compared, setup
<1>2. ASSUME NEW m \in Answers(base, AnyState, {}), opt.eager, Comparing
      PROVE  CyclicPairs(m) = {}
  <2> SUFFICES ASSUME NEW a \in 0..i, NEW b \in 0..i, a < b,
                      Agree(Compared(a, b), m[a], m[b])
               PROVE  FALSE
    <3>1. \A ab \in CyclicPairs(m) :
            /\ ab[1] \in 0..i /\ ab[2] \in 0..i /\ ab[1] < ab[2]
            /\ Agree(Compared(ab[1], ab[2]), m[ab[1]], m[ab[2]])
      BY DEF CyclicPairs
    <3> QED BY <3>1
  <2>1. SimplePath(<<a, b>>) \in base
    BY <1>2 DEF KInductionInv, EagerInv
  <2>2. Differ(Compared(a, b), a, b) \in Enabled(base, AnyState)
    <3> DEFINE e == SimplePath(<<a, b>>)
    <3>1. e[1] \in AnyState \cup {"always"} /\ e[2] = Differ(Compared(a, b), a, b)
      BY DEF SimplePath, AnyState
    <3> HIDE DEF e
    <3>2. e \in base
      BY <2>1 DEF e
    <3> QED BY <3>1, <3>2 DEF Enabled
  <2>3. \E v \in Compared(a, b) : m[a][v] # m[b][v]
    <3>1. \A f \in Enabled(base, AnyState) : Satisfies(sys, m, f)
      BY DEF Answers, Models
    <3>2. Satisfies(sys, m, Differ(Compared(a, b), a, b))
      BY <2>2, <3>1
    <3> HIDE DEF SimplePass
    <3> QED BY <3>2, SatisfiesDiffer
  <2> QED BY <2>3 DEF Agree
<1>3. Comparing /\ "simple" \notin solver => SimpleModel
  BY <1>2 DEF SimpleModel, Unknown
<1>4. LazyInv'
  BY <1>0, <1>3 DEF LazyInv, SimpleModel, Comparing, Answers, CyclicPairs, Compared, setup
<1> QED BY <1>0, <1>1, <1>4, PassKeeps DEF KInductionInv, BaseInv

LEMMA NeverBackIsBase ==
  ASSUME KInductionInv, ChecksInit
  PROVE  \A e \in NeverBack : IsAssertion(e, i)
<1>1. reached \in Nat /\ i \in Nat
  BY DEF KInductionInv, TypeInv, ChecksInit
<1>2. \A j \in reached+1..i : IsAssertion(<<"neg_init", At(NotInit, j)>>, i)
  <2>1. \A j \in reached+1..i : j \in 1..i
    BY <1>1
  <2> QED BY <2>1 DEF IsAssertion
<1>3. \A f \in {At(NotInit, j) : j \in reached+1..i} : IsAssertion(<<"neg_init", f>>, i)
  BY <1>2
<1> QED BY <1>3 DEF NeverBack, Guarded, KInductionInv, BaseInv, NotInit

LEMMA InitialUnsatKeeps ==
  ASSUME KInductionInv, InitialUnsat
  PROVE  KInductionInv'
<1>1. \A e \in NeverBack : IsAssertion(e, i)
  BY NeverBackIsBase DEF InitialUnsat
<1>2. ASSUME Trusted PROVE ShorterThan(i)
  BY <1>1, <1>2, FirstStepsExcluded DEF KInductionInv, TypeInv, Trusted, InitialUnsat
<1>3. base \subseteq NeverBack
  BY DEF NeverBack
<1> QED BY <1>1, <1>2, <1>3, ProvedKeeps DEF InitialUnsat

LEMMA InitialPassKeeps ==
  ASSUME KInductionInv, InitialPass
  PROVE  KInductionInv'
<1> USE DEF InitialPass
<1>0. UNCHANGED <<setup, i, reached, verdict, witness>> /\ pc = "initial" /\ pc' = "property"
  OBVIOUS
<1>1. base' = base \/ (ChecksInit /\ base' = NeverBack)
  OBVIOUS
<1> HIDE DEF InitialPass
<1>2. base \subseteq base' /\ \A e \in base' : IsAssertion(e, i)
  BY <1>1, NeverBackIsBase DEF NeverBack, KInductionInv, BaseInv
<1>3. EagerInv'
  BY <1>0, <1>2, SetupKept DEF KInductionInv, EagerInv, SimplePath, Compared, setup
<1>4. LazyInv'
  BY <1>0 DEF LazyInv
<1> QED BY <1>0, <1>2, <1>3, <1>4, PassKeeps

LEMMA PropertyUnsatKeeps ==
  ASSUME KInductionInv, PropertyUnsat
  PROVE  KInductionInv'
<1>1. ASSUME Trusted PROVE ShorterThan(i)
  BY <1>1, LastStepsExcluded DEF KInductionInv, TypeInv, BaseInv, Trusted, PropertyUnsat
<1>2. \A e \in base : IsAssertion(e, i)
  BY DEF KInductionInv, BaseInv
<1> QED BY <1>1, <1>2, ProvedKeeps DEF PropertyUnsat

LEMMA PropertyPassKeeps ==
  ASSUME KInductionInv, PropertyPass
  PROVE  KInductionInv'
<1>0. UNCHANGED <<setup, i, base, reached, verdict, witness>> /\ pc = "property" /\ pc' = "base"
  BY DEF PropertyPass
<1>1. EagerInv'
  BY <1>0, SetupKept DEF KInductionInv, EagerInv, SimplePath, Compared, setup
<1>2. LazyInv'
  BY <1>0 DEF LazyInv
<1>3. \A e \in base : IsAssertion(e, i)
  BY DEF KInductionInv, BaseInv
<1> QED BY <1>0, <1>1, <1>2, <1>3, PassKeeps

\* The model of the base query is a counterexample of i steps.
LEMMA BaseModelIsCex ==
  ASSUME KInductionInv, NEW m \in Answers(base, FromInit, BadNow)
  PROVE  IsCex(sys, m, i)
<1>1. i \in Nat /\ "init" \in FromInit /\ BaseInv
  BY DEF KInductionInv, TypeInv, FromInit
<1>2. IsRun(sys, m, i) /\ \A f \in BadNow : Satisfies(sys, m, f)
  BY <1>1, ModelIsRun
<1> QED BY <1>2, SatisfiesAt DEF BadNow, IsCex

LEMMA BaseSatKeeps ==
  ASSUME KInductionInv, BaseSat
  PROVE  KInductionInv'
<1>1. PICK m \in Answers(base, FromInit, BadNow) : Refuted(m)
  BY DEF BaseSat
<1>2. ~Safe(sys)
  BY <1>1, BaseModelIsCex, CexIsUnsafe DEF KInductionInv, TypeInv
<1> QED BY <1>1, <1>2, RefutedKeeps DEF BaseSat

\* Without a model of the base query there is no counterexample of i steps.
LEMMA BaseExcludes ==
  ASSUME KInductionInv, Trusted, ~opt.one_time, Answers(base, FromInit, BadNow) = {}
  PROVE  \A d \in 0..i : ~HasCex(sys, d)
<1>0. i \in Nat /\ sys \in SystemType /\ \A d \in 0..i-1 : ~HasCex(sys, d)
  <2>1. 0..i-1 = 0..reached
    BY DEF KInductionInv, TypeInv
  <2> QED BY <2>1 DEF KInductionInv, TypeInv, ProgressInv
<1>1. ASSUME HasCex(sys, i) PROVE FALSE
  <2>1. PICK p : IsCex(sys, p, i)
    BY <1>1 DEF HasCex
  <2>2. \A m \in Nat : HasCex(sys, m) => i <= m
    BY <1>0
  <2>3. IsShortest(sys, p, i)
    BY <2>1, <2>2 DEF IsShortest
  <2>4. 0 + i <= i /\ 0 \in Nat /\ i \in 0..i
    BY <1>0
  <2>5. Piece(p, 0, i)[i] \in sys.bad
    BY <2>1, <2>4 DEF Piece, IsCex
  <2>6. \A f \in BadNow : Satisfies(sys, Piece(p, 0, i), f)
    BY <2>5, SatisfiesAt DEF BadNow
  <2>7. Piece(p, 0, i) \in Answers(base, FromInit, BadNow)
    BY <1>0, <2>3, <2>4, <2>6, PieceIsModel DEF KInductionInv, BaseInv, Trusted
  <2> QED BY <2>7
<1> QED BY <1>0, <1>1

LEMMA Ranges ==
  ASSUME NEW a \in Nat, NEW b \in Nat, a <= b
  PROVE  /\ \A t \in a..b-1 : t \in 0..b-1
         /\ \A t \in 0..b-1 : t \in 0..a-1 \/ t \in a..b-1
  OBVIOUS

LEMMA AdvanceKeeps ==
  ASSUME KInductionInv, Advance
  PROVE  KInductionInv'
<1> DEFINE new == i..i+opt.step-1
<1>0. /\ UNCHANGED setup /\ UNCHANGED verdict
      /\ pc = "base" /\ pc' = "loop"
      /\ reached' = i /\ i' = i + opt.step
      /\ base' = base \cup Permanent({TransAt(j) : j \in new})
                      \cup Guarded("neg_bad", {At(Good, j) : j \in new})
  BY DEF Advance, Good
<1>t. i \in Nat /\ opt.step \in Nat \ {0} /\ i' \in Nat /\ i <= i' /\ i' # 0
      /\ new = i..i'-1
  BY <1>0 DEF KInductionInv, TypeInv, OptionType
<1> HIDE DEF new
<1>1. TypeInv'
  BY <1>0, <1>t DEF KInductionInv, TypeInv, setup
<1>2. BaseInv'
  <2>1. \A e \in base : IsAssertion(e, i')
    BY <1>t, LaterBound DEF KInductionInv, BaseInv
  <2>2. \A t \in new : /\ IsAssertion(<<"always", TransAt(t)>>, i')
                       /\ IsAssertion(<<"neg_bad", At(Good, t)>>, i')
    <3>1. \A t \in new : t \in 0..i'-1
      BY <1>t, Ranges
    <3> QED BY <3>1 DEF IsAssertion
  <2>3. \A e \in base' : e \in base \/ \E t \in new : \/ e = <<"always", TransAt(t)>>
                                                     \/ e = <<"neg_bad", At(Good, t)>>
    BY <1>0 DEF Permanent, Guarded
  <2>4. \A e \in base' : IsAssertion(e, i')
    BY <2>1, <2>2, <2>3
  <2>5. \A t \in 0..i'-1 : <<"always", TransAt(t)>> \in base'
    <3>1. \A t \in 0..i'-1 : t \in 0..i-1 \/ t \in new
      BY <1>t, Ranges
    <3> QED BY <1>0, <3>1 DEF KInductionInv, BaseInv, Permanent
  <2> QED BY <1>0, <2>4, <2>5, SetupKept DEF KInductionInv, BaseInv, setup
<1>3. EagerInv'
  <2> SUFFICES ASSUME opt.eager, Comparing, NEW a \in 0..i', NEW b \in 0..i', a < b, b < i'
               PROVE  SimplePath(<<a, b>>) \in base'
    BY <1>0, SetupKept DEF EagerInv, SimplePath, Compared, setup
  <2>1. i' = i + 1
    BY <1>0 DEF KInductionInv, TypeInv
  <2>2. a \in 0..i /\ b \in 0..i
    BY <1>t, <2>1
  <2> QED BY <1>0, <2>2 DEF KInductionInv, EagerInv
<1>4. LazyInv'
  BY <1>0 DEF LazyInv
<1>5. ProgressInv'
  <2>1. ASSUME ~opt.one_time, Trusted PROVE \A d \in 0..i : ~HasCex(sys, d)
    BY <2>1, BaseExcludes DEF Advance, Unknown, Trusted
  <2> QED BY <1>0, <2>1, SetupKept DEF ProgressInv, setup
<1>6. AnswerIsRight'
  BY <1>0, SetupKept DEF KInductionInv, AnswerIsRight
<1> QED BY <1>1, <1>2, <1>3, <1>4, <1>5, <1>6 DEF KInductionInv

LEMMA FinalSatKeeps ==
  ASSUME KInductionInv, FinalSat
  PROVE  KInductionInv'
<1>1. PICK m \in FinalAnswers : Refuted(m)
  BY DEF FinalSat
<1>2. ~Safe(sys)
  BY <1>1, FinalModelIsCex DEF KInductionInv
<1> QED BY <1>1, <1>2, RefutedKeeps DEF FinalSat

LEMMA FinalUnsatKeeps ==
  ASSUME KInductionInv, FinalUnsat
  PROVE  KInductionInv'
<1>0. UNCHANGED <<setup, i, base, reached, witness>> /\ UNCHANGED setup
      /\ pc = "final" /\ pc' = "done" /\ verdict' = "TRUE" /\ FinalAnswers = {}
  BY DEF FinalUnsat
<1>1. ASSUME Trusted PROVE Safe(sys)
  <2>1. opt.one_time /\ ShorterThan(i) /\ i \in Nat /\ sys \in SystemType
    BY <1>0, <1>1 DEF KInductionInv, ProgressInv, TypeInv
  <2>2. \A d \in 0..i : ~HasCex(sys, d)
    BY <1>0, <1>1, <2>1, FinalExcludes DEF KInductionInv, BaseInv
  <2> QED BY <2>1, <2>2, NoCexIsSafe
<1>2. TypeInv'
  BY <1>0 DEF KInductionInv, TypeInv, setup
<1>3. BaseInv'
  BY <1>0, SetupKept DEF KInductionInv, BaseInv, setup
<1>4. EagerInv' /\ LazyInv'
  BY <1>0 DEF EagerInv, LazyInv
<1>5. ProgressInv'
  BY <1>0, SetupKept DEF KInductionInv, ProgressInv, setup
<1>6. AnswerIsRight'
  BY <1>0, <1>1, SetupKept DEF AnswerIsRight
<1> QED BY <1>2, <1>3, <1>4, <1>5, <1>6 DEF KInductionInv

LEMMA FinalUnknownKeeps ==
  ASSUME KInductionInv, FinalUnknown
  PROVE  KInductionInv'
<1>0. UNCHANGED <<setup, i, base, reached, witness>> /\ UNCHANGED setup
      /\ pc = "final" /\ pc' = "done" /\ verdict' = "EXCEPTION"
  BY DEF FinalUnknown
<1>1. TypeInv'
  BY <1>0 DEF KInductionInv, TypeInv, setup
<1>2. BaseInv'
  BY <1>0, SetupKept DEF KInductionInv, BaseInv, setup
<1>3. EagerInv' /\ LazyInv' /\ AnswerIsRight'
  BY <1>0 DEF EagerInv, LazyInv, AnswerIsRight
<1>4. ProgressInv'
  BY <1>0, SetupKept DEF KInductionInv, ProgressInv, setup
<1> QED BY <1>1, <1>2, <1>3, <1>4 DEF KInductionInv

LEMMA StutterKeeps ==
  ASSUME KInductionInv, UNCHANGED vars
  PROVE  KInductionInv'
<1>0. UNCHANGED <<setup, pc, i, base, reached, verdict, witness>> /\ UNCHANGED setup
  BY DEF vars
<1>1. TypeInv' /\ BaseInv' /\ EagerInv'
  BY <1>0, SetupKept DEF KInductionInv, TypeInv, BaseInv, EagerInv, SimplePath, Compared, setup
<1>2. LazyInv'
  BY <1>0 DEF KInductionInv, LazyInv, SimpleModel, Comparing, Answers, CyclicPairs, Compared, setup
<1>3. ProgressInv' /\ AnswerIsRight'
  BY <1>0, SetupKept DEF KInductionInv, ProgressInv, AnswerIsRight, setup
<1> QED BY <1>1, <1>2, <1>3 DEF KInductionInv

----------------------------------------------------------------------------
(* Where check_until stands, the pairs its solver holds, the bounds passed *)
(* so far and the answer agree after every step.                           *)
THEOREM KInductionInvariant == Spec => []KInductionInv
<1>1. KInductionInv /\ [Next]_vars => KInductionInv'
  BY GiveUpKeeps, EnterKeeps, SimpleUnsatKeeps, SimpleRefineKeeps,
     SimplePassKeeps, InitialUnsatKeeps, InitialPassKeeps, PropertyUnsatKeeps,
     PropertyPassKeeps, BaseSatKeeps, AdvanceKeeps, FinalSatKeeps,
     FinalUnsatKeeps, FinalUnknownKeeps, StutterKeeps DEF Next
<1> QED BY <1>1, InitInv, PTL DEF Spec

(* AnswerIsRight for every system and every setting: what check_until      *)
(* returns is true of the system, whichever query decided it.              *)
THEOREM AnswerTheorem == Spec => []AnswerIsRight
<1>1. KInductionInv => AnswerIsRight
  BY DEF KInductionInv
<1> QED BY <1>1, KInductionInvariant, PTL

(* LazyIsEager for every system and every setting: what the loop of        *)
(* check_simple_path_lazy lets pass satisfies all constraints at once.     *)
THEOREM LazyTheorem == Spec => []LazyIsEager
<1>1. ASSUME KInductionInv, pc = "initial", Comparing, "simple" \notin solver
      PROVE  Answers(base, AnyState,
                {SimplePath(ab)[2] : ab \in {x \in (0..i) \X (0..i) : x[1] < x[2]}}) # {}
  <2>1. PICK m \in Answers(base, AnyState, {}) : CyclicPairs(m) = {}
    BY <1>1 DEF KInductionInv, LazyInv, SimpleModel
  <2>2. ASSUME NEW ab \in (0..i) \X (0..i), ab[1] < ab[2]
        PROVE  Satisfies(sys, m, SimplePath(ab)[2])
    <3>1. ~Agree(Compared(ab[1], ab[2]), m[ab[1]], m[ab[2]])
      BY <2>1, <2>2 DEF CyclicPairs
    <3>2. SimplePath(ab)[2] = Differ(Compared(ab[1], ab[2]), ab[1], ab[2])
      BY DEF SimplePath
    <3> QED BY <3>1, <3>2, SatisfiesDiffer DEF Agree
  <2> QED BY <2>1, <2>2 DEF Answers, Models
<1>2. KInductionInv => LazyIsEager
  BY <1>1 DEF LazyIsEager, Comparing
<1> QED BY <1>2, KInductionInvariant, PTL

LEMMA ContractWords ==
  /\ \A sy, p, k : Contract!IsCex(sy, p, k) <=> IsCex(sy, p, k)
  /\ \A sy, k : Contract!HasCex(sy, k) <=> HasCex(sy, k)
  /\ \A sy : Contract!Safe(sy) <=> Safe(sy)
<1>1. \A sy, p, k : Contract!IsCex(sy, p, k) <=> IsCex(sy, p, k)
  BY DEF Contract!IsCex, IsCex, Contract!IsRun, IsRun, Contract!State, State
<1>2. \A sy, k : Contract!HasCex(sy, k) <=> HasCex(sy, k)
  BY DEF Contract!HasCex, HasCex, Contract!IsCex, IsCex, Contract!IsRun, IsRun,
         Contract!State, State
<1>3. \A sy : Contract!Safe(sy) <=> Safe(sy)
  BY DEF Contract!Safe, Safe, Contract!Reachable, Reachable, Contract!Closed, Closed,
         Contract!State, State
<1> QED BY <1>1, <1>2, <1>3

(* KeepsContract for every system and every setting with a base check at   *)
(* every bound: each step is one that ProverContract allows.               *)
THEOREM ContractTheorem == Spec => KeepsContract
<1> DEFINE Step == ~opt.one_time /\ Trusted => Contract!Next
<1>1. ASSUME KInductionInv, KInductionInv', [Next]_vars
      PROVE  [Step]_Contract!vars
  <2> SUFFICES ASSUME ~opt.one_time, Trusted, Next
               PROVE  Contract!Next \/ UNCHANGED Contract!vars
    BY <1>1 DEF vars, Contract!vars, setup
  <2>1. CASE GiveUp
    BY <1>1, <2>1 DEF GiveUp, setup, KInductionInv, TypeInv, Contract!Next, Contract!GiveUp
  <2>2. CASE Enter \/ SimpleRefine \/ SimplePass \/ InitialPass \/ PropertyPass
    BY <2>2 DEF Enter, SimpleRefine, SimplePass, InitialPass, PropertyPass, setup, Contract!vars
  <2>3. CASE SimpleUnsat \/ InitialUnsat \/ PropertyUnsat
    <3>1. /\ sys' = sys /\ reached' = reached /\ witness' = witness /\ Trusted'
          /\ verdict = "NONE" /\ verdict' = "TRUE"
      BY <1>1, <2>3, SetupKept
      DEF SimpleUnsat, InitialUnsat, PropertyUnsat, Proved, setup, KInductionInv, TypeInv
    <3>2. Safe(sys)
      BY <1>1, <3>1 DEF KInductionInv, AnswerIsRight
    <3> QED BY <3>1, <3>2, ContractWords DEF Contract!Next, Contract!Prove
  <2>4. CASE BaseSat
    <3>1. PICK m \in Answers(base, FromInit, BadNow) : Refuted(m)
      BY <2>4 DEF BaseSat
    <3>2. reached + 1 = i /\ i \in Nat /\ verdict = "NONE"
      BY <1>1, <2>4 DEF KInductionInv, TypeInv, BaseSat
    <3>3. IsCex(sys, m, i) /\ witness' = [t \in 0..i |-> m[t]]
      BY <1>1, <3>1, <3>2, BaseModelIsCex DEF Refuted
    <3>4. witness' = m
      BY <3>3 DEF IsCex, IsRun
    <3>5. Contract!IsCex(sys, witness', reached' + 1)
      BY <2>4, <3>2, <3>3, <3>4, ContractWords DEF BaseSat
    <3>6. verdict' = "FALSE" /\ sys' = sys /\ reached' = reached /\ reached \in Int
      BY <1>1, <2>4, <3>1 DEF BaseSat, Refuted, setup, KInductionInv, TypeInv
    <3>7. reached' >= reached
      BY <3>6
    <3> QED BY <3>2, <3>5, <3>6, <3>7 DEF Contract!Next, Contract!Refute
  <2>5. CASE Advance
    <3>1. \A d \in 0..i : ~Contract!HasCex(sys, d)
      BY <1>1, <2>5, ContractWords, BaseExcludes DEF Advance, Unknown, Trusted
    <3>2. reached' = i /\ reached' > reached /\ reached' \in Nat
          /\ \A d \in reached+1..reached' : d \in 0..i
      BY <1>1, <2>5 DEF Advance, KInductionInv, TypeInv
    <3> QED BY <1>1, <2>5, <3>1, <3>2
      DEF Advance, setup, KInductionInv, TypeInv, Contract!Next, Contract!Advance
  <2>6. CASE FinalSat \/ FinalUnsat \/ FinalUnknown
    BY <1>1, <2>6 DEF FinalSat, FinalUnsat, FinalUnknown, KInductionInv, ProgressInv
  <2> QED BY <2>1, <2>2, <2>3, <2>4, <2>5, <2>6 DEF Next
<1> QED BY <1>1, KInductionInvariant, PTL DEF Spec, KeepsContract
=============================================================================
