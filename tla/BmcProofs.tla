------------------------------ MODULE BmcProofs ------------------------------
(***************************************************************************)
(* Bounded model checking in intervals, for every set of systems, every    *)
(* setting of its options and any sequence of calls: what it asserts for   *)
(* good holds of the executions it still looks for, and what is left of an *)
(* interval always holds a bad state of some model.                        *)
(***************************************************************************)
EXTENDS Bmc, UnrollingProofs

Searching == pc \in {"binary", "less_inc", "linear"}

\* The permanent assertions on the way to depth n, with no bad state up to r.
IsAssertion(f, n, r) ==
  \/ f = At(sys.init, 0)
  \/ \E t \in 0..n-1 : f = TransAt(t)
  \/ opt.neg_init /\ \E t \in 1..n : f = At(NotInit, t)
  \/ \E t \in 0..r : f = At(good, t)

\* What is pushed.
Formula ==
  [kind : {"state"}, set : SUBSET State, time : Nat]
    \cup [kind : {"sometime"}, set : SUBSET State, times : SUBSET Nat]

Depth   == IF Searching THEN i ELSE reached
Settled == IF Searching THEN saved ELSE reached

TypeInv ==
  /\ sys \in SystemType
  /\ opt \in OptionType
  /\ call \in DOMAIN Calls
  /\ pc \in {"loop", "binary", "less_inc", "linear", "done"}
  /\ scopes \in Seq(SUBSET Formula)
  /\ {i, low, high, ub} \subseteq Nat
  /\ {reached, saved} \subseteq Nat \cup {-1}
  /\ verdict \in {"NONE", "FALSE", "UNKNOWN"}
  /\ verdict = "NONE" <=> pc # "done"

BaseInv ==
  pc # "done" =>
    /\ \A f \in base : IsAssertion(f, Depth, Settled)
    /\ At(sys.init, 0) \in base
    /\ \A t \in 0..Depth-1 : TransAt(t) \in base

LoopInv ==
  pc = "loop" => scopes = <<>> /\ ub = 0 /\ (OneByOne => i <= reached + 1)

\* The interval being searched.
BadIn(m, I) == \E t \in I : m[t] \in sys.bad
Candidates(I) == Models(sys, base \cup {Sometime(sys.bad, I)}, i)
IntervalInv ==
  Searching =>
    /\ ~opt.single /\ ~OneByOne /\ ub > 0
    /\ opt.search = "binary" \/ pc = opt.search
    /\ reached + 1 = low /\ low <= high /\ high <= i
    /\ saved <= reached /\ saved < ub /\ ub <= i

\* In the binary search every model of the frames has a bad state between low
\* and high, and without them the interval has one.
BinaryInv ==
  pc = "binary" =>
    /\ scopes # <<>>
    /\ \A m \in Answers({}) : BadIn(m, low..high)
    /\ Candidates(saved+1..ub) # {}

\* In the others the interval has one, and below the top frame there is only
\* the clause the search started from.
Below == UNION {scopes[n] : n \in 1..Len(scopes)-1}
ProbeInv ==
  pc \in {"less_inc", "linear"} =>
    /\ scopes # <<>>
    /\ \A f \in Below : f = Sometime(sys.bad, saved+1..i)
    /\ Candidates(low..high) # {}

ProgressInv ==
  Exact /\ pc # "done" => \A d \in 0..reached : ~HasCex(sys, d)

BmcInv ==
  /\ TypeInv
  /\ BaseInv /\ LoopInv /\ IntervalInv /\ BinaryInv /\ ProbeInv
  /\ ProgressInv /\ CexIsShortest

----------------------------------------------------------------------------
(* Numbers, formulas and frames.                                           *)

LEMMA MinFacts ==
  ASSUME NEW S \in SUBSET Nat, S # {}
  PROVE  Min(S) \in S /\ \A x \in S : Min(S) <= x
<1>1. \E x \in S : \A y \in S : x <= y
  BY LeastNat
<1> QED BY <1>1 DEF Min

LEMMA MaxOfInterval ==
  ASSUME NEW a \in Nat, NEW b \in Nat, a <= b
  PROVE  Max(a..b) = b
<1>1. b \in a..b /\ \A y \in a..b : b >= y
  OBVIOUS
<1>2. Max(a..b) \in a..b /\ \A y \in a..b : Max(a..b) >= y
  BY <1>1 DEF Max
<1> QED BY <1>1, <1>2

LEMMA MidFacts ==
  ASSUME low \in Nat, high \in Nat, low <= high
  PROVE  mid \in Nat /\ low <= mid /\ mid <= high /\ (low < high => mid < high)
  BY DEF mid

\* The first bad state of a model with a bad state in I.
LEMMA FirstBadFacts ==
  ASSUME NEW m, NEW I \in SUBSET Nat, BadIn(m, I)
  PROVE  /\ FirstBad(m, I) \in I
         /\ m[FirstBad(m, I)] \in sys.bad
<1> DEFINE S == {t \in I : m[t] \in sys.bad}
<1>1. S \in SUBSET Nat /\ S # {}
  BY DEF BadIn
<1>2. Min(S) \in S
  BY <1>1, MinFacts
<1> QED BY <1>2 DEF FirstBad

LEMMA NeverIsFrame ==
  ASSUME sys \in SystemType, NEW I \in SUBSET Nat
  PROVE  Never(sys.bad, I) \in SUBSET Formula
  BY DEF Never, At, Formula, SystemType

LEMMA SometimeIsFormula ==
  ASSUME sys \in SystemType, NEW I \in SUBSET Nat
  PROVE  {Sometime(sys.bad, I)} \in SUBSET Formula
  BY DEF Sometime, Formula, SystemType

LEMMA SatisfiesNever ==
  ASSUME NEW m, NEW I, \A f \in Never(sys.bad, I) : Satisfies(sys, m, f),
         NEW t \in I
  PROVE  m[t] \notin sys.bad
<1>1. Satisfies(sys, m, At(State \ sys.bad, t))
  BY DEF Never
<1> QED BY <1>1, SatisfiesAt

\* A model that is asked for more is one that was asked for less.
LEMMA AnswerFacts ==
  ASSUME NEW F, NEW m \in Answers(F)
  PROVE  /\ m \in [0..i -> State]
         /\ \A f \in base \cup F : Satisfies(sys, m, f)
         /\ \A n \in DOMAIN scopes : \A f \in scopes[n] : Satisfies(sys, m, f)
         /\ m \in Answers({})
<1> DEFINE U == UNION {scopes[n] : n \in DOMAIN scopes}
<1>1. m \in Models(sys, base \cup U \cup F, i)
  BY DEF Answers
<1> HIDE DEF U
<1>2. m \in [0..i -> State] /\ \A f \in base \cup U \cup F : Satisfies(sys, m, f)
  BY <1>1 DEF Models
<1>3. m \in Models(sys, base \cup U \cup {}, i)
  BY <1>2 DEF Models
<1>4. m \in Answers({})
  BY <1>3 DEF Answers, U
<1>5. ASSUME NEW n \in DOMAIN scopes, NEW f \in scopes[n] PROVE Satisfies(sys, m, f)
  <2>1. f \in U
    BY DEF U
  <2> QED BY <1>2, <2>1
<1> QED BY <1>2, <1>4, <1>5

LEMMA MoreModels ==
  ASSUME NEW m \in [0..i -> State], \A f \in base : Satisfies(sys, m, f),
         NEW c, Satisfies(sys, m, c)
  PROVE  m \in Models(sys, base \cup {c}, i)
BY DEF Models

LEMMA AnswersFrom ==
  ASSUME NEW m \in [0..i -> State],
         \A f \in base : Satisfies(sys, m, f),
         \A n \in DOMAIN scopes : \A f \in scopes[n] : Satisfies(sys, m, f)
  PROVE  m \in Answers({})
<1> DEFINE U == UNION {scopes[n] : n \in DOMAIN scopes}
<1>1. \A f \in U : Satisfies(sys, m, f)
  OBVIOUS
<1> HIDE DEF U
<1>2. m \in Models(sys, base \cup U \cup {}, i)
  BY <1>1 DEF Models
<1> QED BY <1>2 DEF Answers, U

LEMMA AnswersPrimed ==
  ASSUME sys' = sys, i' = i, NEW m \in Answers({})'
  PROVE  /\ m \in [0..i -> State]
         /\ \A f \in base' : Satisfies(sys, m, f)
         /\ \A n \in DOMAIN scopes' : \A f \in scopes'[n] : Satisfies(sys, m, f)
<1> DEFINE U == UNION {scopes'[n] : n \in DOMAIN scopes'}
<1>1. m \in Models(sys, base' \cup U \cup {}, i)
  BY DEF Answers
<1> HIDE DEF U
<1>2. m \in [0..i -> State] /\ \A f \in base' \cup U : Satisfies(sys, m, f)
  BY <1>1 DEF Models
<1>3. ASSUME NEW n \in DOMAIN scopes', NEW f \in scopes'[n] PROVE Satisfies(sys, m, f)
  <2>1. f \in U
    BY DEF U
  <2> QED BY <1>2, <2>1
<1> QED BY <1>2, <1>3

LEMMA MonotoneAssertion ==
  ASSUME NEW n \in Int, NEW k \in Int, n <= k, NEW r \in Int, NEW q \in Int, r <= q,
         NEW f, IsAssertion(f, n, r)
  PROVE  IsAssertion(f, k, q)
<1>1. 0..n-1 \subseteq 0..k-1 /\ 1..n \subseteq 1..k /\ 0..r \subseteq 0..q
  OBVIOUS
<1> QED BY <1>1, Zenon DEF IsAssertion

----------------------------------------------------------------------------
(* Executions and models.                                                  *)

\* A model of what is asserted for good is an execution.
LEMMA ModelIsRun ==
  ASSUME i \in Nat, NEW B, At(sys.init, 0) \in B, \A t \in 0..i-1 : TransAt(t) \in B,
         NEW m \in Models(sys, B, i)
  PROVE  IsRun(sys, m, i)
<1>1. m \in [0..i -> State] /\ \A f \in B : Satisfies(sys, m, f)
  BY DEF Models
<1>2. m[0] \in sys.init
  BY <1>1, SatisfiesAt
<1>3. \A t \in 0..i-1 : <<m[t], m[t+1]>> \in sys.trans
  BY <1>1, SatisfiesTrans
<1> QED BY <1>1, <1>2, <1>3 DEF IsRun

\* An execution that avoids what the options block satisfies what is asserted.
LEMMA RunSatisfies ==
  ASSUME i \in Nat, NEW n \in Int, n <= i, NEW r \in Int, r <= i,
         NEW q, IsRun(sys, q, i),
         opt.neg_init => \A t \in 1..i : q[t] \notin sys.init,
         \A t \in 0..r : q[t] \notin sys.bad,
         NEW f, IsAssertion(f, n, r)
  PROVE  Satisfies(sys, q, f)
<1>1. /\ q \in [0..i -> State] /\ q[0] \in sys.init
      /\ \A t \in 0..i-1 : <<q[t], q[t+1]>> \in sys.trans
  BY DEF IsRun
<1>2. ASSUME f = At(sys.init, 0) PROVE Satisfies(sys, q, f)
  BY <1>1, <1>2, SatisfiesAt
<1>3. ASSUME NEW t \in 0..n-1, f = TransAt(t) PROVE Satisfies(sys, q, f)
  <2>1. t \in 0..i-1
    OBVIOUS
  <2> QED BY <1>1, <1>3, <2>1, SatisfiesTrans
<1>4. ASSUME opt.neg_init, NEW t \in 1..n, f = At(NotInit, t) PROVE Satisfies(sys, q, f)
  <2>1. t \in 1..i /\ t \in 0..i
    OBVIOUS
  <2>2. q[t] \in NotInit
    BY <1>1, <1>4, <2>1 DEF NotInit
  <2> QED BY <1>4, <2>2, SatisfiesAt
<1>5. ASSUME NEW t \in 0..r, f = At(good, t) PROVE Satisfies(sys, q, f)
  <2>1. t \in 0..i
    OBVIOUS
  <2>2. q[t] \in good
    BY <1>1, <2>1 DEF good
  <2> QED BY <1>5, <2>2, SatisfiesAt
<1> QED BY <1>2, <1>3, <1>4, <1>5 DEF IsAssertion

\* An execution that was cut at a bad state is a counterexample.
LEMMA CexAtBadState ==
  ASSUME NEW n \in Nat, NEW q, IsRun(sys, q, n), NEW t \in 0..n, q[t] \in sys.bad
  PROVE  /\ IsCex(sys, [j \in 0..t |-> q[j]], t)
         /\ HasCex(sys, t)
<1> DEFINE p == [j \in 0..t |-> q[j]]
<1>1. IsRun(sys, p, t)
  BY RunPrefix
<1>2. p[t] = q[t] /\ t \in Nat
  OBVIOUS
<1> HIDE DEF p
<1>3. IsCex(sys, p, t) /\ p \in [0..t -> State]
  BY <1>1, <1>2 DEF IsCex, IsRun
<1> QED BY <1>3 DEF HasCex, p

\* Without a model there is no counterexample that ends where the query looks
\* for one: when bounds are taken one by one because it would be a shortest
\* one, otherwise because on a total transition relation it goes on to i.
LEMMA UnsatExcludes ==
  ASSUME Exact, sys \in SystemType, i \in Nat, reached \in Int, reached <= i,
         \A d \in 0..reached : ~HasCex(sys, d),
         NEW B, \A f \in B : IsAssertion(f, i, reached),
         NEW I \in SUBSET (0..i), OneByOne => I = {i} /\ i = reached + 1,
         NEW c, \A m : BadIn(m, I) => Satisfies(sys, m, c),
         Models(sys, B \cup {c}, i) = {}
  PROVE  \A d \in I : ~HasCex(sys, d)
<1> SUFFICES ASSUME NEW d \in I, HasCex(sys, d) PROVE FALSE
  OBVIOUS
<1>1. ASSUME NEW q, IsRun(sys, q, i), q[d] \in sys.bad,
             opt.neg_init => \A t \in 1..i : q[t] \notin sys.init
      PROVE  FALSE
  <2>1. ASSUME NEW t \in 0..reached PROVE q[t] \notin sys.bad
    <3>1. t \in 0..i
      OBVIOUS
    <3> QED BY <1>1, <3>1, CexAtBadState
  <2>2. \A f \in B : Satisfies(sys, q, f)
    <3>1. i <= i
      OBVIOUS
    <3> QED BY <1>1, <2>1, <3>1, RunSatisfies
  <2>3. Satisfies(sys, q, c)
    BY <1>1 DEF BadIn
  <2>4. q \in Models(sys, B \cup {c}, i)
    BY <1>1, <2>2, <2>3 DEF Models, IsRun
  <2> QED BY <2>4
<1>2. CASE OneByOne
  <2>1. PICK p : IsCex(sys, p, i)
    BY <1>2 DEF HasCex
  <2>2. \A m \in Nat : HasCex(sys, m) => i <= m
    <3>1. \A m \in Nat : m \in 0..reached \/ i <= m
      BY <1>2
    <3> QED BY <3>1
  <2>3. IsShortest(sys, p, i)
    BY <2>1, <2>2 DEF IsShortest
  <2>4. \A t \in 1..i : p[t] \notin sys.init
    BY <2>3, ShortestLeavesInit
  <2> QED BY <1>1, <1>2, <2>1, <2>4 DEF IsCex
<1>3. CASE ~OneByOne
  <2>1. Total(sys) /\ ~opt.neg_init
    BY <1>3 DEF Exact
  <2>2. PICK p : IsCex(sys, p, d)
    BY DEF HasCex
  <2>3. d \in Nat /\ d <= i
    OBVIOUS
  <2>4. PICK q : IsRun(sys, q, i) /\ \A t \in 0..d : q[t] = p[t]
    BY <2>1, <2>2, <2>3, RunExtends DEF IsCex
  <2>5. q[d] \in sys.bad
    BY <2>2, <2>3, <2>4 DEF IsCex
  <2> QED BY <1>1, <2>1, <2>4, <2>5
<1> QED BY <1>2, <1>3

----------------------------------------------------------------------------
(* The queries of check_until.                                             *)

LEMMA SetupKept ==
  ASSUME UNCHANGED <<sys, opt>>
  PROVE  /\ OneByOne' <=> OneByOne
         /\ Exact' <=> Exact
         /\ good' = good
         /\ \A f, n, r : IsAssertion(f, n, r)' <=> IsAssertion(f, n, r)
<1>1. OneByOne' <=> OneByOne
  BY DEF OneByOne
<1>2. Exact' <=> Exact
  BY <1>1 DEF Exact
<1>3. good' = good /\ NotInit' = NotInit
  BY DEF good, NotInit
<1>4. \A f, n, r : IsAssertion(f, n, r)' <=> IsAssertion(f, n, r)
  BY <1>3 DEF IsAssertion
<1> QED BY <1>1, <1>2, <1>3, <1>4

LEMMA NextBoundFacts ==
  ASSUME opt \in OptionType, i \in Nat
  PROVE  NextBound \in Nat /\ (OneByOne => NextBound = i + 1)
BY DEF NextBound, OptionType, OneByOne

\* What is known when a bound is checked.
LEMMA AtLoop ==
  ASSUME BmcInv, pc = "loop"
  PROVE  /\ sys \in SystemType /\ opt \in OptionType
         /\ i \in Nat /\ reached \in Int /\ reached >= -1 /\ verdict = "NONE"
         /\ ~Searching /\ Depth = reached /\ Settled = reached
         /\ scopes = <<>> /\ ub = 0
         /\ OneByOne => i <= reached + 1
         /\ Exact => \A d \in 0..reached : ~HasCex(sys, d)
<1>1. ~Searching /\ Depth = reached /\ Settled = reached
  BY DEF Searching, Depth, Settled
<1> QED BY <1>1 DEF BmcInv, TypeInv, LoopInv, ProgressInv

\* What step asserts for good unrolls the system up to the new bound.
LEMMA UnrolledFacts ==
  ASSUME BmcInv, pc = "loop", i > reached
  PROVE  /\ \A f \in base \cup Unrolled : IsAssertion(f, i, reached)
         /\ At(sys.init, 0) \in base \cup Unrolled
         /\ \A t \in 0..i-1 : TransAt(t) \in base \cup Unrolled
<1> DEFINE new == (IF reached = -1 THEN 1 ELSE reached + 1)..i
<1>0. /\ i \in Nat /\ reached \in Int /\ reached >= -1
      /\ Depth = reached /\ Settled = reached
  BY AtLoop
<1>1. /\ \A f \in base : IsAssertion(f, reached, reached)
      /\ At(sys.init, 0) \in base
      /\ \A t \in 0..reached-1 : TransAt(t) \in base
  BY <1>0 DEF BmcInv, BaseInv
<1>2. Unrolled = {TransAt(j-1) : j \in new}
                   \cup (IF opt.neg_init THEN {At(NotInit, j) : j \in new} ELSE {})
  BY DEF Unrolled
<1>3. ASSUME NEW f \in base PROVE IsAssertion(f, i, reached)
  BY <1>0, <1>1, <1>3, MonotoneAssertion
<1>4. ASSUME NEW j \in new PROVE IsAssertion(TransAt(j-1), i, reached)
  <2>1. j-1 \in 0..i-1
    BY <1>0
  <2> QED BY <2>1 DEF IsAssertion
<1>5. ASSUME opt.neg_init, NEW j \in new PROVE IsAssertion(At(NotInit, j), i, reached)
  <2>1. j \in 1..i
    BY <1>0
  <2> QED BY <1>5, <2>1 DEF IsAssertion
<1>6. ASSUME NEW t \in 0..i-1 PROVE TransAt(t) \in base \cup Unrolled
  <2>1. CASE t \in 0..reached-1
    BY <1>1, <2>1
  <2>2. CASE t \notin 0..reached-1
    <3>1. t+1 \in new /\ (t+1)-1 = t
      BY <1>0, <2>2
    <3>2. TransAt((t+1)-1) \in {TransAt(j-1) : j \in new}
      BY <3>1
    <3> QED BY <1>2, <3>1, <3>2
  <2> QED BY <2>1, <2>2
<1> HIDE DEF new
<1> QED BY <1>1, <1>2, <1>3, <1>4, <1>5, <1>6

LEMMA AnswersAtLoop ==
  ASSUME scopes = <<>>, NEW F
  PROVE  Answers(F) = Models(sys, base \cup F, i)
<1>1. (UNION {scopes[n] : n \in DOMAIN scopes}) = {}
  OBVIOUS
<1>2. base \cup {} \cup F = base \cup F
  OBVIOUS
<1> QED BY <1>1, <1>2, Zenon DEF Answers

LEMMA IntervalFacts ==
  ASSUME i \in Nat, reached \in Int, reached >= -1, i > reached
  PROVE  /\ Interval \in SUBSET (0..i) /\ i \in Interval
         /\ \A m : m[i] \in sys.bad => BadIn(m, Interval)
         /\ \A m : Satisfies(sys, m, Clause) => BadIn(m, Interval)
         /\ ~opt.single \/ Interval = {i} =>
              \A m : BadIn(m, Interval) => Satisfies(sys, m, Clause)
<1>1. Interval \in SUBSET (0..i) /\ i \in Interval
  BY DEF Interval
<1>2. \A m : m[i] \in sys.bad => BadIn(m, Interval)
  BY <1>1 DEF BadIn
<1>3. ASSUME NEW m
      PROVE  /\ Satisfies(sys, m, At(sys.bad, i)) <=> m[i] \in sys.bad
             /\ Satisfies(sys, m, Sometime(sys.bad, Interval)) <=> BadIn(m, Interval)
  BY SatisfiesAt, SatisfiesSometime DEF BadIn
<1>4. Clause = IF opt.single THEN At(sys.bad, i) ELSE Sometime(sys.bad, Interval)
  BY DEF Clause
<1>5. ASSUME NEW m, Satisfies(sys, m, Clause) PROVE BadIn(m, Interval)
  BY <1>2, <1>3, <1>4, <1>5
<1>6. ASSUME ~opt.single \/ Interval = {i}, NEW m, BadIn(m, Interval)
      PROVE  Satisfies(sys, m, Clause)
  <2>1. CASE ~opt.single
    BY <1>3, <1>4, <1>6, <2>1
  <2>2. CASE opt.single
    <3>1. m[i] \in sys.bad
      BY <1>6, <2>2 DEF BadIn
    <3> QED BY <1>3, <1>4, <2>2, <3>1
  <2> QED BY <2>1, <2>2
<1> QED BY <1>1, <1>2, <1>5, <1>6

\* A model of step is an execution with a bad state in the interval.
LEMMA StepModel ==
  ASSUME BmcInv, pc = "loop", i > reached,
         NEW m \in Answers(Unrolled \cup {Clause})
  PROVE  /\ m \in Models(sys, base \cup Unrolled, i)
         /\ IsRun(sys, m, i) /\ BadIn(m, Interval)
<1>0. i \in Nat /\ reached \in Int /\ reached >= -1 /\ scopes = <<>>
  BY AtLoop
<1>1. m \in Models(sys, base \cup (Unrolled \cup {Clause}), i)
  BY <1>0, AnswersAtLoop
<1>2. /\ m \in [0..i -> State]
      /\ \A f \in base \cup Unrolled \cup {Clause} : Satisfies(sys, m, f)
  BY <1>1 DEF Models
<1>3. m \in Models(sys, base \cup Unrolled, i)
  BY <1>2 DEF Models
<1>4. IsRun(sys, m, i)
  BY <1>0, <1>3, UnrolledFacts, ModelIsRun
<1>5. BadIn(m, Interval)
  BY <1>0, <1>2, IntervalFacts
<1> QED BY <1>3, <1>4, <1>5

\* Without one no counterexample ends in the interval, for exact settings.
LEMMA StepExcludes ==
  ASSUME BmcInv, pc = "loop", i > reached, Exact,
         Answers(Unrolled \cup {Clause}) = {}
  PROVE  \A d \in 0..i : ~HasCex(sys, d)
<1>0. /\ sys \in SystemType /\ i \in Nat /\ reached \in Int /\ reached >= -1
      /\ scopes = <<>> /\ (OneByOne => i <= reached + 1)
      /\ \A d \in 0..reached : ~HasCex(sys, d)
  BY AtLoop
<1> DEFINE B == base \cup Unrolled
<1>1. \A f \in B : IsAssertion(f, i, reached)
  BY UnrolledFacts
<1>2. OneByOne => Interval = {i} /\ i = reached + 1
  BY <1>0 DEF Interval
<1>3. Interval \in SUBSET (0..i) /\ \A m : BadIn(m, Interval) => Satisfies(sys, m, Clause)
  BY <1>0, <1>2, IntervalFacts DEF Exact
<1>4. Models(sys, B \cup {Clause}, i) = {}
  <2>1. B \cup {Clause} = base \cup (Unrolled \cup {Clause})
    OBVIOUS
  <2> QED BY <1>0, <2>1, AnswersAtLoop
<1>5. reached <= i
  BY <1>0
<1> HIDE DEF B
<1>6. \A d \in Interval : ~HasCex(sys, d)
  BY <1>0, <1>1, <1>2, <1>3, <1>4, <1>5, UnsatExcludes
<1>7. \A d \in 0..i : d \in 0..reached \/ d \in Interval
  BY <1>0 DEF Interval
<1> QED BY <1>0, <1>6, <1>7

----------------------------------------------------------------------------
(* The invariant holds at first and every action of check_until keeps it.  *)

LEMMA InitInv == Init => BmcInv
<1> SUFFICES ASSUME Init PROVE BmcInv
  OBVIOUS
<1>0. sys \in SystemType /\ opt \in OptionType /\ opt.start \in Nat
  BY SystemsAssumption, OptionsAssumption DEF Init, OptionType
<1>1. TypeInv
  <2>1. 1 \in DOMAIN Calls
    BY CallsAssumption
  <2> QED BY <1>0, <2>1 DEF Init, TypeInv
<1>2. ~Searching /\ Depth = -1 /\ Settled = -1
  BY DEF Init, Searching, Depth, Settled
<1>3. BaseInv
  BY <1>2 DEF Init, BaseInv, IsAssertion
<1>4. LoopInv
  BY DEF Init, LoopInv, OneByOne
<1>5. IntervalInv /\ BinaryInv /\ ProbeInv
  BY <1>2 DEF Init, IntervalInv, BinaryInv, ProbeInv
<1>6. ProgressInv /\ CexIsShortest
  BY DEF Init, ProgressInv, CexIsShortest
<1> QED BY <1>1, <1>3, <1>4, <1>5, <1>6 DEF BmcInv

\* An action that stays at the loop and leaves the assertions alone.
LEMMA LoopKeeps ==
  ASSUME BmcInv, pc = "loop", pc' = "loop",
         UNCHANGED <<sys, opt, base, scopes, search, reached, verdict, witness>>,
         call' \in DOMAIN Calls, i' \in Nat, OneByOne => i' <= reached + 1
  PROVE  BmcInv'
<1>0. /\ UNCHANGED <<sys, opt, base, scopes, low, high, saved, ub, reached, verdict, witness>>
      /\ verdict = "NONE"
  BY AtLoop DEF search
<1>1. TypeInv'
  BY <1>0 DEF BmcInv, TypeInv
<1>2. ~Searching' /\ Depth' = Depth /\ Settled' = Settled
  BY <1>0 DEF Searching, Depth, Settled
<1>3. BaseInv'
  BY <1>0, <1>2, SetupKept DEF BmcInv, BaseInv
<1>4. LoopInv'
  BY <1>0, SetupKept DEF BmcInv, LoopInv
<1>5. IntervalInv' /\ BinaryInv' /\ ProbeInv'
  BY <1>2 DEF IntervalInv, BinaryInv, ProbeInv
<1>6. ProgressInv' /\ CexIsShortest'
  BY <1>0, SetupKept DEF BmcInv, ProgressInv, CexIsShortest
<1> QED BY <1>1, <1>3, <1>4, <1>5, <1>6 DEF BmcInv

\* An action that ends the run.
LEMMA DoneKeeps ==
  ASSUME BmcInv, pc' = "done", UNCHANGED <<sys, opt, call, i, ub, saved, low>>,
         high' \in Nat, scopes' \in Seq(SUBSET Formula'),
         reached' \in Nat \cup {-1}, verdict' \in {"FALSE", "UNKNOWN"},
         CexIsShortest'
  PROVE  BmcInv'
<1>1. TypeInv'
  BY DEF BmcInv, TypeInv
<1>2. ~Searching'
  BY DEF Searching
<1>3. BaseInv' /\ LoopInv' /\ IntervalInv' /\ BinaryInv' /\ ProbeInv' /\ ProgressInv'
  BY <1>2 DEF BaseInv, LoopInv, IntervalInv, BinaryInv, ProbeInv, ProgressInv
<1> QED BY <1>1, <1>3 DEF BmcInv

LEMMA ReturnKeeps ==
  ASSUME BmcInv, Return
  PROVE  BmcInv'
<1>0. /\ pc = "loop" /\ sys \in SystemType /\ opt \in OptionType /\ opt.start \in Nat
      /\ reached \in Int /\ reached >= -1
      /\ UNCHANGED <<sys, opt, base, scopes, search, reached, witness>>
      /\ UNCHANGED <<low, high, saved, ub>>
  BY AtLoop DEF Return, search, OptionType
<1>1. CASE call < Len(Calls)
  <2>1. call' \in DOMAIN Calls
    BY <1>1, CallsAssumption DEF Return, BmcInv, TypeInv
  <2>2. i' = opt.start /\ (OneByOne => i' = 0) /\ UNCHANGED <<pc, verdict>>
    BY <1>1 DEF Return, OneByOne
  <2> QED BY <1>0, <2>1, <2>2, LoopKeeps
<1>2. CASE ~(call < Len(Calls))
  <2>1. pc' = "done" /\ verdict' = "UNKNOWN" /\ UNCHANGED <<call, i>>
    BY <1>2 DEF Return
  <2>2. CexIsShortest'
    BY <2>1 DEF CexIsShortest
  <2>3. Formula' = Formula
    BY DEF Formula
  <2> QED BY <1>0, <2>1, <2>2, <2>3, DoneKeeps DEF BmcInv, TypeInv
<1> QED BY <1>1, <1>2

LEMMA SkipKeeps ==
  ASSUME BmcInv, Skip
  PROVE  BmcInv'
<1>0. /\ pc = "loop" /\ UNCHANGED <<sys, opt, pc, base, scopes, search, reached, verdict, witness>>
      /\ call' = call /\ call \in DOMAIN Calls /\ i' = NextBound /\ i <= reached
      /\ i \in Nat /\ reached \in Int /\ opt \in OptionType
  BY AtLoop DEF Skip, BmcInv, TypeInv
<1>1. i' \in Nat /\ (OneByOne => i' <= reached + 1)
  BY <1>0, NextBoundFacts
<1> QED BY <1>0, <1>1, LoopKeeps

LEMMA StepUnsatKeeps ==
  ASSUME BmcInv, StepUnsat
  PROVE  BmcInv'
<1>0. /\ pc = "loop" /\ pc' = "loop" /\ i > reached /\ UNCHANGED <<sys, opt, call, scopes, verdict, witness>>
      /\ UNCHANGED <<low, high, saved, ub>>
      /\ Answers(Unrolled \cup {Clause}) = {}
      /\ reached' = i /\ i' = NextBound
      /\ sys \in SystemType /\ opt \in OptionType /\ i \in Nat
      /\ reached \in Int /\ reached >= -1 /\ verdict = "NONE" /\ scopes = <<>> /\ ub = 0
      /\ (OneByOne => i <= reached + 1)
  BY AtLoop DEF StepUnsat, search
<1>1. TypeInv'
  BY <1>0, NextBoundFacts DEF BmcInv, TypeInv
<1>2. ~Searching' /\ Depth' = i /\ Settled' = i
  BY <1>0 DEF Searching, Depth, Settled
<1> DEFINE Blocked == CASE opt.neg_bad = "all"  -> Never(sys.bad, Interval)
                        [] opt.neg_bad = "step" -> Never(sys.bad, {i})
                        [] OTHER -> {}
<1>3. \A f \in Blocked : \E t \in 0..i : f = At(good, t)
  <2>1. Interval \in SUBSET (0..i) /\ i \in 0..i
    BY <1>0, IntervalFacts
  <2>2. \A f \in Never(sys.bad, Interval) : \E t \in 0..i : f = At(good, t)
    BY <2>1 DEF Never, good
  <2>3. \A f \in Never(sys.bad, {i}) : \E t \in 0..i : f = At(good, t)
    BY <2>1 DEF Never, good
  <2>4. \/ Blocked = Never(sys.bad, Interval)
        \/ Blocked = Never(sys.bad, {i})
        \/ Blocked = {}
    OBVIOUS
  <2> HIDE DEF Blocked
  <2> QED BY <2>2, <2>3, <2>4
<1>4. base' = base \cup Unrolled \cup Blocked
  BY DEF StepUnsat
<1> HIDE DEF Blocked
<1>5. BaseInv'
  <2>1. ASSUME NEW f \in base' PROVE IsAssertion(f, i, i)
    <3>1. CASE f \in base \cup Unrolled
      BY <1>0, <3>1, UnrolledFacts, MonotoneAssertion
    <3>2. CASE f \in Blocked
      BY <1>3, <3>2 DEF IsAssertion
    <3> QED BY <1>4, <2>1, <3>1, <3>2
  <2>2. At(sys.init, 0) \in base' /\ \A t \in 0..i-1 : TransAt(t) \in base'
    BY <1>0, <1>4, UnrolledFacts
  <2> QED BY <1>0, <1>2, <2>1, <2>2, SetupKept DEF BaseInv
<1>6. LoopInv'
  BY <1>0, SetupKept, NextBoundFacts DEF LoopInv
<1>7. IntervalInv' /\ BinaryInv' /\ ProbeInv'
  BY <1>0, <1>2 DEF IntervalInv, BinaryInv, ProbeInv
<1>8. ProgressInv'
  BY <1>0, SetupKept, StepExcludes DEF ProgressInv
<1>9. CexIsShortest'
  BY <1>0 DEF CexIsShortest
<1> QED BY <1>1, <1>5, <1>6, <1>7, <1>8, <1>9 DEF BmcInv

\* compute_witness takes the frames of an execution up to a bad state.
LEMMA ReportFacts ==
  ASSUME i \in Nat, NEW m, IsRun(sys, m, i), NEW r \in Int, r + 1 \in 0..i, Report(m, r)
  PROVE  /\ reached' = r /\ verdict' = "FALSE" /\ pc' = "done"
         /\ IsRun(sys, witness', r + 1) /\ DOMAIN witness' = 0..r+1
         /\ \A t \in 0..r+1 : witness'[t] = m[t]
<1>1. reached' = r /\ verdict' = "FALSE" /\ pc' = "done" /\ witness' = [t \in 0..r+1 |-> m[t]]
  BY DEF Report
<1>2. IsRun(sys, witness', r + 1)
  BY <1>1, RunPrefix
<1> QED BY <1>1, <1>2

LEMMA StepReports ==
  ASSUME BmcInv, pc = "loop", i > reached,
         NEW m \in Answers(Unrolled \cup {Clause}), Report(m, i - 1)
  PROVE  /\ IsRun(sys, witness', reached' + 1)
         /\ \E t \in DOMAIN witness' : witness'[t] \in sys.bad
         /\ i = reached + 1 => IsCex(sys, witness', reached' + 1)
<1>0. i \in Nat /\ reached \in Int /\ reached >= -1
  BY AtLoop
<1>1. IsRun(sys, m, i) /\ BadIn(m, Interval)
  BY StepModel
<1>2. i - 1 \in Int /\ (i - 1) + 1 = i /\ i \in 0..i
  BY <1>0
<1>3. /\ reached' = i - 1 /\ IsRun(sys, witness', i) /\ DOMAIN witness' = 0..i
      /\ \A t \in 0..i : witness'[t] = m[t]
  BY <1>0, <1>1, <1>2, ReportFacts
<1>4. PICK t \in Interval : m[t] \in sys.bad
  BY <1>1 DEF BadIn
<1>5. t \in 0..i /\ (i = reached + 1 => t = i)
  BY <1>0 DEF Interval
<1>6. witness'[t] \in sys.bad
  BY <1>3, <1>4, <1>5
<1> QED BY <1>2, <1>3, <1>5, <1>6 DEF IsCex

LEMMA StepSatKeeps ==
  ASSUME BmcInv, StepSat
  PROVE  BmcInv'
<1>0. /\ pc = "loop" /\ i > reached /\ base' = base \cup Unrolled
      /\ UNCHANGED <<sys, opt, call, i>>
      /\ sys \in SystemType /\ opt \in OptionType /\ i \in Nat
      /\ reached \in Int /\ reached >= -1 /\ verdict = "NONE" /\ scopes = <<>> /\ ub = 0
      /\ (OneByOne => i <= reached + 1)
      /\ Exact => \A d \in 0..reached : ~HasCex(sys, d)
  BY AtLoop DEF StepSat
<1>i. /\ Interval \in SUBSET (0..i) /\ i \in Interval
      /\ \A m : Satisfies(sys, m, Clause) => BadIn(m, Interval)
  BY <1>0, IntervalFacts
<1>c. {Clause} \in SUBSET Formula
  <2>1. At(sys.bad, i) \in Formula
    BY <1>0 DEF At, Formula, SystemType
  <2>2. {Sometime(sys.bad, Interval)} \in SUBSET Formula
    BY <1>0, <1>i, SometimeIsFormula
  <2> QED BY <2>1, <2>2 DEF Clause
<1>1. PICK m \in Answers(Unrolled \cup {Clause}) :
       LET first == FirstBad(m, Interval)
       IN  IF opt.any_cex \/ opt.single \/ first = reached + 1
           THEN /\ Report(m, i - 1)
                /\ scopes' = <<{Clause}>>
                /\ UNCHANGED search
           ELSE /\ scopes' = IF first < i /\ opt.search # "linear"
                             THEN <<{Clause}, Never(sys.bad, first+1..i)>>
                             ELSE <<{Clause}>>
                /\ low' = reached + 1 /\ high' = first
                /\ saved' = reached /\ ub' = first
                /\ pc' = opt.search
                /\ UNCHANGED <<reached, verdict, witness>>
  BY DEF StepSat
<1> DEFINE first == FirstBad(m, Interval)
<1>2. m \in Models(sys, base', i) /\ IsRun(sys, m, i) /\ BadIn(m, Interval)
  BY <1>0, StepModel
<1>3. first \in Interval /\ m[first] \in sys.bad /\ first \in reached+1..i /\ first \in Nat
  <2>1. Interval \in SUBSET Nat
    BY <1>0 DEF Interval
  <2>2. first \in Interval /\ m[first] \in sys.bad
    BY <1>2, <2>1, FirstBadFacts
  <2> QED BY <1>0, <2>1, <2>2 DEF Interval
<1> HIDE DEF first
<1>4. CASE opt.any_cex \/ opt.single \/ first = reached + 1
  <2>1. Report(m, i - 1) /\ scopes' = <<{Clause}>> /\ UNCHANGED <<low, high, saved, ub>>
    BY <1>1, <1>4 DEF first, search
  <2>2. /\ IsRun(sys, witness', reached' + 1)
        /\ \E t \in DOMAIN witness' : witness'[t] \in sys.bad
        /\ i = reached + 1 => IsCex(sys, witness', reached' + 1)
    BY <1>0, <2>1, StepReports
  <2>3. reached' = i - 1 /\ verdict' = "FALSE" /\ pc' = "done"
    BY <2>1 DEF Report
  <2>4. ASSUME OneByOne \/ (Exact /\ ub > 0)
        PROVE  /\ IsCex(sys, witness', reached' + 1)
               /\ \A d \in 0..reached' : ~HasCex(sys, d)
    <3>1. OneByOne /\ Exact /\ i = reached + 1
      BY <1>0, <2>4 DEF Exact
    <3>2. i - 1 = reached
      BY <1>0, <3>1
    <3> QED BY <1>0, <2>2, <2>3, <3>1, <3>2
  <2>5. CexIsShortest'
    BY <1>0, <2>1, <2>2, <2>4, SetupKept DEF CexIsShortest
  <2>6. scopes' \in Seq(SUBSET Formula') /\ reached' \in Nat \cup {-1} /\ high' \in Nat
    <3>1. Formula' = Formula
      BY DEF Formula
    <3>2. i - 1 \in Nat \cup {-1}
      BY <1>0
    <3> QED BY <1>c, <2>1, <2>3, <3>1, <3>2 DEF BmcInv, TypeInv
  <2> QED BY <1>0, <2>1, <2>3, <2>5, <2>6, DoneKeeps
<1>5. CASE ~(opt.any_cex \/ opt.single \/ first = reached + 1)
  <2>1. /\ scopes' = (IF first < i /\ opt.search # "linear"
                      THEN <<{Clause}, Never(sys.bad, first+1..i)>>
                      ELSE <<{Clause}>>)
        /\ low' = reached + 1 /\ high' = first
        /\ saved' = reached /\ ub' = first
        /\ pc' = opt.search
        /\ UNCHANGED <<reached, verdict, witness>>
    BY <1>1, <1>5 DEF first
  <2>2. /\ ~OneByOne /\ ~opt.single /\ reached + 1 < first /\ first <= i
        /\ Clause = Sometime(sys.bad, Interval)
    BY <1>0, <1>3, <1>5 DEF Clause
  <2>3. pc' \in {"binary", "less_inc", "linear"} /\ Searching' /\ Depth' = i /\ Settled' = reached
    BY <1>0, <2>1 DEF OptionType, Searching, Depth, Settled
  <2>4. TypeInv'
    <3>1. scopes' \in Seq(SUBSET Formula)
      <4>1. Never(sys.bad, first+1..i) \in SUBSET Formula
        <5>1. first+1..i \in SUBSET Nat
          BY <1>0, <1>3
        <5> QED BY <1>0, <5>1, NeverIsFrame
      <4>2. \A u \in SUBSET Formula, w \in SUBSET Formula :
              <<u, w>> \in Seq(SUBSET Formula) /\ <<u>> \in Seq(SUBSET Formula)
        OBVIOUS
      <4>3. \/ scopes' = <<{Clause}, Never(sys.bad, first+1..i)>>
            \/ scopes' = <<{Clause}>>
        BY <2>1
      <4> QED BY <1>c, <4>1, <4>2, <4>3
    <3>2. Formula' = Formula
      BY DEF Formula
    <3>3. sys' = sys /\ opt' = opt /\ call' = call /\ i' = i
      BY <1>0
    <3>4. {low', high', ub'} \subseteq Nat /\ saved' = reached /\ reached' = reached
          /\ verdict' = "NONE" /\ verdict = "NONE" /\ i \in Nat
      BY <1>0, <1>3, <2>1 DEF BmcInv, TypeInv
    <3> QED BY <1>0, <2>3, <3>1, <3>2, <3>3, <3>4 DEF BmcInv, TypeInv
  <2>5. BaseInv'
    BY <1>0, <2>3, UnrolledFacts, SetupKept DEF BaseInv
  <2>6. LoopInv'
    BY <2>3 DEF LoopInv
  <2>7. IntervalInv'
    BY <1>0, <1>3, <2>1, <2>2, SetupKept DEF IntervalInv
  <2>8. m \in Models(sys, base' \cup {Sometime(sys.bad, reached+1..first)}, i)
    <3>1. first \in reached+1..first
      BY <1>0, <1>3
    <3>2. Satisfies(sys, m, Sometime(sys.bad, reached+1..first))
      BY <1>3, <3>1, SatisfiesSometime
    <3> QED BY <1>2, <3>2 DEF Models
  <2>9. BinaryInv'
    <3> SUFFICES ASSUME opt.search = "binary" PROVE BinaryInv'
      BY <2>1 DEF BinaryInv
    <3>1. ASSUME NEW q \in Answers({})' PROVE BadIn(q, reached+1..first)
      <4>1. \A n \in DOMAIN scopes' : \A f \in scopes'[n] : Satisfies(sys, q, f)
        BY <1>0, <3>1, AnswersPrimed
      <4>2. 1 \in DOMAIN scopes' /\ Clause \in scopes'[1]
        BY <2>1
      <4>3. PICK t \in Interval : q[t] \in sys.bad
        BY <1>i, <4>1, <4>2 DEF BadIn
      <4>4. t \in reached+1..first
        <5>1. CASE first < i
          <6>1. 2 \in DOMAIN scopes' /\ scopes'[2] = Never(sys.bad, first+1..i)
            BY <2>1, <5>1
          <6>2. t \notin first+1..i
            BY <4>1, <4>3, <6>1, SatisfiesNever
          <6> QED BY <1>0, <1>3, <6>2 DEF Interval
        <5>2. CASE ~(first < i)
          BY <1>0, <1>3, <5>2 DEF Interval
        <5> QED BY <5>1, <5>2
      <4> QED BY <4>3, <4>4 DEF BadIn
    <3>2. scopes' # <<>>
      BY <2>1
    <3> QED BY <1>0, <2>1, <2>8, <3>1, <3>2 DEF BinaryInv, BadIn, Candidates
  <2>10. ProbeInv'
    <3>1. \A n \in 1..Len(scopes')-1 : scopes'[n] = {Sometime(sys.bad, reached+1..i)}
      BY <2>1, <2>2 DEF Interval
    <3>2. \A f \in Below' : f = Sometime(sys.bad, reached+1..i)
      BY <3>1 DEF Below
    <3>3. scopes' # <<>>
      BY <2>1
    <3> QED BY <1>0, <2>1, <2>8, <3>2, <3>3 DEF ProbeInv, Candidates
  <2>11. ProgressInv'
    BY <1>0, <2>1, SetupKept DEF ProgressInv
  <2>12. CexIsShortest'
    BY <1>0, <2>1 DEF CexIsShortest
  <2> QED BY <2>4, <2>5, <2>6, <2>7, <2>9, <2>10, <2>11, <2>12 DEF BmcInv
<1> QED BY <1>4, <1>5

----------------------------------------------------------------------------
(* The searches.                                                           *)

LEMMA AtSearch ==
  ASSUME BmcInv, Searching
  PROVE  /\ sys \in SystemType /\ opt \in OptionType /\ verdict = "NONE"
         /\ i \in Nat /\ low \in Nat /\ high \in Nat /\ ub \in Nat /\ ub > 0
         /\ reached \in Int /\ saved \in Int /\ saved >= -1
         /\ reached + 1 = low /\ low <= high /\ high <= i
         /\ saved <= reached /\ saved < ub /\ ub <= i
         /\ scopes \in Seq(SUBSET Formula) /\ scopes # <<>>
         /\ ~OneByOne /\ ~opt.single
         /\ opt.search = "binary" \/ pc = opt.search
         /\ Exact => \A d \in 0..reached : ~HasCex(sys, d)
         /\ \A f \in base : IsAssertion(f, i, saved)
         /\ At(sys.init, 0) \in base
         /\ \A t \in 0..i-1 : TransAt(t) \in base
<1>1. Depth = i /\ Settled = saved /\ pc # "done"
  BY DEF Searching, Depth, Settled
<1>2. scopes # <<>>
  BY DEF BmcInv, BinaryInv, ProbeInv, Searching
<1> QED BY <1>1, <1>2 DEF BmcInv, TypeInv, BaseInv, IntervalInv, ProgressInv

\* What is common to the steps of a search that go on.
LEMMA SearchKeeps ==
  ASSUME BmcInv, Searching, Searching',
         UNCHANGED <<sys, opt, call, i, base, saved, ub, verdict, witness>>,
         opt.search = "binary" \/ pc' = opt.search,
         low' \in Nat, high' \in Nat, reached' \in Int, reached' >= saved,
         scopes' \in Seq(SUBSET Formula),
         reached' + 1 = low', low' <= high', high' <= i,
         Exact => \A d \in 0..reached' : ~HasCex(sys, d),
         BinaryInv', ProbeInv'
  PROVE  BmcInv'
<1>0. /\ pc' \in {"binary", "less_inc", "linear"} /\ Depth' = i /\ Settled' = saved
      /\ Depth = i /\ Settled = saved /\ pc # "done"
  BY DEF Searching, Depth, Settled
<1>1. TypeInv'
  <2>1. Formula' = Formula
    BY DEF Formula
  <2>2. reached' \in Nat \cup {-1}
    BY AtSearch
  <2> QED BY <1>0, <2>1, <2>2, AtSearch DEF BmcInv, TypeInv
<1>2. BaseInv'
  BY <1>0, SetupKept DEF BmcInv, BaseInv
<1>3. LoopInv'
  BY <1>0 DEF LoopInv
<1>4. IntervalInv'
  BY AtSearch, SetupKept DEF IntervalInv
<1>5. ProgressInv'
  BY SetupKept DEF ProgressInv
<1>6. CexIsShortest'
  BY AtSearch DEF CexIsShortest
<1> QED BY <1>1, <1>2, <1>3, <1>4, <1>5, <1>6 DEF BmcInv

\* A search that ends at low reports a counterexample that ends there.
LEMMA SearchReports ==
  ASSUME BmcInv, Searching, NEW m \in Models(sys, base, i), m[low] \in sys.bad,
         Report(m, reached), UNCHANGED <<sys, opt, call, i, ub, saved, low, high>>,
         scopes' \in Seq(SUBSET Formula)
  PROVE  BmcInv' /\ IsCex(sys, witness', reached' + 1) /\ reached' = reached /\ verdict' = "FALSE"
<1>1. IsRun(sys, m, i)
  BY AtSearch, ModelIsRun
<1>2. reached + 1 \in 0..i /\ reached + 1 \in 0..reached+1
  BY AtSearch
<1>3. /\ reached' = reached /\ verdict' = "FALSE" /\ pc' = "done"
      /\ IsRun(sys, witness', reached + 1) /\ DOMAIN witness' = 0..reached+1
      /\ \A t \in 0..reached+1 : witness'[t] = m[t]
  BY <1>1, <1>2, AtSearch, ReportFacts
<1>4. witness'[reached+1] \in sys.bad
  BY <1>2, <1>3, AtSearch
<1>5. IsCex(sys, witness', reached' + 1)
  BY <1>3, <1>4 DEF IsCex
<1>6. CexIsShortest'
  BY <1>2, <1>3, <1>4, <1>5, AtSearch, SetupKept DEF CexIsShortest
<1>7. Formula' = Formula
  BY DEF Formula
<1>8. reached' \in Nat \cup {-1} /\ high' \in Nat
  BY <1>3, AtSearch
<1> QED BY <1>3, <1>5, <1>6, <1>7, <1>8, DoneKeeps

LEMMA BinarySatKeeps ==
  ASSUME BmcInv, BinarySat
  PROVE  BmcInv'
<1>0. /\ pc = "binary" /\ Searching /\ UNCHANGED <<sys, opt, call, i, base, low, saved, ub>>
  BY DEF BinarySat, Searching
<1>1. PICK m \in Answers(Never(sys.bad, mid+1..high)) :
       IF low = mid
       THEN Report(m, reached) /\ UNCHANGED <<scopes, high>>
       ELSE LET first == FirstBad(m, low..mid)
            IN  /\ high' = first
                /\ scopes' = Append(scopes, Never(sys.bad, (first+1..mid) \cup (mid+1..high)))
                /\ UNCHANGED <<pc, reached, verdict, witness>>
  BY DEF BinarySat
<1>2. mid \in Nat /\ low <= mid /\ mid <= high
  BY <1>0, AtSearch, MidFacts
<1>3. /\ m \in [0..i -> State]
      /\ \A f \in base \cup Never(sys.bad, mid+1..high) : Satisfies(sys, m, f)
      /\ m \in Answers({})
  BY AnswerFacts
<1>4. m \in Models(sys, base, i)
  BY <1>3 DEF Models
<1>5. PICK t \in low..high : m[t] \in sys.bad
  BY <1>0, <1>3 DEF BmcInv, BinaryInv, BadIn
<1>6. t \in low..mid
  <2>1. t \notin mid+1..high
    BY <1>3, <1>5, SatisfiesNever
  <2> QED BY <1>0, <1>2, <2>1, AtSearch
<1>7. CASE low = mid
  <2>1. m[low] \in sys.bad
    BY <1>0, <1>5, <1>6, <1>7, AtSearch
  <2> QED BY <1>0, <1>1, <1>4, <1>7, <2>1, SearchReports, AtSearch
<1>8. CASE low # mid
  <2> DEFINE first == FirstBad(m, low..mid)
             Later == Never(sys.bad, (first+1..mid) \cup (mid+1..high))
  <2>1. first \in low..mid
    <3>1. low..mid \in SUBSET Nat /\ BadIn(m, low..mid)
      BY <1>0, <1>2, <1>5, <1>6, AtSearch DEF BadIn
    <3> QED BY <3>1, FirstBadFacts
  <2>2. /\ high' = first /\ scopes' = Append(scopes, Later)
        /\ UNCHANGED <<pc, reached, verdict, witness>>
    BY <1>1, <1>8
  <2> HIDE DEF first
  <2>3. Later \in SUBSET Formula
    <3>1. (first+1..mid) \cup (mid+1..high) \in SUBSET Nat
      BY <1>0, <1>2, <2>1, AtSearch
    <3> QED BY <1>0, <3>1, AtSearch, NeverIsFrame
  <2>4. scopes' \in Seq(SUBSET Formula) /\ scopes' # <<>>
    <3> HIDE DEF Later
    <3> QED BY <1>0, <2>2, <2>3, AtSearch
  <2>5. ASSUME NEW q \in Answers({})' PROVE BadIn(q, low..first)
    <3>1. /\ q \in [0..i -> State] /\ \A f \in base : Satisfies(sys, q, f)
          /\ \A n \in DOMAIN scopes' : \A f \in scopes'[n] : Satisfies(sys, q, f)
      BY <1>0, <2>5, AnswersPrimed
    <3>2. /\ \A n \in DOMAIN scopes : n \in DOMAIN scopes' /\ scopes'[n] = scopes[n]
          /\ Len(scopes)+1 \in DOMAIN scopes' /\ scopes'[Len(scopes)+1] = Later
      BY <1>0, <2>2, <2>3, AtSearch
    <3>3. q \in Answers({})
      BY <3>1, <3>2, AnswersFrom
    <3>4. PICK u \in low..high : q[u] \in sys.bad
      BY <1>0, <3>3 DEF BmcInv, BinaryInv, BadIn
    <3>5. u \notin (first+1..mid) \cup (mid+1..high)
      BY <3>1, <3>2, <3>4, SatisfiesNever
    <3>6. u \in low..first
      BY <1>0, <1>2, <2>1, <3>5, AtSearch
    <3> QED BY <3>4, <3>6 DEF BadIn
  <2> HIDE DEF Later
  <2>6. BinaryInv'
    BY <1>0, <2>2, <2>4, <2>5 DEF BmcInv, BinaryInv, BadIn, Candidates
  <2>7. ProbeInv' /\ Searching'
    BY <1>0, <2>2 DEF ProbeInv, Searching
  <2>8. first \in Nat /\ low <= first /\ first <= i
    BY <1>0, <1>2, <2>1, AtSearch
  <2> QED BY <1>0, <2>2, <2>4, <2>6, <2>7, <2>8, AtSearch, SearchKeeps
<1> QED BY <1>7, <1>8

LEMMA BinaryUnsatKeeps ==
  ASSUME BmcInv, BinaryUnsat
  PROVE  BmcInv'
<1>0. /\ pc = "binary" /\ pc' = "binary" /\ Searching /\ Searching' /\ low < high
      /\ reached' = mid /\ low' = mid + 1
      /\ UNCHANGED <<sys, opt, call, i, base, high, saved, ub, verdict, witness>>
  BY DEF BinaryUnsat, Searching
<1>1. mid \in Nat /\ low <= mid /\ mid < high
  BY <1>0, AtSearch, MidFacts
<1> DEFINE Lower == Never(sys.bad, low..mid)
<1>2. Lower \in SUBSET Formula
  <2>1. low..mid \in SUBSET Nat
    BY <1>0, <1>1, AtSearch
  <2> QED BY <1>0, <2>1, AtSearch, NeverIsFrame
<1>3. scopes' = [scopes EXCEPT ![Len(scopes)] = @ \cup Lower]
  BY DEF BinaryUnsat, AddToTop
<1>4. /\ scopes' \in Seq(SUBSET Formula) /\ scopes' # <<>>
      /\ DOMAIN scopes' = DOMAIN scopes /\ Len(scopes) \in DOMAIN scopes
      /\ \A n \in DOMAIN scopes : scopes[n] \subseteq scopes'[n]
      /\ Lower \subseteq scopes'[Len(scopes)]
  <2> HIDE DEF Lower
  <2> QED BY <1>0, <1>2, <1>3, AtSearch
<1>5. ASSUME NEW q \in Answers({})' PROVE BadIn(q, mid+1..high)
  <2>1. /\ q \in [0..i -> State] /\ \A f \in base : Satisfies(sys, q, f)
        /\ \A n \in DOMAIN scopes' : \A f \in scopes'[n] : Satisfies(sys, q, f)
    BY <1>0, <1>5, AnswersPrimed
  <2>2. q \in Answers({})
    BY <1>4, <2>1, AnswersFrom
  <2>3. PICK u \in low..high : q[u] \in sys.bad
    BY <1>0, <2>2 DEF BmcInv, BinaryInv, BadIn
  <2>4. u \notin low..mid
    BY <1>4, <2>1, <2>3, SatisfiesNever
  <2>5. u \in mid+1..high
    BY <1>0, <1>1, <2>4, AtSearch
  <2> QED BY <2>3, <2>5 DEF BadIn
<1>6. BinaryInv'
  BY <1>0, <1>4, <1>5 DEF BmcInv, BinaryInv, BadIn, Candidates
<1>7. ProbeInv'
  BY <1>0 DEF ProbeInv
<1>8. opt.search = "binary" /\ ~Exact
  BY <1>0, AtSearch DEF Exact
<1>9. mid \in Int /\ mid >= saved /\ mid + 1 \in Nat /\ mid + 1 <= high
  BY <1>0, <1>1, AtSearch
<1> HIDE DEF Lower
<1> QED BY <1>0, <1>4, <1>6, <1>7, <1>8, <1>9, AtSearch, SearchKeeps

LEMMA BinaryFailsKeeps ==
  ASSUME BmcInv, BinaryFails
  PROVE  BmcInv'
<1>0. /\ pc = "binary" /\ pc' = "linear" /\ Searching /\ Searching'
      /\ reached' = saved /\ low' = saved + 1 /\ high' = ub /\ scopes' = <<scopes[1]>>
      /\ UNCHANGED <<sys, opt, call, i, base, saved, ub, verdict, witness>>
  BY DEF BinaryFails, Searching
<1>1. scopes' \in Seq(SUBSET Formula) /\ scopes' # <<>> /\ Len(scopes') = 1
  BY <1>0, AtSearch
<1>2. ProbeInv'
  <2>1. Below' = {}
    BY <1>1 DEF Below
  <2>2. Models(sys, base \cup {Sometime(sys.bad, saved+1..ub)}, i) # {}
    BY <1>0 DEF BmcInv, BinaryInv, Candidates
  <2> QED BY <1>0, <1>1, <2>1, <2>2 DEF ProbeInv, Candidates
<1>3. BinaryInv'
  BY <1>0 DEF BinaryInv
<1>4. opt.search = "binary" /\ ~Exact
  BY <1>0, AtSearch DEF Exact
<1>5. saved + 1 \in Nat /\ saved + 1 <= ub
  BY <1>0, AtSearch
<1> QED BY <1>0, <1>1, <1>2, <1>3, <1>4, <1>5, AtSearch, SearchKeeps

\* The bounds a query of the other searches asks for.
LEMMA ProbedFacts ==
  ASSUME BmcInv, pc \in {"less_inc", "linear"}
  PROVE  \E h \in Nat : /\ low <= h /\ h <= high /\ Probed = low..h /\ Max(Probed) = h
                        /\ pc = "linear" => h = low
                        /\ Probed \in SUBSET Nat /\ Probed \subseteq saved+1..i
<1>0. Searching
  BY DEF Searching
<1>1. CASE pc = "linear"
  <2>1. Probed = low..low
    BY <1>1 DEF Probed
  <2>3. Max(low..low) = low
    <3>1. low \in Nat /\ low <= low
      BY <1>0, AtSearch
    <3> QED BY <3>1, MaxOfInterval
  <2>2. low \in Nat /\ low..low \in SUBSET Nat /\ low..low \subseteq saved+1..i /\ low <= high
    BY <1>0, AtSearch
  <2> QED BY <1>1, <2>1, <2>2, <2>3
<1>2. CASE pc = "less_inc"
  <2>1. mid \in Nat /\ low <= mid /\ mid <= high
    BY <1>0, AtSearch, MidFacts
  <2>2. Probed = low..mid /\ Max(low..mid) = mid
    BY <1>0, <1>2, <2>1, AtSearch, MaxOfInterval DEF Probed
  <2> QED BY <1>0, <1>2, <2>1, <2>2, AtSearch
<1> QED BY <1>1, <1>2

\* The frames below add nothing to the clause of a probe.
LEMMA ProbeAnswersFacts ==
  ASSUME BmcInv, pc \in {"less_inc", "linear"}
  PROVE  ProbeAnswers = Models(sys, base \cup {Sometime(sys.bad, Probed)}, i)
<1>1. ProbeAnswers = Models(sys, base \cup Below \cup {Sometime(sys.bad, Probed)}, i)
  BY DEF ProbeAnswers, Below
<1>2. \A f \in Below : f = Sometime(sys.bad, saved+1..i)
  BY DEF BmcInv, ProbeInv
<1>3. Probed \subseteq saved+1..i
  BY ProbedFacts
<1>4. ASSUME NEW m, Satisfies(sys, m, Sometime(sys.bad, Probed)), NEW f \in Below
      PROVE  Satisfies(sys, m, f)
  <2>1. \E t \in saved+1..i : m[t] \in sys.bad
    BY <1>3, <1>4, SatisfiesSometime
  <2>2. Satisfies(sys, m, Sometime(sys.bad, saved+1..i))
    BY <2>1, SatisfiesSometime
  <2> QED BY <1>2, <1>4, <2>2
<1> DEFINE F == {Sometime(sys.bad, Probed)}
<1>5. Sometime(sys.bad, Probed) \in F
  OBVIOUS
<1>6. ProbeAnswers = Models(sys, base \cup Below \cup F, i)
  BY <1>1
<1>7. ASSUME NEW m, \A f \in base \cup F : Satisfies(sys, m, f)
      PROVE  \A f \in base \cup Below \cup F : Satisfies(sys, m, f)
  BY <1>4, <1>5, <1>7
<1> HIDE DEF F
<1>8. Models(sys, base \cup Below \cup F, i) = Models(sys, base \cup F, i)
  BY <1>7 DEF Models
<1> QED BY <1>6, <1>8 DEF F

\* Replacing the top frame leaves those below.
LEMMA ReplaceTopFacts ==
  ASSUME BmcInv, pc \in {"less_inc", "linear"}, ReplaceTop
  PROVE  scopes' \in Seq(SUBSET Formula) /\ scopes' # <<>> /\ Below' = Below
<1>0. Searching
  BY DEF Searching
<1>1. {Sometime(sys.bad, Probed)} \in SUBSET Formula
  BY <1>0, AtSearch, ProbedFacts, SometimeIsFormula
<1>2. scopes' \in Seq(SUBSET Formula) /\ scopes' # <<>> /\ Len(scopes') = Len(scopes)
      /\ \A n \in 1..Len(scopes)-1 : scopes'[n] = scopes[n]
  BY <1>0, <1>1, AtSearch DEF ReplaceTop
<1>3. {scopes'[n] : n \in 1..Len(scopes')-1} = {scopes[n] : n \in 1..Len(scopes)-1}
  BY <1>2
<1> QED BY <1>2, <1>3 DEF Below

LEMMA ProbeSatKeeps ==
  ASSUME BmcInv, ProbeSat
  PROVE  BmcInv'
<1>0. /\ pc \in {"less_inc", "linear"} /\ Searching /\ ReplaceTop
      /\ UNCHANGED <<sys, opt, call, i, base, low, saved, ub>>
  BY DEF ProbeSat, Searching
<1>1. PICK m \in ProbeAnswers :
       IF Probed = {low}
       THEN Report(m, reached) /\ UNCHANGED high
       ELSE high' = FirstBad(m, Probed) /\ UNCHANGED <<pc, reached, verdict, witness>>
  BY DEF ProbeSat
<1>2. /\ m \in [0..i -> State]
      /\ \A f \in base \cup {Sometime(sys.bad, Probed)} : Satisfies(sys, m, f)
  BY <1>0, ProbeAnswersFacts DEF Models
<1>3. BadIn(m, Probed)
  BY <1>2, SatisfiesSometime DEF BadIn
<1>4. PICK h \in Nat : /\ low <= h /\ h <= high /\ Probed = low..h
                       /\ pc = "linear" => h = low
                       /\ Probed \in SUBSET Nat
  BY <1>0, ProbedFacts
<1>5. scopes' \in Seq(SUBSET Formula) /\ scopes' # <<>> /\ Below' = Below
  BY <1>0, ReplaceTopFacts
<1>6. CASE Probed = {low}
  <2>1. m \in Models(sys, base, i) /\ m[low] \in sys.bad
    BY <1>2, <1>3, <1>6 DEF Models, BadIn
  <2> QED BY <1>0, <1>1, <1>5, <1>6, <2>1, SearchReports
<1>7. CASE Probed # {low}
  <2> DEFINE first == FirstBad(m, Probed)
  <2>1. first \in low..h /\ m[first] \in sys.bad
    BY <1>3, <1>4, FirstBadFacts
  <2>2. high' = first /\ UNCHANGED <<pc, reached, verdict, witness>>
    BY <1>1, <1>7
  <2> HIDE DEF first
  <2>3. Searching' /\ BinaryInv'
    BY <1>0, <2>2 DEF Searching, BinaryInv
  <2>4. m \in Models(sys, base \cup {Sometime(sys.bad, low..first)}, i)
    <3>1. first \in low..first
      BY <1>0, <2>1, AtSearch
    <3>2. Satisfies(sys, m, Sometime(sys.bad, low..first))
      BY <2>1, <3>1, SatisfiesSometime
    <3> QED BY <1>2, <3>2, MoreModels
  <2>5. ProbeInv'
    BY <1>0, <1>5, <2>2, <2>4 DEF BmcInv, ProbeInv, Candidates
  <2>6. first \in Nat /\ low <= first /\ first <= i
    BY <1>0, <1>4, <2>1, AtSearch
  <2> QED BY <1>0, <1>5, <2>2, <2>3, <2>5, <2>6, AtSearch, SearchKeeps
<1> QED BY <1>6, <1>7

LEMMA ProbeUnsatKeeps ==
  ASSUME BmcInv, ProbeUnsat
  PROVE  BmcInv'
<1>0. /\ pc \in {"less_inc", "linear"} /\ pc' = pc /\ Searching /\ Searching' /\ ReplaceTop
      /\ reached' = Max(Probed) /\ low' = Max(Probed) + 1
      /\ UNCHANGED <<sys, opt, call, i, base, high, saved, ub, verdict, witness>>
      /\ ProbeAnswers = {}
  BY DEF ProbeUnsat, Searching
<1>1. PICK h \in Nat : /\ low <= h /\ h <= high /\ Probed = low..h /\ Max(Probed) = h
                       /\ Probed \in SUBSET Nat
  BY <1>0, ProbedFacts
<1>2. scopes' \in Seq(SUBSET Formula) /\ scopes' # <<>> /\ Below' = Below
  BY <1>0, ReplaceTopFacts
<1>3. Models(sys, base \cup {Sometime(sys.bad, Probed)}, i) = {}
  BY <1>0, ProbeAnswersFacts
<1>4. PICK m \in Models(sys, base \cup {Sometime(sys.bad, low..high)}, i) : TRUE
  BY <1>0 DEF BmcInv, ProbeInv, Candidates
<1>5. /\ m \in [0..i -> State]
      /\ \A f \in base : Satisfies(sys, m, f)
      /\ Satisfies(sys, m, Sometime(sys.bad, low..high))
  BY <1>4 DEF Models
<1>6. PICK t \in low..high : m[t] \in sys.bad
  BY <1>5, SatisfiesSometime
<1>7. t \notin low..h
  <2> SUFFICES ASSUME t \in low..h PROVE FALSE
    OBVIOUS
  <2>1. Satisfies(sys, m, Sometime(sys.bad, Probed))
    BY <1>1, <1>6, SatisfiesSometime
  <2>2. m \in Models(sys, base \cup {Sometime(sys.bad, Probed)}, i)
    BY <1>5, <2>1 DEF Models
  <2> QED BY <1>3, <2>2
<1>8. t \in h+1..high /\ h < high
  BY <1>0, <1>1, <1>6, <1>7, AtSearch
<1>9. m \in Models(sys, base \cup {Sometime(sys.bad, h+1..high)}, i)
  <2>1. Satisfies(sys, m, Sometime(sys.bad, h+1..high))
    BY <1>6, <1>8, SatisfiesSometime
  <2> QED BY <1>5, <2>1, MoreModels
<1>10. ProbeInv' /\ BinaryInv'
  BY <1>0, <1>1, <1>2, <1>9 DEF BmcInv, ProbeInv, BinaryInv, Candidates
<1>11. ASSUME Exact PROVE \A d \in 0..h : ~HasCex(sys, d)
  <2>1. \A f \in base : IsAssertion(f, i, reached)
    <3> SUFFICES ASSUME NEW f \in base PROVE IsAssertion(f, i, reached)
      OBVIOUS
    <3>1. /\ IsAssertion(f, i, saved) /\ i \in Int /\ i <= i
          /\ saved \in Int /\ reached \in Int /\ saved <= reached
      BY <1>0, AtSearch
    <3> QED BY <3>1, MonotoneAssertion
  <2>2. Probed \in SUBSET (0..i) /\ reached <= i
    BY <1>0, <1>1, AtSearch
  <2>3. \A q : BadIn(q, Probed) => Satisfies(sys, q, Sometime(sys.bad, Probed))
    BY SatisfiesSometime DEF BadIn
  <2>4. \A d \in Probed : ~HasCex(sys, d)
    BY <1>0, <1>3, <1>11, <2>1, <2>2, <2>3, AtSearch, UnsatExcludes
  <2>5. \A d \in 0..h : d \in 0..reached \/ d \in Probed
    BY <1>0, <1>1, AtSearch
  <2> QED BY <1>0, <1>11, <2>4, <2>5, AtSearch
<1>12. h \in Int /\ h >= saved /\ h + 1 \in Nat /\ h + 1 <= high /\ high <= i /\ high \in Nat
  BY <1>0, <1>1, <1>8, AtSearch
<1> QED BY <1>0, <1>1, <1>2, <1>10, <1>11, <1>12, AtSearch, SearchKeeps

LEMMA StutterKeeps ==
  ASSUME BmcInv, UNCHANGED vars
  PROVE  BmcInv'
<1>0. UNCHANGED <<sys, opt, call, pc, i, base, scopes, low, high, saved, ub, reached, verdict, witness>>
  BY DEF vars, search
<1>1. Searching' = Searching /\ Depth' = Depth /\ Settled' = Settled
      /\ Formula' = Formula /\ Below' = Below
  BY <1>0 DEF Searching, Depth, Settled, Formula, Below
<1>2. Answers({})' = Answers({})
  BY <1>0 DEF Answers
<1>3. TypeInv' /\ BaseInv' /\ LoopInv' /\ IntervalInv'
  BY <1>0, <1>1, SetupKept DEF BmcInv, TypeInv, BaseInv, LoopInv, IntervalInv
<1>4. BinaryInv' /\ ProbeInv'
  BY <1>0, <1>1, <1>2 DEF BmcInv, BinaryInv, ProbeInv, Candidates, BadIn
<1>5. ProgressInv' /\ CexIsShortest'
  BY <1>0, SetupKept DEF BmcInv, ProgressInv, CexIsShortest
<1> QED BY <1>3, <1>4, <1>5 DEF BmcInv

----------------------------------------------------------------------------
(* Where check_until stands, the bounds the searches have left, the bounds *)
(* reported so far and the answer agree after every step of every call.    *)
THEOREM BmcInvariant == Spec => []BmcInv
<1>1. BmcInv /\ [Next]_vars => BmcInv'
  BY ReturnKeeps, SkipKeeps, StepUnsatKeeps, StepSatKeeps, BinarySatKeeps,
     BinaryUnsatKeeps, BinaryFailsKeeps, ProbeSatKeeps, ProbeUnsatKeeps,
     StutterKeeps DEF Next
<1> QED BY <1>1, InitInv, PTL DEF Spec

(* CexIsShortest for every system, every setting and any calls: FALSE comes*)
(* with an execution that visits a bad state, and with bounds one by one,  *)
(* or after a search with exact settings, with a shortest counterexample.  *)
THEOREM CexTheorem == Spec => []CexIsShortest
<1>1. BmcInv => CexIsShortest
  BY DEF BmcInv
<1> QED BY <1>1, BmcInvariant, PTL

(* SearchKeepsCex for every system, every setting and any calls: a search  *)
(* that blocks no bound, also one that follows a failed binary search,     *)
(* never runs out of bounds, so its asserts and exceptions are dead code.  *)
THEOREM SearchTheorem == Spec => []SearchKeepsCex
<1>1. BmcInv => SearchKeepsCex
  BY DEF BmcInv, IntervalInv, ProbeInv, Candidates, Searching, SearchKeepsCex
<1> QED BY <1>1, BmcInvariant, PTL

LEMMA ContractWords ==
  /\ \A sy, p, k : Contract!IsCex(sy, p, k) <=> IsCex(sy, p, k)
  /\ \A sy, k : Contract!HasCex(sy, k) <=> HasCex(sy, k)
<1>1. \A sy, p, k : Contract!IsCex(sy, p, k) <=> IsCex(sy, p, k)
  BY DEF Contract!IsCex, IsCex, Contract!IsRun, IsRun, Contract!State, State
<1>2. \A sy, k : Contract!HasCex(sy, k) <=> HasCex(sy, k)
  BY DEF Contract!HasCex, HasCex, Contract!IsCex, IsCex, Contract!IsRun, IsRun,
         Contract!State, State
<1> QED BY <1>1, <1>2

\* A larger bound that is reached is an Advance of the contract.
LEMMA AdvancesContract ==
  ASSUME verdict = "NONE", UNCHANGED <<sys, verdict, witness>>,
         reached \in Int, reached >= -1, reached' \in Nat, reached' > reached,
         \A d \in 0..reached' : ~HasCex(sys, d)
  PROVE  Contract!Next
<1>1. \A d \in reached+1..reached' : d \in 0..reached'
  OBVIOUS
<1>2. \A d \in reached+1..reached' : ~Contract!HasCex(sys, d)
  BY <1>1, ContractWords
<1> QED BY <1>2 DEF Contract!Next, Contract!Advance

LEMMA RefutesContract ==
  ASSUME verdict = "NONE", verdict' = "FALSE", sys' = sys,
         reached \in Int, reached' = reached, IsCex(sys, witness', reached' + 1)
  PROVE  Contract!Next
<1>1. Contract!IsCex(sys, witness', reached' + 1) /\ reached' >= reached
  BY ContractWords
<1> QED BY <1>1 DEF Contract!Next, Contract!Refute

(* KeepsContract for every system and every exact setting: each step is    *)
(* one that ProverContract allows, unless step reports a model of a longer *)
(* interval without a search.                                              *)
THEOREM ContractTheorem == Spec => KeepsContract
<1> DEFINE Kept == Exact /\ ~ReportsUnsearched => Contract!Next
<1>1. ASSUME BmcInv, BmcInv', [Next]_vars
      PROVE  [Kept]_Contract!vars
  <2> SUFFICES ASSUME Exact, ~ReportsUnsearched, Next
               PROVE  Contract!Next \/ UNCHANGED Contract!vars
    BY <1>1 DEF vars, Contract!vars
  <2>1. CASE Return
    <3>1. verdict = "NONE"
      BY <1>1, <2>1, AtLoop DEF Return
    <3> QED BY <2>1, <3>1 DEF Return, Contract!vars, Contract!Next, Contract!GiveUp
  <2>2. CASE Skip
    BY <2>2 DEF Skip, Contract!vars
  <2>3. CASE StepUnsat
    <3>1. /\ verdict = "NONE" /\ UNCHANGED <<sys, verdict, witness>> /\ reached' = i
          /\ reached \in Int /\ reached >= -1 /\ i \in Nat /\ i > reached
      BY <1>1, <2>3, AtLoop DEF StepUnsat
    <3>2. \A d \in 0..i : ~HasCex(sys, d)
      BY <1>1, <2>3, StepExcludes DEF StepUnsat
    <3> QED BY <3>1, <3>2, AdvancesContract
  <2>4. CASE StepSat
    <3>1. pc = "loop" /\ i > reached /\ sys' = sys /\ i \in Nat /\ reached \in Int
          /\ verdict = "NONE"
      BY <1>1, <2>4, AtLoop DEF StepSat
    <3>2. PICK m \in Answers(Unrolled \cup {Clause}) :
            Report(m, i - 1) \/ UNCHANGED <<reached, verdict, witness>>
      BY <2>4 DEF StepSat
    <3>3. CASE Report(m, i - 1)
      <4>1. verdict' = "FALSE" /\ reached' = i - 1
        BY <3>3 DEF Report
      <4>2. i = reached + 1
        BY <3>1, <4>1 DEF ReportsUnsearched
      <4>3. IsCex(sys, witness', reached' + 1)
        BY <1>1, <3>1, <3>3, <4>2, StepReports
      <4>4. reached' = reached
        BY <3>1, <4>1, <4>2
      <4> QED BY <3>1, <4>1, <4>3, <4>4, RefutesContract
    <3>4. CASE UNCHANGED <<reached, verdict, witness>>
      BY <3>1, <3>4 DEF Contract!vars
    <3> QED BY <3>2, <3>3, <3>4
  <2>5. CASE BinarySat \/ BinaryUnsat \/ BinaryFails
    <3>1. pc = "binary" /\ Searching
      BY <2>5 DEF BinarySat, BinaryUnsat, BinaryFails, Searching
    <3> QED BY <1>1, <3>1, AtSearch DEF Exact
  <2>6. CASE ProbeSat
    <3>1. /\ pc \in {"less_inc", "linear"} /\ Searching
          /\ UNCHANGED <<sys, ub>>
      BY <2>6 DEF ProbeSat, Searching
    <3>2. PICK m : Report(m, reached) \/ UNCHANGED <<pc, reached, verdict, witness>>
      BY <2>6 DEF ProbeSat
    <3>3. CASE Report(m, reached)
      <4>1. verdict' = "FALSE" /\ reached' = reached
        BY <3>3 DEF Report
      <4>2. Exact' /\ ub' > 0
        BY <1>1, <2>6, <3>1, AtSearch, SetupKept DEF ProbeSat
      <4>3. IsCex(sys, witness', reached' + 1)
        BY <1>1, <3>1, <4>1, <4>2 DEF BmcInv, CexIsShortest
      <4> QED BY <1>1, <3>1, <4>1, <4>3, AtSearch, RefutesContract
    <3>4. CASE UNCHANGED <<pc, reached, verdict, witness>>
      BY <3>1, <3>4 DEF Contract!vars
    <3> QED BY <3>2, <3>3, <3>4
  <2>7. CASE ProbeUnsat
    <3>1. /\ Searching /\ pc # "done" /\ pc' = pc /\ pc \in {"less_inc", "linear"}
          /\ UNCHANGED <<sys, opt, verdict, witness>> /\ reached' = Max(Probed)
      BY <2>7 DEF ProbeUnsat, Searching
    <3>2. PICK h \in Nat : low <= h /\ Max(Probed) = h
      BY <1>1, <3>1, ProbedFacts
    <3>3. /\ verdict = "NONE" /\ reached \in Int /\ reached >= -1
          /\ reached' \in Nat /\ reached' > reached
      BY <1>1, <3>1, <3>2, AtSearch
    <3>4. \A d \in 0..reached' : ~HasCex(sys, d)
      BY <1>1, <3>1, SetupKept DEF BmcInv, ProgressInv
    <3> QED BY <3>1, <3>3, <3>4, AdvancesContract
  <2> QED BY <2>1, <2>2, <2>3, <2>4, <2>5, <2>6, <2>7 DEF Next
<1> QED BY <1>1, BmcInvariant, PTL DEF Spec, KeepsContract
=============================================================================
