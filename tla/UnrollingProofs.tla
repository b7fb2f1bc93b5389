-------------------------- MODULE UnrollingProofs --------------------------
(***************************************************************************)
(* Facts about executions of a transition system, for any finite or        *)
(* infinite set of states: reachable states are the ends of runs, a total  *)
(* system extends any path, and a shortest counterexample repeats no state.*)
(***************************************************************************)
EXTENDS Unrolling, WellFoundedInduction, TLAPS

----------------------------------------------------------------------------
(* Induction over the naturals, for sets instead of predicates.            *)

LEMMA LeastNat ==
  ASSUME NEW S \in SUBSET Nat, S # {}
  PROVE  \E n \in S : \A m \in S : n <= m
<1>1. IsWellFoundedOn(OpToRel(<, Nat), Nat)
  BY NatLessThanWellFounded
<1>2. PICK n \in S : \A m \in S : ~(<<m, n>> \in OpToRel(<, Nat))
  BY <1>1, WFMin
<1>3. OpToRel(<, Nat) = {ss \in Nat \X Nat : ss[1] < ss[2]}
  BY DEF OpToRel
<1>4. ASSUME NEW m \in S PROVE n <= m
  <2>1. ~(<<m, n>> \in {ss \in Nat \X Nat : ss[1] < ss[2]})
    BY <1>2, <1>3, Zenon
  <2>2. <<m, n>> \in Nat \X Nat
    OBVIOUS
  <2>3. ~(<<m, n>>[1] < <<m, n>>[2])
    BY <2>1, <2>2, Zenon
  <2>4. ~(m < n)
    BY <2>3, Zenon
  <2> QED BY <2>4
<1> QED BY <1>4

LEMMA NatSetInduction ==
  ASSUME NEW S \in SUBSET Nat, 0 \in S, \A n \in S : n + 1 \in S
  PROVE  S = Nat
<1>1. SUFFICES ASSUME S # Nat PROVE FALSE
  OBVIOUS
<1>2. PICK n \in Nat \ S : \A m \in Nat \ S : n <= m
  BY <1>1, LeastNat
<1>3. n # 0
  OBVIOUS
<1>4. n - 1 \in S
  BY <1>2, <1>3
<1> QED BY <1>4

----------------------------------------------------------------------------
(* Reachable is the least closed set.                                      *)

LEMMA ReachableIsClosed ==
  ASSUME NEW sy \in SystemType
  PROVE  /\ Reachable(sy) \subseteq State
         /\ sy.init \subseteq Reachable(sy)
         /\ \A s \in Reachable(sy), t \in State :
              <<s, t>> \in sy.trans => t \in Reachable(sy)
<1>1. sy.init \subseteq State
  BY DEF SystemType
<1>2. sy.init \subseteq Reachable(sy)
  BY <1>1 DEF Reachable, Closed
<1>3. ASSUME NEW s \in Reachable(sy), NEW t \in State, <<s, t>> \in sy.trans
      PROVE  t \in Reachable(sy)
  <2> SUFFICES ASSUME NEW S \in SUBSET State, Closed(sy, S) PROVE t \in S
    BY DEF Reachable
  <2>1. s \in S
    BY <1>3 DEF Reachable
  <2>2. <<s, t>>[1] \in S => <<s, t>>[2] \in S
    BY <1>3 DEF Closed
  <2> QED BY <2>1, <2>2
<1> QED BY <1>2, <1>3 DEF Reachable

LEMMA ReachableIsLeast ==
  ASSUME NEW sy \in SystemType, NEW S \in SUBSET State,
         sy.init \subseteq S,
         \A s \in S, t \in State : <<s, t>> \in sy.trans => t \in S
  PROVE  Reachable(sy) \subseteq S
<1>1. \A p \in sy.trans : p \in State \X State /\ p = <<p[1], p[2]>>
  BY DEF SystemType
<1>2. Closed(sy, S)
  BY <1>1 DEF Closed
<1> QED BY <1>2 DEF Reachable

----------------------------------------------------------------------------
(* Walks: paths that start in a reachable state.                           *)

IsWalk(sy, p, n) ==
  /\ p \in [0..n -> State]
  /\ p[0] \in Reachable(sy)
  /\ \A t \in 0..n-1 : <<p[t], p[t+1]>> \in sy.trans

LEMMA WalkStaysReachable ==
  ASSUME NEW sy \in SystemType, NEW n \in Nat, NEW p, IsWalk(sy, p, n)
  PROVE  \A t \in 0..n : p[t] \in Reachable(sy)
<1> DEFINE S == {t \in Nat : t <= n => p[t] \in Reachable(sy)}
<1>1. 0 \in S
  BY DEF IsWalk
<1>2. ASSUME NEW t \in S PROVE t + 1 \in S
  <2>1. CASE t + 1 <= n
    <3>1. t \in 0..n-1 /\ t + 1 \in 0..n
      BY <2>1
    <3>2. <<p[t], p[t+1]>> \in sy.trans /\ p[t+1] \in State
      BY <3>1 DEF IsWalk
    <3>3. p[t] \in Reachable(sy)
      BY <2>1
    <3> QED BY <3>2, <3>3, ReachableIsClosed
  <2>2. CASE ~(t + 1 <= n)
    BY <2>2
  <2> QED BY <2>1, <2>2
<1>3. S = Nat
  <2> HIDE DEF S
  <2>1. S \in SUBSET Nat
    BY DEF S
  <2> QED BY <1>1, <1>2, <2>1, NatSetInduction
<1> QED BY <1>3

LEMMA RunIsWalk ==
  ASSUME NEW sy \in SystemType, NEW n \in Nat, NEW p, IsRun(sy, p, n)
  PROVE  IsWalk(sy, p, n)
BY ReachableIsClosed DEF IsRun, IsWalk

\* A walk of n steps extended in front by one transition.
LEMMA WalkFromPredecessor ==
  ASSUME NEW sy \in SystemType, NEW n \in Nat, NEW q, IsWalk(sy, q, n),
         NEW s \in Reachable(sy), <<s, q[0]>> \in sy.trans
  PROVE  \E p : IsWalk(sy, p, n+1) /\ p[0] = s /\ p[1] = q[0]
<1> DEFINE p == [j \in 0..n+1 |-> IF j = 0 THEN s ELSE q[j-1]]
<1>1. p \in [0..n+1 -> State]
  <2>1. \A j \in 0..n+1 : j # 0 => j - 1 \in 0..n
    OBVIOUS
  <2> QED BY <2>1, ReachableIsClosed DEF IsWalk
<1>2. p[0] = s /\ p[1] = q[0]
  OBVIOUS
<1>3. ASSUME NEW t \in 0..(n+1)-1 PROVE <<p[t], p[t+1]>> \in sy.trans
  <2>1. CASE t = 0
    BY <2>1, <1>2
  <2>2. CASE t # 0
    <3>1. t - 1 \in 0..n-1 /\ (t + 1) - 1 = (t - 1) + 1
      BY <2>2
    <3>2. p[t] = q[t-1] /\ p[t+1] = q[(t-1)+1]
      BY <2>2, <3>1
    <3> QED BY <3>1, <3>2 DEF IsWalk
  <2> QED BY <2>1, <2>2
<1> HIDE DEF p
<1>4. IsWalk(sy, p, n+1)
  BY <1>1, <1>2, <1>3 DEF IsWalk
<1> QED BY <1>2, <1>4

\* In a total system every reachable state starts a walk of any length.
LEMMA WalkExists ==
  ASSUME NEW sy \in SystemType, Total(sy), NEW n \in Nat
  PROVE  \A s \in Reachable(sy) : \E p : IsWalk(sy, p, n) /\ p[0] = s
<1> DEFINE S == {m \in Nat : \A s \in Reachable(sy) : \E p : IsWalk(sy, p, m) /\ p[0] = s}
<1>1. 0 \in S
  <2> SUFFICES ASSUME NEW s \in Reachable(sy) PROVE \E p : IsWalk(sy, p, 0) /\ p[0] = s
    OBVIOUS
  <2>1. IsWalk(sy, [j \in 0..0 |-> s], 0)
    BY ReachableIsClosed DEF IsWalk
  <2> QED BY <2>1
<1>2. ASSUME NEW m \in S PROVE m + 1 \in S
  <2> SUFFICES ASSUME NEW s \in Reachable(sy)
               PROVE  \E p : IsWalk(sy, p, m+1) /\ p[0] = s
    OBVIOUS
  <2>1. PICK t \in State : <<s, t>> \in sy.trans
    BY DEF Total
  <2>2. t \in Reachable(sy)
    BY <2>1, ReachableIsClosed
  <2>3. PICK q : IsWalk(sy, q, m) /\ q[0] = t
    BY <2>2
  <2> QED BY <2>1, <2>3, WalkFromPredecessor
<1>3. S = Nat
  <2> HIDE DEF S
  <2>1. S \in SUBSET Nat
    BY DEF S
  <2> QED BY <1>1, <1>2, <2>1, NatSetInduction
<1> QED BY <1>3

----------------------------------------------------------------------------
(* Runs and shortest counterexamples.                                      *)

LEMMA ReachableEndsRun ==
  ASSUME NEW sy \in SystemType, NEW s \in Reachable(sy)
  PROVE  \E n \in Nat : \E p : IsRun(sy, p, n) /\ p[n] = s
<1> DEFINE S == {u \in State : \E n \in Nat : \E p : IsRun(sy, p, n) /\ p[n] = u}
<1>1. ASSUME NEW u \in sy.init PROVE u \in S
  <2>1. u \in State
    BY DEF SystemType
  <2>2. IsRun(sy, [j \in 0..0 |-> u], 0)
    BY <2>1 DEF IsRun
  <2> QED BY <2>1, <2>2
<1>2. ASSUME NEW u \in S, NEW t \in State, <<u, t>> \in sy.trans PROVE t \in S
  <2>1. PICK n \in Nat : \E p : IsRun(sy, p, n) /\ p[n] = u
    OBVIOUS
  <2>2. PICK p : IsRun(sy, p, n) /\ p[n] = u
    BY <2>1
  <2> DEFINE q == [j \in 0..n+1 |-> IF j <= n THEN p[j] ELSE t]
  <2>3. q \in [0..n+1 -> State]
    BY <2>2 DEF IsRun
  <2>4. q[0] \in sy.init
    BY <2>2 DEF IsRun
  <2>5. q[n+1] = t
    OBVIOUS
  <2>6. ASSUME NEW j \in 0..(n+1)-1 PROVE <<q[j], q[j+1]>> \in sy.trans
    <3>1. CASE j = n
      BY <3>1, <1>2, <2>2
    <3>2. CASE j # n
      <4>1. j \in 0..n-1 /\ q[j] = p[j] /\ q[j+1] = p[j+1]
        BY <3>2
      <4> QED BY <4>1, <2>2 DEF IsRun
    <3> QED BY <3>1, <3>2
  <2> HIDE DEF q
  <2>7. IsRun(sy, q, n+1)
    BY <2>3, <2>4, <2>6 DEF IsRun
  <2> QED BY <2>5, <2>7
<1>3. Reachable(sy) \subseteq S
  <2> HIDE DEF S
  <2>1. S \in SUBSET State
    BY DEF S
  <2>2. sy.init \subseteq S
    BY <1>1
  <2>3. \A u \in S, t \in State : <<u, t>> \in sy.trans => t \in S
    BY <1>2
  <2> QED BY <2>1, <2>2, <2>3, ReachableIsLeast
<1> QED BY <1>3

LEMMA ShortestCexExists ==
  ASSUME NEW sy \in SystemType, ~Safe(sy)
  PROVE  \E n \in Nat : HasCex(sy, n) /\ \A m \in Nat : HasCex(sy, m) => n <= m
<1> DEFINE S == {n \in Nat : HasCex(sy, n)}
<1>1. PICK s \in Reachable(sy) : s \in sy.bad
  BY DEF Safe
<1>2. PICK n \in Nat : \E p : IsRun(sy, p, n) /\ p[n] = s
  BY ReachableEndsRun
<1>3. PICK p : IsRun(sy, p, n) /\ p[n] = s
  BY <1>2
<1>4. HasCex(sy, n)
  BY <1>1, <1>3 DEF HasCex, IsCex, IsRun
<1>5. S # {} /\ S \in SUBSET Nat
  BY <1>4
<1>6. PICK m \in S : \A k \in S : m <= k
  <2> HIDE DEF S
  <2> QED BY <1>5, LeastNat
<1> QED BY <1>6

\* The beginning of an execution is one.
LEMMA RunPrefix ==
  ASSUME NEW sy, NEW n \in Nat, NEW p, IsRun(sy, p, n), NEW k \in 0..n
  PROVE  IsRun(sy, [t \in 0..k |-> p[t]], k)
<1>1. \A t \in 0..k-1 : t \in 0..n-1 /\ t \in 0..k /\ t+1 \in 0..k
  OBVIOUS
<1>2. 0 \in 0..k /\ \A t \in 0..k : t \in 0..n
  OBVIOUS
<1> QED BY <1>1, <1>2 DEF IsRun

\* On a total transition relation an execution goes on.
LEMMA RunExtends ==
  ASSUME NEW sy \in SystemType, Total(sy), NEW d \in Nat, NEW k \in Nat, d <= k,
         NEW p, IsRun(sy, p, d)
  PROVE  \E q : IsRun(sy, q, k) /\ \A t \in 0..d : q[t] = p[t]
<1>1. /\ p \in [0..d -> State] /\ p[0] \in sy.init
      /\ \A t \in 0..d-1 : <<p[t], p[t+1]>> \in sy.trans
  BY DEF IsRun
<1>2. p[d] \in Reachable(sy) /\ k-d \in Nat
  BY RunIsWalk, WalkStaysReachable
<1>3. PICK w : IsWalk(sy, w, k-d) /\ w[0] = p[d]
  BY <1>2, WalkExists
<1> DEFINE q == [t \in 0..k |-> IF t <= d THEN p[t] ELSE w[t-d]]
<1>4. /\ \A t \in 0..d : t \in 0..k /\ q[t] = p[t]
      /\ \A t \in d..k : t \in 0..k /\ t-d \in 0..k-d /\ q[t] = w[t-d]
  BY <1>3
<1> HIDE DEF q
<1>5. q \in [0..k -> State]
  <2>1. w \in [0..k-d -> State] /\ \A t \in 0..k : t > d => t-d \in 0..k-d
    BY <1>3 DEF IsWalk
  <2> QED BY <1>1, <2>1 DEF q
<1>6. ASSUME NEW t \in 0..k-1 PROVE <<q[t], q[t+1]>> \in sy.trans
  <2>1. CASE t < d
    <3>1. t \in 0..d-1 /\ t \in 0..d /\ t+1 \in 0..d
      BY <2>1
    <3> QED BY <1>1, <1>4, <3>1
  <2>2. CASE t >= d
    <3>1. t \in d..k /\ t+1 \in d..k /\ t-d \in 0..(k-d)-1 /\ (t+1)-d = (t-d)+1
      BY <2>2
    <3> QED BY <1>3, <1>4, <3>1 DEF IsWalk
  <2> QED BY <2>1, <2>2
<1>7. q[0] \in sy.init
  BY <1>1, <1>4
<1> QED BY <1>4, <1>5, <1>6, <1>7 DEF IsRun

\* A counterexample that can jump from before a to b has a shorter one.
LEMMA CexCut ==
  ASSUME NEW sy \in SystemType, NEW n \in Nat, NEW p, IsCex(sy, p, n),
         NEW a \in 0..n, NEW b \in 0..n, a < b,
         IF a = 0 THEN p[b] \in sy.init ELSE <<p[a-1], p[b]>> \in sy.trans
  PROVE  HasCex(sy, n - (b - a))
<1> DEFINE d == b - a
           m == n - d
           q == [j \in 0..m |-> IF j < a THEN p[j] ELSE p[j+d]]
<1>1. d \in Nat /\ d > 0 /\ m \in Nat /\ a <= m
  OBVIOUS
<1>2. p \in [0..n -> State] /\ p[0] \in sy.init /\ p[n] \in sy.bad
      /\ \A t \in 0..n-1 : <<p[t], p[t+1]>> \in sy.trans
  BY DEF IsCex, IsRun
<1>3. q \in [0..m -> State]
  <2>1. \A j \in 0..m : j \in 0..n /\ j + d \in 0..n
    BY <1>1
  <2> QED BY <1>2, <2>1
<1>4. q[0] \in sy.init
  BY <1>1, <1>2
<1>5. q[m] \in sy.bad
  <2>1. ~(m < a) /\ m + d = n /\ m \in 0..m
    BY <1>1
  <2> QED BY <1>2, <2>1
<1>6. ASSUME NEW t \in 0..m-1 PROVE <<q[t], q[t+1]>> \in sy.trans
  <2>0. t \in 0..m /\ t + 1 \in 0..m /\ t \in 0..n-1 /\ t + d \in 0..n-1 /\ (t + 1) + d = (t + d) + 1
    BY <1>1
  <2>1. CASE t + 1 < a
    <3>1. q[t] = p[t] /\ q[t+1] = p[t+1]
      BY <2>0, <2>1
    <3> QED BY <1>2, <2>0, <3>1
  <2>2. CASE t + 1 = a
    <3>1. q[t] = p[a-1] /\ q[t+1] = p[b] /\ a # 0
      BY <2>0, <2>2
    <3> QED BY <3>1
  <2>3. CASE ~(t + 1 <= a)
    <3>1. q[t] = p[t+d] /\ q[t+1] = p[(t+d)+1]
      BY <2>0, <2>3
    <3> QED BY <1>2, <2>0, <3>1
  <2> QED BY <2>0, <2>1, <2>2, <2>3
<1> HIDE DEF q
<1>7. IsCex(sy, q, m)
  BY <1>3, <1>4, <1>5, <1>6 DEF IsCex, IsRun
<1> QED BY <1>3, <1>7 DEF HasCex

----------------------------------------------------------------------------
(* What a path must satisfy to be a model of an engine's assertions.       *)

LEMMA StatesDiffer ==
  ASSUME NEW u \in State, NEW w \in State, u # w
  PROVE  \E v \in Vars : u[v] # w[v]
<1> SUFFICES ASSUME \A v \in Vars : u[v] = w[v] PROVE u = w
  OBVIOUS
<1>1. u = [v \in Vars |-> u[v]] /\ w = [v \in Vars |-> w[v]]
  BY DEF State
<1> QED BY <1>1

LEMMA SatisfiesAt ==
  ASSUME NEW sy, NEW m, NEW S, NEW t
  PROVE  Satisfies(sy, m, At(S, t)) <=> m[t] \in S
BY DEF Satisfies, At

LEMMA SatisfiesTrans ==
  ASSUME NEW sy, NEW m, NEW t
  PROVE  Satisfies(sy, m, TransAt(t)) <=> <<m[t], m[t+1]>> \in sy.trans
BY DEF Satisfies, TransAt

LEMMA SatisfiesDiffer ==
  ASSUME NEW sy, NEW m, NEW V, NEW a, NEW b
  PROVE  Satisfies(sy, m, Differ(V, a, b)) <=> \E v \in V : m[a][v] # m[b][v]
BY DEF Satisfies, Differ

LEMMA SatisfiesSometime ==
  ASSUME NEW sy, NEW m, NEW S, NEW I
  PROVE  Satisfies(sy, m, Sometime(S, I)) <=> \E t \in I : m[t] \in S
BY DEF Satisfies, Sometime

----------------------------------------------------------------------------
(* Shortest counterexamples: what they never do, whatever the engine.      *)

\* The last k steps of a path of n steps.
Window(p, n, k) == [t \in 0..k |-> p[n-k+t]]

\* A shortest counterexample never visits a state twice, up to variables
\* without update.
LEMMA ShortestCexIsSimple ==
  ASSUME NEW sy \in SystemType, ConstraintsEverywhere(sy), NoUpdateIsFree(sy),
         NEW n \in Nat, NEW p, IsCex(sy, p, n),
         \A m \in Nat : HasCex(sy, m) => n <= m,
         NEW a \in 1..n, NEW b \in 1..n, a < b
  PROVE  ~Agree(Vars \ sy.noupd, p[a], p[b])
<1> SUFFICES ASSUME Agree(Vars \ sy.noupd, p[a], p[b]) PROVE FALSE
  OBVIOUS
<1>1. IsRun(sy, p, n)
  BY DEF IsCex
<1>2. p[b] \in sy.constr
  BY <1>1, RunIsWalk, WalkStaysReachable DEF ConstraintsEverywhere
<1>3. <<p[a-1], p[a]>> \in sy.trans
  <2>1. a - 1 \in 0..n-1 /\ (a - 1) + 1 = a
    OBVIOUS
  <2> QED BY <1>1, <2>1 DEF IsRun
<1>4. <<p[a-1], p[b]>> \in sy.trans
  <2>1. <<p[a-1], p[a]>>[2] = p[a] /\ <<p[a-1], p[a]>>[1] = p[a-1]
    OBVIOUS
  <2> QED BY <1>2, <1>3, <2>1, Zenon DEF NoUpdateIsFree
<1>5. a \in 0..n /\ b \in 0..n /\ a # 0
  OBVIOUS
<1>6. HasCex(sy, n - (b - a))
  BY <1>4, <1>5, CexCut
<1>7. n - (b - a) \in Nat /\ ~(n <= n - (b - a))
  OBVIOUS
<1> QED BY <1>6, <1>7

LEMMA WindowIsWalk ==
  ASSUME NEW sy \in SystemType, NEW n \in Nat, NEW p, IsRun(sy, p, n),
         NEW k \in 0..n
  PROVE  IsWalk(sy, Window(p, n, k), k)
<1>1. \A t \in 0..k : n - k + t \in 0..n
  OBVIOUS
<1>2. \A t \in 0..n : p[t] \in Reachable(sy) /\ p[t] \in State
  BY RunIsWalk, WalkStaysReachable, ReachableIsClosed
<1>3. Window(p, n, k) \in [0..k -> State] /\ Window(p, n, k)[0] \in Reachable(sy)
  BY <1>1, <1>2 DEF Window
<1>4. ASSUME NEW t \in 0..k-1
      PROVE  <<Window(p, n, k)[t], Window(p, n, k)[t+1]>> \in sy.trans
  <2>1. n - k + t \in 0..n-1 /\ n - k + (t + 1) = (n - k + t) + 1 /\ t \in 0..k /\ t + 1 \in 0..k
    OBVIOUS
  <2>2. Window(p, n, k)[t] = p[n-k+t] /\ Window(p, n, k)[t+1] = p[(n-k+t)+1]
    BY <2>1 DEF Window
  <2> QED BY <2>1, <2>2 DEF IsRun
<1> QED BY <1>3, <1>4 DEF IsWalk

IsShortest(sy, p, n) ==
  IsCex(sy, p, n) /\ \A m \in Nat : HasCex(sy, m) => n <= m

\* The first l steps of a counterexample do not end in a bad state.
LEMMA ShortestEndsFirst ==
  ASSUME NEW sy \in SystemType, NEW n \in Nat, NEW p, IsShortest(sy, p, n),
         NEW l \in 0..n-1
  PROVE  p[l] \notin sy.bad
<1> SUFFICES ASSUME p[l] \in sy.bad PROVE FALSE
  OBVIOUS
<1> DEFINE q == [t \in 0..l |-> p[t]]
<1>0. p \in [0..n -> State] /\ p[0] \in sy.init
      /\ \A t \in 0..n-1 : <<p[t], p[t+1]>> \in sy.trans
  BY DEF IsShortest, IsCex, IsRun
<1>1. q \in [0..l -> State] /\ q[0] = p[0] /\ q[l] = p[l]
  BY <1>0
<1>2. \A t \in 0..l-1 : q[t] = p[t] /\ q[t+1] = p[t+1] /\ t \in 0..n-1
  OBVIOUS
<1>3. IsCex(sy, q, l)
  BY <1>0, <1>1, <1>2 DEF IsCex, IsRun
<1>4. l \in Nat /\ ~(n <= l)
  OBVIOUS
<1> QED BY <1>1, <1>3, <1>4 DEF HasCex, IsShortest

\* A shortest counterexample does not come back to an initial state.
LEMMA ShortestLeavesInit ==
  ASSUME NEW sy \in SystemType, NEW n \in Nat, NEW p, IsShortest(sy, p, n),
         NEW b \in 1..n
  PROVE  p[b] \notin sy.init
<1> SUFFICES ASSUME p[b] \in sy.init PROVE FALSE
  OBVIOUS
<1>1. 0 \in 0..n /\ b \in 0..n /\ 0 < b /\ n - (b - 0) \in Nat /\ ~(n <= n - (b - 0))
  OBVIOUS
<1>2. HasCex(sy, n - (b - 0))
  BY <1>1, CexCut DEF IsShortest
<1> QED BY <1>1, <1>2 DEF IsShortest

----------------------------------------------------------------------------
(* What sets of states say of executions: those of ReachSequence.          *)

\* Each transition leads from one set into the next, and the last avoids bad.
LEMMA SetsExclude ==
  ASSUME NEW sy, NEW seq, NEW k \in Nat, sy.init \subseteq seq[1],
         \A n \in 1..k, p \in sy.trans : p[1] \in seq[n] => p[2] \in seq[n+1],
         seq[k+1] \cap sy.bad = {}
  PROVE  ~HasCex(sy, k)
<1> SUFFICES ASSUME NEW p, IsCex(sy, p, k) PROVE FALSE
  BY DEF HasCex
<1> DEFINE S == {t \in Nat : t <= k => p[t] \in seq[t+1]}
<1>1. 0 \in S
  BY DEF IsCex, IsRun
<1>2. ASSUME NEW t \in S PROVE t + 1 \in S
  <2> SUFFICES ASSUME t + 1 <= k PROVE p[t+1] \in seq[(t+1)+1]
    OBVIOUS
  <2>1. t \in 0..k-1 /\ t + 1 \in 1..k
    OBVIOUS
  <2> DEFINE q == <<p[t], p[t+1]>>
  <2>2. q \in sy.trans /\ q[1] \in seq[t+1] /\ q[2] = p[t+1]
    BY <2>1 DEF IsCex, IsRun
  <2> HIDE DEF q
  <2> QED BY <2>1, <2>2
<1>3. S = Nat
  <2> HIDE DEF S
  <2>1. S \in SUBSET Nat
    BY DEF S
  <2> QED BY <1>1, <1>2, <2>1, NatSetInduction
<1>4. p[k] \in seq[k+1] /\ p[k] \in sy.bad
  BY <1>3 DEF IsCex
<1> QED BY <1>4

\* A closed set avoids bad.
LEMMA ClosedIsSafe ==
  ASSUME NEW sy, NEW S \in SUBSET State, Closed(sy, S), S \cap sy.bad = {}
  PROVE  Safe(sy)
BY DEF Safe, Reachable
=============================================================================
