---------------------------- MODULE CegarProofs -----------------------------
(***************************************************************************)
(* What the refinement loops of the CEGAR engines keep.                    *)
(*                                                                         *)
(* CegProphecyArrays: for all finite sorts and systems, no axiom and no    *)
(* prophecy variable excludes an execution of the concrete system, once    *)
(* the prophesied values are guessed right.                                *)
(*                                                                         *)
(* CegarOpsUf and CegarValues, under OfTerms!: for every operator, all     *)
(* finite sets of states and inputs and every choice of cores and          *)
(* witnesses, no equality they add excludes an execution of the concrete   *)
(* system, and where all of them hold there is nothing else.               *)
(***************************************************************************)
EXTENDS CegProphecyArrays, SequencesExt, FiniteSetTheorems, TLAPS

\* The loop over terms has a system, terms and variables of its own.
CONSTANTS State, Val, Op, OpTerm, OpSystems
VARIABLES tsys, tpc, equalities, treached, answer, witness
OfTerms == INSTANCE CegarTerms WITH
  Term <- OpTerm, Systems <- OpSystems,
  sys <- tsys, pc <- tpc, axioms <- equalities, reached <- treached, verdict <- answer

\* For what it proves about natural numbers.
Naturals_ == INSTANCE UnrollingProofs WITH Vars <- {}, Vals <- {}

----------------------------------------------------------------------------
(* Iteration: what the functions that are defined by recursion over the    *)
(* length of a path are.                                                   *)

\* f is A, G[A], G[G[A]] ... up to the nth.
Iterates(f, U, A, G, n) == f \in [0..n -> U] /\ \A m \in 0..n : f[m] = IF m = 0 THEN A ELSE G[f[m-1]]

LEMMA IterationExists ==
  ASSUME NEW U, NEW A \in U, NEW G \in [U -> U], NEW n \in Nat
  PROVE  \E f : Iterates(f, U, A, G, n)
<1> DEFINE Good(k) == \E f \in [0..k -> U] : \A m \in 0..k : f[m] = IF m = 0 THEN A ELSE G[f[m-1]]
           T == {k \in Nat : Good(k)}
<1>1. 0 \in T
  <2>1. [m \in 0..0 |-> A] \in [0..0 -> U] /\ \A m \in 0..0 : m = 0
    OBVIOUS
  <2> QED BY <2>1
<1>2. ASSUME NEW k \in T PROVE k + 1 \in T
  <2>1. PICK f \in [0..k -> U] : \A m \in 0..k : f[m] = IF m = 0 THEN A ELSE G[f[m-1]]
    OBVIOUS
  <2> DEFINE h == [m \in 0..k+1 |-> IF m = k + 1 THEN G[f[k]] ELSE f[m]]
  <2>2. h \in [0..k+1 -> U]
    OBVIOUS
  <2>3. ASSUME NEW m \in 0..k+1 PROVE h[m] = IF m = 0 THEN A ELSE G[h[m-1]]
    <3>1. CASE m = k + 1
      BY <3>1
    <3>2. CASE m # k + 1
      <4>1. m \in 0..k /\ m - 1 # k + 1 /\ (m # 0 => m - 1 \in 0..k+1)
        BY <3>2
      <4>2. h[m] = f[m] /\ (m # 0 => h[m-1] = f[m-1])
        BY <3>2, <4>1
      <4> QED BY <2>1, <4>1, <4>2
    <3> QED BY <3>1, <3>2
  <2> HIDE DEF h
  <2> QED BY <2>2, <2>3
<1>3. T = Nat
  <2> HIDE DEF Good
  <2>1. T \in SUBSET Nat
    OBVIOUS
  <2> HIDE DEF T
  <2> QED BY <1>1, <1>2, <2>1, Naturals_!NatSetInduction
<1> QED BY <1>3 DEF Iterates

----------------------------------------------------------------------------
LEMMA MaxFacts ==
  ASSUME NEW N \in Nat, NEW S \in SUBSET (0..N), S # {}
  PROVE  Max(S) \in S /\ \A y \in S : y <= Max(S)
<1> DEFINE U == {m \in Nat : \A y \in S : y <= m}
<1>1. U \in SUBSET Nat /\ N \in U
  OBVIOUS
<1>2. PICK m \in U : \A k \in U : m <= k
  BY <1>1, Naturals_!LeastNat
<1>3. m \in S
  <2> SUFFICES ASSUME m \notin S PROVE FALSE
    OBVIOUS
  <2>1. PICK y \in S : TRUE
    OBVIOUS
  <2>2. \A z \in S : z \in Nat /\ z <= m /\ z # m
    OBVIOUS
  <2>3. m - 1 \in Nat /\ \A z \in S : z <= m - 1
    BY <2>1, <2>2
  <2>4. m - 1 \in U
    BY <2>3
  <2> QED BY <1>2, <2>4
<1>4. \E x \in S : \A y \in S : x >= y
  BY <1>3
<1> HIDE DEF U
<1>5. Max(S) \in S /\ \A y \in S : Max(S) >= y
  BY <1>4 DEF Max
<1> QED BY <1>5

\* Prophecy variables are for terms at a time.
Prophesied(Q) == \E N \in Nat : Q \subseteq Terms \X (0..N)

LEMMA DepthFacts ==
  ASSUME NEW Q, Prophesied(Q), NEW t
  PROVE  Depth(Q, t) \in Nat /\ \A q \in Q : q[1] = t => q[2] <= Depth(Q, t)
<1> DEFINE S == {0} \cup {q[2] : q \in {u \in Q : u[1] = t}}
<1>1. PICK N \in Nat : Q \subseteq Terms \X (0..N)
  BY DEF Prophesied
<1>2. S \in SUBSET (0..N) /\ S # {} /\ \A y \in S : y \in Nat
  BY <1>1
<1>3. \A q \in Q : q[1] = t => q[2] \in S
  OBVIOUS
<1> HIDE DEF S
<1>4. Max(S) \in S /\ \A y \in S : y <= Max(S)
  BY <1>2, MaxFacts
<1>5. Depth(Q, t) = Max(S)
  BY DEF Depth, S
<1>6. Max(S) \in Nat /\ \A q \in Q : q[1] = t => q[2] <= Max(S)
  <2> HIDE DEF Max
  <2> QED BY <1>2, <1>3, <1>4
<1> QED BY <1>5, <1>6

----------------------------------------------------------------------------
\* The history variables.
Recent(Q) == UNION {{t} \X (1..Depth(Q, t)) : t \in Terms}

LEMMA RecentFacts ==
  ASSUME NEW Q, Prophesied(Q)
  PROVE  /\ \A v : v \in Recent(Q) <=> \E t \in Terms : \E d \in 1..Depth(Q, t) : v = <<t, d>>
         /\ \A t \in Terms : \A d \in 1..Depth(Q, t) : d # 1 => <<t, d - 1>> \in Recent(Q)
         /\ \A q \in Q : q[1] \in Terms /\ q[2] \in Nat /\ q = <<q[1], q[2]>> /\ (q[2] # 0 => q \in Recent(Q))
<1>1. \A v : v \in Recent(Q) <=> \E t \in Terms : \E d \in 1..Depth(Q, t) : v = <<t, d>>
  BY DEF Recent
<1>2. ASSUME NEW t \in Terms, NEW d \in 1..Depth(Q, t), d # 1 PROVE <<t, d - 1>> \in Recent(Q)
  <2>1. d - 1 \in 1..Depth(Q, t)
    BY <1>2, DepthFacts
  <2> QED BY <1>1, <2>1
<1>3. ASSUME NEW q \in Q PROVE q[1] \in Terms /\ q[2] \in Nat /\ q = <<q[1], q[2]>> /\ (q[2] # 0 => q \in Recent(Q))
  <2>1. PICK N \in Nat : Q \subseteq Terms \X (0..N)
    BY DEF Prophesied
  <2>2. q[1] \in Terms /\ q[2] \in Nat /\ q = <<q[1], q[2]>>
    BY <2>1
  <2>3. q[2] <= Depth(Q, q[1]) /\ Depth(Q, q[1]) \in Nat
    BY DepthFacts
  <2>4. q[2] # 0 => q[2] \in 1..Depth(Q, q[1])
    BY <2>2, <2>3
  <2> QED BY <1>1, <2>2, <2>4
<1> QED BY <1>1, <1>2, <1>3

\* The states of the abstract system.
Config(Q) ==
  [r : Reg, a : Table, x : Index, h : [Recent(Q) -> Index], p : [Q -> Index], v : SUBSET Index, first : BOOLEAN]

LEMMA TermAtType ==
  ASSUME sys \in SystemType, NEW Q, NEW c \in Config(Q), NEW i \in Input, NEW t \in Terms
  PROVE  TermAt(t, c, i) \in Index
<1>1. c.x \in Index /\ c.r \in Reg
  BY DEF Config
<1>2. t # Wit => t \in Term
  BY DEF Terms
<1>3. t # Wit => sys.index[t] \in [Reg \X Input -> Index]
  BY <1>2 DEF SystemType
<1> QED BY <1>1, <1>3 DEF TermAt

LEMMA StepsAreConfigs ==
  ASSUME sys \in SystemType, NEW Q, Prophesied(Q), NEW c \in Config(Q), NEW i \in Input, NEW S
  PROVE  StepsUnder(c, i, S) \subseteq Config(Q)
<1> SUFFICES ASSUME NEW d \in StepsUnder(c, i, S) PROVE d \in Config(Q)
  OBVIOUS
<1>1. /\ c.x \in Index /\ c.h \in [Recent(Q) -> Index] /\ c.p \in [Q -> Index] /\ c.v \in SUBSET Index
  BY DEF Config
<1>2. Recorded(c, i) \in [Recent(Q) -> Index]
  <2>1. DOMAIN c.h = Recent(Q)
    BY <1>1
  <2>2. ASSUME NEW v \in Recent(Q)
        PROVE  (IF v[2] = 1 THEN TermAt(v[1], c, i) ELSE c.h[<<v[1], v[2] - 1>>]) \in Index
    <3>0. PICK t \in Terms : \E m \in 1..Depth(Q, t) : v = <<t, m>>
      BY RecentFacts
    <3>1. PICK m \in 1..Depth(Q, t) : v = <<t, m>>
      BY <3>0
    <3>2. TermAt(t, c, i) \in Index
      BY TermAtType
    <3>3. m # 1 => c.h[<<t, m - 1>>] \in Index
      BY <1>1, RecentFacts
    <3> QED BY <3>1, <3>2, <3>3
  <2> QED BY <2>1, <2>2 DEF Recorded
<1>3. DEFINE R == {r \in Reg : <<c.r, i, c.a[TermAt(sys.read, c, i)], r>> \in sys.step}
             A == UNION {{a \in Table : \A n \in Index : a[n] \in Allowed(k, c, i, n)} : k \in {Known(S, c, i)}}
<1>4. d \in [r : R, a : A, x : IF sys.differs THEN Index ELSE {c.x}, h : {Recorded(c, i)}, p : {c.p},
             v : {c.v}, first : {FALSE}]
  BY DEF StepsUnder
<1>5. R \subseteq Reg /\ A \subseteq Table
  OBVIOUS
<1> HIDE DEF R, A
<1> QED BY <1>1, <1>2, <1>4, <1>5 DEF Config

LEMMA InitialAreConfigs ==
  ASSUME sys \in SystemType, NEW Q, NEW S PROVE Initial(S, Q, {}) \subseteq Config(Q)
<1> SUFFICES ASSUME NEW c \in Initial(S, Q, {}) PROVE c \in Config(Q)
  OBVIOUS
<1>1. c \in [r : sys.init, a : Table, x : IF sys.differs THEN Index ELSE {CHOOSE n \in Index : TRUE},
             h : Histories(Q), p : [Q -> Index], v : {{}}, first : {TRUE}]
  BY DEF Initial
<1>2. sys.init \subseteq Reg /\ (CHOOSE n \in Index : TRUE) \in Index
  BY SortsAssumption DEF SystemType
<1>3. Histories(Q) = [Recent(Q) -> Index]
  BY DEF Histories, Recent
<1> QED BY <1>1, <1>2, <1>3 DEF Config
----------------------------------------------------------------------------
\* The sets that a trace formula without guesses goes through.
LEMMA TraceFacts ==
  ASSUME sys \in SystemType, NEW Q, Prophesied(Q), NEW init, NEW trans, NEW n \in Nat
  PROVE  \E f : /\ TraceUnder(n, init, trans, Q, {}) = f[n] /\ f[0] = Initial(init, Q, {})
                /\ \A m \in 1..n : \A c \in f[m-1], i \in Input : StepsUnder(c, i, trans) \subseteq f[m]
<1> DEFINE A == Initial(init, Q, {})
           Held(X, d) == {q \in X \X Input : GuessesHold(q[1], q[2], {}, d)}
           Then(X) == UNION {StepsUnder(p[1], p[2], trans) : p \in X \X Input}
           G == [X \in SUBSET Config(Q) |-> Then(X)]
           B(f) == [m \in 0..n |-> IF m = 0 THEN A
                      ELSE UNION {StepsUnder(p[1], p[2], trans) :
                             p \in {q \in f[m-1] \X Input : GuessesHold(q[1], q[2], {}, n - m + 1)}}]
           layer == CHOOSE f : f = B(f)
<1>1. A \in SUBSET Config(Q)
  BY InitialAreConfigs
<1>2. G \in [SUBSET Config(Q) -> SUBSET Config(Q)]
  <2>1. ASSUME NEW X \in SUBSET Config(Q) PROVE Then(X) \in SUBSET Config(Q)
    <3>1. \A c \in X, i \in Input : StepsUnder(c, i, trans) \subseteq Config(Q)
      BY StepsAreConfigs
    <3> QED BY <3>1
  <2> QED BY <2>1
<1>3. PICK f : Iterates(f, SUBSET Config(Q), A, G, n)
  <2> HIDE DEF G, A
  <2> QED BY <1>1, <1>2, IterationExists
<1>4. \A X, d : Held(X, d) = X \X Input
  BY DEF GuessesHold
<1>5. \A h : B(h) = [m \in 0..n |-> IF m = 0 THEN A ELSE Then(h[m-1])]
  BY <1>4
<1>6. f = B(f)
  <2> HIDE DEF A
  <2>1. \A m \in 0..n : m # 0 => m - 1 \in 0..n
    OBVIOUS
  <2>2. \A m \in 0..n : m # 0 => G[f[m-1]] = Then(f[m-1])
    BY <1>3, <2>1 DEF Iterates
  <2> HIDE DEF G, Then, B
  <2>3. f = [m \in 0..n |-> f[m]] /\ \A m \in 0..n : f[m] = IF m = 0 THEN A ELSE Then(f[m-1])
    BY <1>3, <2>2 DEF Iterates
  <2>4. f = [m \in 0..n |-> IF m = 0 THEN A ELSE Then(f[m-1])]
    BY <2>3
  <2> QED BY <1>5, <2>4
<1>7. layer = B(layer)
  <2> HIDE DEF B
  <2>1. \E h : h = B(h)
    BY <1>6
  <2> QED BY ONLY <2>1, Zenon
<1>8. TraceUnder(n, init, trans, Q, {}) = layer[n]
  BY DEF TraceUnder
<1>9. layer[0] = A /\ \A m \in 1..n : layer[m] = Then(layer[m-1])
  <2> HIDE DEF layer, A, B, Then
  <2>1. 0 \in 0..n /\ \A m \in 1..n : m \in 0..n /\ m # 0
    OBVIOUS
  <2>2. layer = [m \in 0..n |-> IF m = 0 THEN A ELSE Then(layer[m-1])]
    BY <1>5, <1>7
  <2> QED BY <2>1, <2>2
<1>10. \A X : \A c \in X, i \in Input : StepsUnder(c, i, trans) \subseteq Then(X)
  <2> SUFFICES ASSUME NEW X, NEW c \in X, NEW i \in Input PROVE StepsUnder(c, i, trans) \subseteq Then(X)
    OBVIOUS
  <2> DEFINE q == <<c, i>>
  <2>1. q \in X \X Input /\ q[1] = c /\ q[2] = i
    OBVIOUS
  <2> HIDE DEF q
  <2> QED BY <2>1
<1> HIDE DEF layer, Then
<1> QED BY <1>8, <1>9, <1>10

LEMMA TraceHolds ==
  ASSUME sys \in SystemType, NEW Q, Prophesied(Q), NEW init, NEW trans, NEW n \in Nat, NEW c,
         c[0] \in Initial(init, Q, {}),
         \A j \in 0..n-1 : \E i \in Input : c[j+1] \in StepsUnder(c[j], i, trans)
  PROVE  c[n] \in TraceUnder(n, init, trans, Q, {})
<1>1. PICK f : /\ TraceUnder(n, init, trans, Q, {}) = f[n] /\ f[0] = Initial(init, Q, {})
               /\ \A m \in 1..n : \A b \in f[m-1], i \in Input : StepsUnder(b, i, trans) \subseteq f[m]
  BY TraceFacts
<1> DEFINE T == {m \in Nat : m <= n => c[m] \in f[m]}
<1>2. 0 \in T
  BY <1>1
<1>3. ASSUME NEW m \in T PROVE m + 1 \in T
  <2> SUFFICES ASSUME m + 1 <= n PROVE c[m+1] \in f[m+1]
    OBVIOUS
  <2>1. m \in 0..n-1 /\ m + 1 \in 1..n /\ (m + 1) - 1 = m /\ m <= n
    OBVIOUS
  <2>2. PICK i \in Input : c[m+1] \in StepsUnder(c[m], i, trans)
    BY <2>1
  <2>3. c[m] \in f[m]
    BY <2>1
  <2>4. \A b \in f[m] : StepsUnder(b, i, trans) \subseteq f[m+1]
    BY <1>1, <2>1
  <2> QED BY <2>2, <2>3, <2>4
<1>4. T = Nat
  <2>1. T \in SUBSET Nat
    OBVIOUS
  <2> HIDE DEF T
  <2> QED BY <1>2, <1>3, <2>1, Naturals_!NatSetInduction
<1> QED BY <1>1, <1>4

----------------------------------------------------------------------------
\* The concrete system.
ConcreteState == [r : Reg, a : Table]

Stored(s, i) ==
  IF <<s.r, i>> \in sys.stores THEN [s.a EXCEPT ![sys.index[sys.write][<<s.r, i>>]] = sys.data[<<s.r, i>>]] ELSE s.a
ConcreteStep(s, i, t) ==
  /\ t \in ConcreteState /\ t.a = Stored(s, i)
  /\ <<s.r, i, s.a[sys.index[sys.read][<<s.r, i>>]], t.r>> \in sys.step

LEMMA ConcreteNextFacts ==
  ASSUME sys \in SystemType, NEW s \in ConcreteState, NEW t \in ConcreteNext(s)
  PROVE  \E i \in Input : ConcreteStep(s, i, t)
<1>1. PICK i \in Input :
        t \in {[r |-> r, a |-> Stored(s, i)] :
                 r \in {r \in Reg : <<s.r, i, s.a[sys.index[sys.read][<<s.r, i>>]], r>> \in sys.step}}
  BY DEF ConcreteNext, Stored
<1>2. PICK r \in Reg : t = [r |-> r, a |-> Stored(s, i)]
                       /\ <<s.r, i, s.a[sys.index[sys.read][<<s.r, i>>]], r>> \in sys.step
  BY <1>1
<1>3. Stored(s, i) \in Table
  <2>1. s.r \in Reg /\ s.a \in [Index -> Elem]
    BY DEF ConcreteState, Table
  <2>2. sys.data[<<s.r, i>>] \in Elem
    BY <2>1 DEF SystemType
  <2> QED BY <2>1, <2>2 DEF Stored, Table
<1>4. t \in ConcreteState /\ t.a = Stored(s, i) /\ t.r = r
  BY <1>2, <1>3 DEF ConcreteState
<1> QED BY <1>2, <1>4 DEF ConcreteStep

LEMMA ConcreteInitFacts ==
  ASSUME sys \in SystemType, NEW s \in ConcreteInit
  PROVE  s \in ConcreteState /\ s.r \in sys.init /\ \A n \in Index : s.a[n] = sys.value
BY DEF ConcreteInit, ConcreteState, SystemType, Table

LEMMA ConcreteLayerFacts ==
  ASSUME sys \in SystemType, NEW m \in Nat
  PROVE  \E g : /\ ConcreteCexLengths(m) = {n \in 0..m : \E s \in g[n] : ConcreteBad(s)}
                /\ g[0] = ConcreteInit
                /\ \A n \in 1..m : g[n] = UNION {ConcreteNext(s) : s \in g[n-1]}
<1> DEFINE A == ConcreteInit
           Then(X) == UNION {ConcreteNext(s) : s \in X}
           G == [X \in SUBSET ConcreteState |-> Then(X)]
           B(f) == [n \in 0..m |-> IF n = 0 THEN A ELSE Then(f[n-1])]
           layer == CHOOSE f : f = B(f)
<1>1. A \in SUBSET ConcreteState
  BY ConcreteInitFacts
<1>2. G \in [SUBSET ConcreteState -> SUBSET ConcreteState]
  <2>1. ASSUME NEW X \in SUBSET ConcreteState PROVE Then(X) \in SUBSET ConcreteState
    <3>1. \A s \in X : ConcreteNext(s) \subseteq ConcreteState
      BY ConcreteNextFacts DEF ConcreteStep
    <3> QED BY <3>1
  <2> QED BY <2>1
<1>3. PICK f : Iterates(f, SUBSET ConcreteState, A, G, m)
  <2> HIDE DEF G, A
  <2> QED BY <1>1, <1>2, IterationExists
<1>4. f = B(f)
  <2> HIDE DEF A
  <2>1. \A n \in 0..m : n # 0 => n - 1 \in 0..m
    OBVIOUS
  <2>2. \A n \in 0..m : n # 0 => G[f[n-1]] = Then(f[n-1])
    BY <1>3, <2>1 DEF Iterates
  <2> HIDE DEF G, Then
  <2>3. f = [n \in 0..m |-> f[n]] /\ \A n \in 0..m : f[n] = B(f)[n]
    BY <1>3, <2>2 DEF Iterates
  <2> QED BY <2>3
<1>5. layer = B(layer)
  <2> HIDE DEF B
  <2>1. \E h : h = B(h)
    BY <1>4
  <2> QED BY ONLY <2>1, Zenon
<1>6. ConcreteCexLengths(m) = {n \in 0..m : \E s \in layer[n] : ConcreteBad(s)}
  BY DEF ConcreteCexLengths
<1>7. layer[0] = A /\ \A n \in 1..m : layer[n] = Then(layer[n-1])
  <2> HIDE DEF layer, A, Then
  <2>1. 0 \in 0..m /\ \A n \in 1..m : n \in 0..m /\ n # 0
    OBVIOUS
  <2> QED BY <1>5, <2>1
<1> HIDE DEF layer
<1> QED BY <1>6, <1>7

\* An execution of n steps with its inputs; the last one is not read.
Execution(st, inp, n) ==
  /\ st \in [0..n -> ConcreteState] /\ inp \in [0..n -> Input]
  /\ st[0] \in ConcreteInit /\ inp[n] = AnyInput
  /\ \A j \in 0..n-1 : ConcreteStep(st[j], inp[j], st[j+1])

LEMMA ConcreteExecution ==
  ASSUME sys \in SystemType, NEW m \in Nat, NEW n \in ConcreteCexLengths(m)
  PROVE  n \in 0..m /\ \E st, inp : Execution(st, inp, n) /\ ConcreteBad(st[n])
<1>1. PICK g : /\ ConcreteCexLengths(m) = {k \in 0..m : \E s \in g[k] : ConcreteBad(s)}
               /\ g[0] = ConcreteInit
               /\ \A k \in 1..m : g[k] = UNION {ConcreteNext(s) : s \in g[k-1]}
  BY ConcreteLayerFacts
<1>2. n \in 0..m /\ n \in Nat
  BY <1>1
<1>3. PICK b \in g[n] : ConcreteBad(b)
  BY <1>1
<1>4. AnyInput \in Input
  BY SortsAssumption DEF AnyInput
<1> DEFINE T == {k \in Nat : k <= m => \A s \in g[k] : \E st, inp : Execution(st, inp, k) /\ st[k] = s}
<1>5. 0 \in T
  <2> SUFFICES ASSUME NEW s \in ConcreteInit PROVE \E st, inp : Execution(st, inp, 0) /\ st[0] = s
    BY <1>1
  <2> DEFINE st == [j \in 0..0 |-> s]
             inp == [j \in 0..0 |-> AnyInput]
  <2>1. s \in ConcreteState
    BY ConcreteInitFacts
  <2>2. st \in [0..0 -> ConcreteState] /\ st[0] = s /\ inp \in [0..0 -> Input] /\ inp[0] = AnyInput
    BY <1>4, <2>1
  <2>3. 0..0-1 = {}
    OBVIOUS
  <2> HIDE DEF st, inp
  <2>4. Execution(st, inp, 0)
    BY <2>2, <2>3 DEF Execution
  <2> QED BY <2>2, <2>4
<1>6. ASSUME NEW k \in T PROVE k + 1 \in T
  <2> SUFFICES ASSUME k + 1 <= m, NEW t \in g[k+1]
               PROVE  \E st, inp : Execution(st, inp, k+1) /\ st[k+1] = t
    OBVIOUS
  <2>1. k \in Nat /\ k + 1 \in 1..m /\ (k + 1) - 1 = k /\ k <= m
    OBVIOUS
  <2>2. PICK s \in g[k] : t \in ConcreteNext(s)
    BY <1>1, <2>1
  <2>3. PICK su, iu : Execution(su, iu, k) /\ su[k] = s
    BY <2>1, <2>2
  <2>4. s \in ConcreteState
    BY <2>3 DEF Execution
  <2>5. PICK i \in Input : ConcreteStep(s, i, t)
    BY <2>2, <2>4, ConcreteNextFacts
  <2> DEFINE st == [j \in 0..k+1 |-> IF j = k + 1 THEN t ELSE su[j]]
             inp == [j \in 0..k+1 |-> IF j = k + 1 THEN AnyInput ELSE IF j = k THEN i ELSE iu[j]]
  <2>6. t \in ConcreteState
    BY <2>5 DEF ConcreteStep
  <2>7. /\ st \in [0..k+1 -> ConcreteState] /\ inp \in [0..k+1 -> Input]
        /\ st[k+1] = t /\ inp[k+1] = AnyInput /\ inp[k] = i
        /\ \A j \in 0..k : st[j] = su[j] /\ (j # k => inp[j] = iu[j])
    BY <1>4, <2>3, <2>6 DEF Execution
  <2> HIDE DEF st, inp, T
  <2>8. st[0] \in ConcreteInit
    BY <2>1, <2>3, <2>7 DEF Execution
  <2>9. ASSUME NEW j \in 0..(k+1)-1 PROVE ConcreteStep(st[j], inp[j], st[j+1])
    <3>1. CASE j = k
      BY <2>1, <2>3, <2>5, <2>7, <3>1
    <3>2. CASE j # k
      <4>1. j \in 0..k-1 /\ j \in 0..k /\ j + 1 \in 0..k
        BY <2>1, <3>2
      <4> QED BY <2>3, <2>7, <3>2, <4>1 DEF Execution
    <3> QED BY <3>1, <3>2
  <2>10. Execution(st, inp, k+1)
    BY <2>7, <2>8, <2>9 DEF Execution
  <2> QED BY <2>7, <2>10
<1>7. T = Nat
  <2>1. T \in SUBSET Nat
    OBVIOUS
  <2> HIDE DEF T
  <2> QED BY <1>5, <1>6, <2>1, Naturals_!NatSetInduction
<1>8. \E st, inp : Execution(st, inp, n) /\ st[n] = b
  BY <1>2, <1>7
<1> QED BY <1>2, <1>3, <1>8

----------------------------------------------------------------------------
(* A concrete execution, as the abstract system sees it.                   *)

\* What term t is at time j; before time 0 it is anything.
Given(x, st, inp, t, j) == IF t = Wit \/ j < 0 THEN x ELSE sys.index[t][<<st[j].r, inp[j]>>]

\* The witness is the same all along; histories look back from time j, and
\* prophecies from the end.
Seen(Q, x, st, inp, n) ==
  [j \in 0..n |->
     [r |-> st[j].r, a |-> st[j].a, x |-> x,
      h |-> [v \in Recent(Q) |-> Given(x, st, inp, v[1], j - v[2])],
      p |-> [q \in Q |-> Given(x, st, inp, q[1], n - q[2])],
      v |-> {}, first |-> (j = 0)]]

LEMMA GivenType ==
  ASSUME sys \in SystemType, NEW x \in Index, NEW st, NEW inp, NEW n \in Nat, Execution(st, inp, n),
         NEW t \in Terms, NEW j \in Int, j <= n
  PROVE  Given(x, st, inp, t, j) \in Index
<1>1. CASE t = Wit \/ j < 0
  BY <1>1 DEF Given
<1>2. CASE ~(t = Wit \/ j < 0)
  <2>1. j \in 0..n /\ t \in Term
    BY <1>2 DEF Terms
  <2>2. st[j].r \in Reg /\ inp[j] \in Input
    BY <2>1 DEF Execution, ConcreteState
  <2>3. sys.index[t] \in [Reg \X Input -> Index]
    BY <2>1 DEF SystemType
  <2> QED BY <1>2, <2>2, <2>3 DEF Given
<1> QED BY <1>1, <1>2

\* What is used of it.
IsSeen(c, Q, x, st, inp, n) ==
  \A j \in 0..n :
    /\ c[j] \in Config(Q)
    /\ c[j].r = st[j].r /\ c[j].a = st[j].a /\ c[j].x = x /\ c[j].v = {}
    /\ DOMAIN c[j].h = Recent(Q)
    /\ \A v \in Recent(Q) : c[j].h[v] = Given(x, st, inp, v[1], j - v[2])
    /\ c[j].p = [q \in Q |-> Given(x, st, inp, q[1], n - q[2])]
    /\ \A t \in Terms : TermAt(t, c[j], inp[j]) = Given(x, st, inp, t, j)
    /\ (j = 0 => c[j].first = TRUE) /\ (j # 0 => c[j].first = FALSE)

LEMMA SeenFacts ==
  ASSUME sys \in SystemType, NEW Q, Prophesied(Q), NEW x \in Index, NEW st, NEW inp, NEW n \in Nat,
         Execution(st, inp, n), NEW c, c = Seen(Q, x, st, inp, n)
  PROVE  IsSeen(c, Q, x, st, inp, n)
<1> SUFFICES ASSUME NEW j \in 0..n
             PROVE  /\ c[j] \in Config(Q)
                    /\ c[j].r = st[j].r /\ c[j].a = st[j].a /\ c[j].x = x /\ c[j].v = {}
                    /\ DOMAIN c[j].h = Recent(Q)
                    /\ \A v \in Recent(Q) : c[j].h[v] = Given(x, st, inp, v[1], j - v[2])
                    /\ c[j].p = [q \in Q |-> Given(x, st, inp, q[1], n - q[2])]
                    /\ \A t \in Terms : TermAt(t, c[j], inp[j]) = Given(x, st, inp, t, j)
                    /\ (j = 0 => c[j].first = TRUE) /\ (j # 0 => c[j].first = FALSE)
  BY DEF IsSeen
<1> DEFINE h == [v \in Recent(Q) |-> Given(x, st, inp, v[1], j - v[2])]
           p == [q \in Q |-> Given(x, st, inp, q[1], n - q[2])]
<1>1. c[j] = [r |-> st[j].r, a |-> st[j].a, x |-> x, h |-> h, p |-> p, v |-> {}, first |-> (j = 0)]
  BY DEF Seen
<1>2. st[j].r \in Reg /\ st[j].a \in Table
  BY DEF Execution, ConcreteState
<1>3. h \in [Recent(Q) -> Index]
  <2> SUFFICES ASSUME NEW v \in Recent(Q) PROVE Given(x, st, inp, v[1], j - v[2]) \in Index
    OBVIOUS
  <2>1. PICK t \in Terms : \E d \in 1..Depth(Q, t) : v = <<t, d>>
    BY RecentFacts
  <2>2. PICK d \in 1..Depth(Q, t) : v = <<t, d>>
    BY <2>1
  <2>3. Depth(Q, t) \in Nat
    BY DepthFacts
  <2>4. j - d \in Int /\ j - d <= n
    BY <2>3
  <2> QED BY <2>2, <2>4, GivenType
<1>4. p \in [Q -> Index]
  <2> SUFFICES ASSUME NEW q \in Q PROVE Given(x, st, inp, q[1], n - q[2]) \in Index
    OBVIOUS
  <2>1. q[1] \in Terms /\ q[2] \in Nat
    BY RecentFacts
  <2>2. n - q[2] \in Int /\ n - q[2] <= n
    BY <2>1
  <2> QED BY <2>1, <2>2, GivenType
<1> HIDE DEF h, p
<1>5. c[j] \in Config(Q)
  BY <1>1, <1>2, <1>3, <1>4 DEF Config
<1>6. \A t \in Terms : TermAt(t, c[j], inp[j]) = Given(x, st, inp, t, j)
  <2>1. c[j].x = x /\ c[j].r = st[j].r /\ ~(j < 0)
    BY <1>1
  <2> QED BY <2>1 DEF TermAt, Given
<1>7. DOMAIN c[j].h = Recent(Q) /\ \A v \in Recent(Q) : c[j].h[v] = Given(x, st, inp, v[1], j - v[2])
  BY <1>1 DEF h
<1>8. c[j].p = [q \in Q |-> Given(x, st, inp, q[1], n - q[2])]
  BY <1>1 DEF p
<1>9. c[j].r = st[j].r /\ c[j].a = st[j].a /\ c[j].x = x /\ c[j].v = {}
  BY <1>1
<1>10. (j = 0 => c[j].first = TRUE) /\ (j # 0 => c[j].first = FALSE)
  <2>1. c[j].first = (j = 0)
    BY <1>1
  <2>2. ASSUME j = 0 PROVE (j = 0) = TRUE
    BY <2>2
  <2>3. ASSUME j # 0 PROVE (j = 0) = FALSE
    BY <2>3
  <2> QED BY ONLY <2>1, <2>2, <2>3
<1> QED BY <1>5, <1>6, <1>7, <1>8, <1>9, <1>10

\* The witness of a state without equality is not used.
Witness(x) == x \in Index /\ (~sys.differs => x = CHOOSE n \in Index : TRUE)

LEMMA SeenIsConstant ==
  ASSUME sys \in SystemType, NEW Q, Prophesied(Q), NEW x \in Index, NEW st, NEW inp, NEW n \in Nat,
         Execution(st, inp, n), NEW c, IsSeen(c, Q, x, st, inp, n), NEW i, NEW S
  PROVE  IsConstant(c[0], i, S)
<1>1. 0 \in 0..n
  OBVIOUS
<1>2. c[0].a = st[0].a
  BY <1>1 DEF IsSeen
<1>3. \A m \in Index : st[0].a[m] = sys.value
  BY ConcreteInitFacts DEF Execution
<1> QED BY <1>2, <1>3 DEF IsConstant, Cells

LEMMA SeenStarts ==
  ASSUME sys \in SystemType, NEW Q, Prophesied(Q), NEW x \in Index, Witness(x), NEW st, NEW inp, NEW n \in Nat,
         Execution(st, inp, n), NEW c, IsSeen(c, Q, x, st, inp, n), NEW S
  PROVE  c[0] \in Initial(S, Q, {})
<1>1. 0 \in 0..n
  OBVIOUS
<1>2. /\ c[0] \in Config(Q) /\ c[0].r = st[0].r /\ c[0].x = x /\ c[0].v = {}
  BY <1>1 DEF IsSeen
<1>8. c[0].first = TRUE
  BY <1>1 DEF IsSeen
<1>3. st[0].r \in sys.init
  BY ConcreteInitFacts DEF Execution
<1>4. Histories(Q) = [Recent(Q) -> Index]
  BY DEF Histories, Recent
<1> DEFINE C == [r : sys.init, a : Table, x : IF sys.differs THEN Index ELSE {CHOOSE m \in Index : TRUE},
                 h : Histories(Q), p : [Q -> Index], v : {{}}, first : {TRUE}]
<1>5. c[0] \in C
  BY <1>2, <1>3, <1>4, <1>8 DEF Config, Witness
<1>6. IsConstant(c[0], AnyInput, OnlyCurrOf(S))
  BY SeenIsConstant
<1>7. Initial(S, Q, {}) = {d \in C : IsConstant(d, AnyInput, OnlyCurrOf(S))}
  <2>1. Initial(S, Q, {}) = UNION {{d \in C : IsConstant(d, AnyInput, T)} : T \in {OnlyCurrOf(S)}}
    BY DEF Initial
  <2> HIDE DEF C
  <2> QED BY <2>1
<1> HIDE DEF C
<1> QED BY <1>5, <1>6, <1>7

\* The axioms say nothing that is not true of the array.
LEMMA StoredIsAllowed ==
  ASSUME sys \in SystemType, NEW Q, NEW c \in Config(Q), NEW i \in Input, NEW s \in ConcreteState,
         s.r = c.r, s.a = c.a, NEW S, NEW m \in Index
  PROVE  Stored(s, i)[m] \in Allowed(Known(S, c, i), c, i, m)
<1> DEFINE w == sys.index[sys.write][<<c.r, i>>]
           k == Known(S, c, i)
<1>1. sys.write \in Term /\ sys.write # Wit
  BY WitAssumption DEF SystemType
<1>2. TermAt(sys.write, c, i) = w
  BY <1>1 DEF TermAt
<1>3. c.r \in Reg /\ c.a \in [Index -> Elem]
  BY DEF Config, Table
<1>4. sys.data[<<c.r, i>>] \in Elem /\ w \in Index
  BY <1>1, <1>3 DEF SystemType
<1>5. w \notin k.kept
  BY <1>2 DEF Known
<1> HIDE DEF w, k
<1>6. <<c.r, i>> \notin sys.stores => Stored(s, i) = c.a
  BY DEF Stored
<1>7. <<c.r, i>> \in sys.stores => Stored(s, i) = [c.a EXCEPT ![w] = sys.data[<<c.r, i>>]]
  BY DEF Stored, w
<1>8. Stored(s, i)[m] \in Elem
  BY <1>3, <1>4, <1>6, <1>7
<1>9. m # w => Stored(s, i)[m] = c.a[m]
  BY <1>3, <1>6, <1>7
<1>10. <<c.r, i>> \in sys.stores => Stored(s, i)[w] = sys.data[<<c.r, i>>]
  BY <1>3, <1>4, <1>7
<1>11. Stored(s, i)[m] \in Allowed(k, c, i, m)
  BY <1>2, <1>5, <1>6, <1>8, <1>9, <1>10 DEF Allowed
<1> QED BY <1>11 DEF k

LEMMA SeenSteps ==
  ASSUME sys \in SystemType, NEW Q, Prophesied(Q), NEW x \in Index, NEW st, NEW inp, NEW n \in Nat,
         Execution(st, inp, n), NEW c, IsSeen(c, Q, x, st, inp, n), NEW S, NEW j \in 0..n-1
  PROVE  inp[j] \in Input /\ c[j+1] \in StepsUnder(c[j], inp[j], S)
<1> DEFINE i == inp[j]
<1>1. j \in 0..n /\ j + 1 \in 0..n /\ j + 1 # 0
  OBVIOUS
<1>2. i \in Input /\ st[j] \in ConcreteState /\ ConcreteStep(st[j], i, st[j+1])
  BY <1>1 DEF Execution
<1> HIDE DEF i
<1>3. /\ c[j] \in Config(Q)
      /\ c[j].r = st[j].r /\ c[j].a = st[j].a /\ c[j].x = x /\ c[j].v = {}
      /\ DOMAIN c[j].h = Recent(Q)
      /\ \A v \in Recent(Q) : c[j].h[v] = Given(x, st, inp, v[1], j - v[2])
      /\ c[j].p = [q \in Q |-> Given(x, st, inp, q[1], n - q[2])]
      /\ \A t \in Terms : TermAt(t, c[j], i) = Given(x, st, inp, t, j)
  BY <1>1 DEF IsSeen, i
<1>4. /\ c[j+1] \in Config(Q)
      /\ c[j+1].r = st[j+1].r /\ c[j+1].a = st[j+1].a /\ c[j+1].x = x /\ c[j+1].v = {}
      /\ \A v \in Recent(Q) : c[j+1].h[v] = Given(x, st, inp, v[1], (j + 1) - v[2])
      /\ c[j+1].p = [q \in Q |-> Given(x, st, inp, q[1], n - q[2])]
  BY <1>1 DEF IsSeen
<1> DEFINE R == {r \in Reg : <<c[j].r, i, c[j].a[TermAt(sys.read, c[j], i)], r>> \in sys.step}
           A == UNION {{a \in Table : \A m \in Index : a[m] \in Allowed(k, c[j], i, m)} : k \in {Known(S, c[j], i)}}
<1>5. st[j+1].r \in R
  <2>1. sys.read \in Term /\ sys.read # Wit
    BY WitAssumption DEF SystemType
  <2>2. TermAt(sys.read, c[j], i) = sys.index[sys.read][<<st[j].r, i>>]
    BY <1>3, <2>1 DEF TermAt
  <2> QED BY <1>2, <1>3, <2>2 DEF ConcreteStep, ConcreteState
<1>6. st[j+1].a \in A
  <2>1. st[j+1].a = Stored(st[j], i) /\ st[j+1].a \in Table
    BY <1>2 DEF ConcreteStep, ConcreteState
  <2>2. \A m \in Index : Stored(st[j], i)[m] \in Allowed(Known(S, c[j], i), c[j], i, m)
    BY <1>2, <1>3, StoredIsAllowed
  <2> QED BY <2>1, <2>2
<1>7. c[j+1].h = Recorded(c[j], i)
  <2>1. c[j+1].h = [v \in Recent(Q) |-> c[j+1].h[v]]
    BY <1>4 DEF Config
  <2>2. ASSUME NEW v \in Recent(Q)
        PROVE  c[j+1].h[v] = IF v[2] = 1 THEN TermAt(v[1], c[j], i) ELSE c[j].h[<<v[1], v[2] - 1>>]
    <3>1. PICK t \in Terms : \E d \in 1..Depth(Q, t) : v = <<t, d>>
      BY RecentFacts
    <3>2. PICK d \in 1..Depth(Q, t) : v = <<t, d>>
      BY <3>1
    <3>3. v[1] = t /\ v[2] = d /\ d \in Int
      BY <3>2, DepthFacts
    <3>4. CASE d = 1
      <4>1. (j + 1) - d = j
        BY <3>4
      <4> QED BY <1>3, <1>4, <3>3, <3>4, <4>1
    <3>5. CASE d # 1
      <4> DEFINE u == <<t, d - 1>>
      <4>1. u \in Recent(Q) /\ u[1] = t /\ u[2] = d - 1
        BY <3>5, RecentFacts
      <4>2. (j + 1) - d = j - (d - 1)
        BY <3>3
      <4>3. c[j].h[u] = Given(x, st, inp, t, j - (d - 1))
        BY <1>3, <4>1
      <4> QED BY <1>4, <3>3, <3>5, <4>2, <4>3
    <3> QED BY <3>4, <3>5
  <2>3. Recorded(c[j], i) = [v \in Recent(Q) |->
          IF v[2] = 1 THEN TermAt(v[1], c[j], i) ELSE c[j].h[<<v[1], v[2] - 1>>]]
    BY <1>3 DEF Recorded
  <2> QED BY <2>1, <2>2, <2>3
<1>8. c[j].first => IsConstant(c[j], i, S)
  <2>1. j = 0 => IsConstant(c[j], i, S)
    BY SeenIsConstant
  <2> QED BY <1>1, <2>1 DEF IsSeen
<1>12. c[j+1].first = FALSE
  BY <1>1 DEF IsSeen
<1>9. /\ c[j+1].x \in (IF sys.differs THEN Index ELSE {c[j].x}) /\ c[j+1].h \in {Recorded(c[j], i)}
      /\ c[j+1].p \in {c[j].p} /\ c[j+1].v \in {c[j].v} /\ c[j+1].first \in {FALSE}
      /\ c[j+1].r \in R /\ c[j+1].a \in A
  BY <1>3, <1>4, <1>5, <1>6, <1>7, <1>12
<1> HIDE DEF R, A
<1>10. c[j+1] \in [r : R, a : A, x : IF sys.differs THEN Index ELSE {c[j].x}, h : {Recorded(c[j], i)},
                   p : {c[j].p}, v : {c[j].v}, first : {FALSE}]
  BY <1>4, <1>9 DEF Config
<1>11. c[j+1] \in StepsUnder(c[j], i, S)
  BY <1>8, <1>10 DEF StepsUnder, R, A
<1> QED BY <1>2, <1>11 DEF i

\* All prophecies come true at the end.
LEMMA SeenIsForetold ==
  ASSUME sys \in SystemType, NEW Q, Prophesied(Q), NEW x \in Index, NEW st, NEW inp, NEW n \in Nat,
         Execution(st, inp, n), NEW c, IsSeen(c, Q, x, st, inp, n)
  PROVE  Foretold(c[n], Q)
<1>1. n \in 0..n /\ inp[n] = AnyInput
  BY DEF Execution
<1>2. /\ \A v \in Recent(Q) : c[n].h[v] = Given(x, st, inp, v[1], n - v[2])
      /\ c[n].p = [q \in Q |-> Given(x, st, inp, q[1], n - q[2])]
      /\ \A t \in Terms : TermAt(t, c[n], AnyInput) = Given(x, st, inp, t, n)
  BY <1>1 DEF IsSeen
<1>3. ASSUME NEW q \in Q
      PROVE  c[n].p[q] = IF q[2] = 0 THEN TermAt(q[1], c[n], AnyInput) ELSE c[n].h[q]
  <2>1. q[1] \in Terms /\ q[2] \in Nat /\ (q[2] # 0 => q \in Recent(Q))
    BY RecentFacts
  <2>2. c[n].p[q] = Given(x, st, inp, q[1], n - q[2])
    BY <1>2
  <2>3. q[2] = 0 => n - q[2] = n
    BY <2>1
  <2> QED BY <1>2, <2>1, <2>2, <2>3
<1> QED BY <1>3 DEF Foretold

\* The witness tells the last array from the constant one.
LEMMA SeenIsBad ==
  ASSUME sys \in SystemType, NEW Q, Prophesied(Q), NEW x \in Index, NEW st, NEW inp, NEW n \in Nat,
         Execution(st, inp, n), NEW c, IsSeen(c, Q, x, st, inp, n), ConcreteBad(st[n]),
         sys.differs => st[n].a[x] # sys.value, NEW S
  PROVE  Bad(c[n], S, Q)
<1>1. n \in 0..n /\ inp[n] = AnyInput
  BY DEF Execution
<1>2. Foretold(c[n], Q)
  BY SeenIsForetold
<1>3. c[n].r = st[n].r /\ c[n].a = st[n].a /\ c[n].x = x
  BY <1>1 DEF IsSeen
<1>6. n # 0 => c[n].first = FALSE
  BY <1>1 DEF IsSeen
<1>4. CASE sys.differs
  <2>1. n # 0
    <3>1. \A m \in Index : st[0].a[m] = sys.value
      BY ConcreteInitFacts DEF Execution
    <3> QED BY <1>4, <3>1
  <2> QED BY <1>2, <1>3, <1>4, <1>6, <2>1 DEF Bad, ConcreteBad
<1>5. CASE ~sys.differs
  <2>1. sys.check \in Term /\ sys.check # Wit
    BY WitAssumption DEF SystemType
  <2>2. TermAt(sys.check, c[n], AnyInput) = sys.index[sys.check][<<st[n].r, AnyInput>>]
    BY <1>3, <2>1 DEF TermAt
  <2> QED BY <1>2, <1>3, <1>5, <2>2 DEF Bad, ConcreteBad
<1> QED BY <1>4, <1>5

\* What the concrete system does the abstract one does, under any axioms.
LEMMA ExecutionIsSeen ==
  ASSUME sys \in SystemType, NEW Q, Prophesied(Q), NEW m \in Nat, NEW n \in ConcreteCexLengths(m)
  PROVE  /\ n \in 0..m
         /\ \E c : /\ \A S : c[0] \in Initial(S, Q, {})
                   /\ \A j \in 0..n-1 : \E i \in Input : \A S : c[j+1] \in StepsUnder(c[j], i, S)
                   /\ \A S : Bad(c[n], S, Q)
                   /\ (n = 0 => c[n].first = TRUE) /\ (n # 0 => c[n].first = FALSE)
<1>1. n \in 0..m /\ n \in Nat
  BY ConcreteExecution
<1>2. PICK st, inp : Execution(st, inp, n) /\ ConcreteBad(st[n])
  BY ConcreteExecution
<1>3. PICK x \in Index : Witness(x) /\ (sys.differs => st[n].a[x] # sys.value)
  <2>1. CASE sys.differs
    BY <1>2, <2>1 DEF ConcreteBad, Witness
  <2>2. CASE ~sys.differs
    <3>1. (CHOOSE k \in Index : TRUE) \in Index
      BY SortsAssumption
    <3> QED BY <2>2, <3>1 DEF Witness
  <2> QED BY <2>1, <2>2
<1>4. PICK c : IsSeen(c, Q, x, st, inp, n)
  BY <1>1, <1>2, SeenFacts
<1>5. \A S : c[0] \in Initial(S, Q, {})
  BY <1>1, <1>2, <1>3, <1>4, SeenStarts
<1>6. ASSUME NEW j \in 0..n-1 PROVE \E i \in Input : \A S : c[j+1] \in StepsUnder(c[j], i, S)
  <2>1. \A S : inp[j] \in Input /\ c[j+1] \in StepsUnder(c[j], inp[j], S)
    BY <1>1, <1>2, <1>3, <1>4, SeenSteps
  <2> QED BY <2>1
<1>7. \A S : Bad(c[n], S, Q)
  BY <1>1, <1>2, <1>3, <1>4, SeenIsBad
<1>8. (n = 0 => c[n].first = TRUE) /\ (n # 0 => c[n].first = FALSE)
  <2>1. n \in 0..n
    BY <1>1
  <2> QED BY <1>4, <2>1 DEF IsSeen
<1> QED BY <1>1, <1>5, <1>6, <1>7, <1>8

----------------------------------------------------------------------------
(* The bound reached and what the engine finds safe.                       *)

LEMMA CexLengthsSurvive ==
  ASSUME sys \in SystemType, Prophesied(prophs), NEW m \in Nat
  PROVE  ConcreteCexLengths(m) \subseteq CexLengths(m)
<1> SUFFICES ASSUME NEW n \in ConcreteCexLengths(m) PROVE n \in CexLengths(m)
  OBVIOUS
<1> DEFINE init == axioms.init \cup {}
           trans == axioms.source \cup {} \cup {}
           end == {} \cup IF n = 0 THEN axioms.init ELSE axioms.target
<1>0. n \in 0..m
  BY DEF ConcreteCexLengths
<1>1. n \in 0..m /\ n \in Nat
  BY <1>0
<1>2. PICK c : /\ \A S : c[0] \in Initial(S, prophs, {})
               /\ \A j \in 0..n-1 : \E i \in Input : \A S : c[j+1] \in StepsUnder(c[j], i, S)
               /\ \A S : Bad(c[n], S, prophs)
  BY ExecutionIsSeen
<1>3. c[n] \in TraceUnder(n, init, trans, prophs, {})
  <2>1. \A j \in 0..n-1 : \E i \in Input : c[j+1] \in StepsUnder(c[j], i, trans)
    BY <1>2
  <2>2. c[0] \in Initial(init, prophs, {})
    BY <1>2
  <2> HIDE DEF init, trans
  <2> QED BY <1>1, <2>1, <2>2, TraceHolds
<1>4. Bad(c[n], end, prophs)
  BY <1>2
<1>5. GuessesHold(c[n], AnyInput, {}, 0)
  BY DEF GuessesHold
<1>6. Sat(n, {}, {}, prophs, {}) <=> \E d \in TraceUnder(n, init, trans, prophs, {}) :
                                       Bad(d, end, prophs) /\ GuessesHold(d, AnyInput, {}, 0)
  <2> HIDE DEF GuessesHold
  <2> QED BY DEF Sat
<1> HIDE DEF init, trans, end
<1>7. Sat(n, {}, {}, prophs, {})
  BY <1>3, <1>4, <1>5, <1>6
<1> QED BY <1>1, <1>7 DEF CexLengths

LEMMA DiameterCovers ==
  ASSUME sys \in SystemType, Prophesied(prophs)
  PROVE  Diameter \in Nat /\ ConcreteDiameter \in Nat /\ ConcreteDiameter <= Diameter
<1> DEFINE S == {0} \cup {q[2] : q \in prophs}
<1>1. PICK N \in Nat : prophs \subseteq Terms \X (0..N)
  BY DEF Prophesied
<1>2. S \in SUBSET (0..N) /\ S # {} /\ \A y \in S : y \in Nat
  BY <1>1
<1>3. Diameter = ConcreteDiameter + Max(S) + 1
  BY DEF Diameter
<1> HIDE DEF S
<1>4. Max(S) \in Nat
  <2>1. Max(S) \in S
    BY <1>2, MaxFacts
  <2> QED BY <1>2, <2>1
<1>5. ConcreteDiameter \in Nat
  <2>1. Cardinality(Reg) \in Nat /\ Cardinality(Table) \in Nat
    BY FS_CardinalityType, SortsAssumption
  <2> QED BY <2>1 DEF ConcreteDiameter
<1> QED BY <1>3, <1>4, <1>5

\* What the search of IsSafe has seen.
LEMMA ClosureFacts ==
  ASSUME sys \in SystemType, Prophesied(prophs)
  PROVE  \E seen, new :
           /\ IsSafe => \A c \in seen[Diameter] : ~IsBad(c)
           /\ seen[0] = Initial(axioms.init, prophs, {}) /\ new[0] = seen[0]
           /\ \A m \in 1..Diameter :
                /\ new[m] = (UNION {Successors(c) : c \in new[m-1]}) \ seen[m-1]
                /\ seen[m] = seen[m-1] \cup new[m]
<1> DEFINE D == Diameter
           A == Initial(axioms.init, prophs, {})
           C == Config(prophs)
           U == [seen : SUBSET C, new : SUBSET C]
           New(u) == (UNION {Successors(c) : c \in u.new}) \ u.seen
           Then(u) == [seen |-> u.seen \cup New(u), new |-> New(u)]
           G == [u \in U |-> Then(u)]
           AtFirst == [seen |-> A, new |-> A]
           B(f) == [m \in 0..D |-> IF m = 0 THEN AtFirst ELSE Then(f[m-1])]
           closure == CHOOSE f : f = B(f)
<1>1. D \in Nat
  BY DiameterCovers
<1>2. AtFirst \in U
  BY InitialAreConfigs
<1>3. G \in [U -> U]
  <2>1. ASSUME NEW u \in U PROVE Then(u) \in U
    <3>1. u.new \subseteq C /\ u.seen \subseteq C
      OBVIOUS
    <3>2. \A c \in C : Successors(c) \subseteq C
      <4>1. \A c \in C, i \in Input : StepsUnder(c, i, axioms.source) \subseteq C
        BY StepsAreConfigs
      <4> HIDE DEF C
      <4> QED BY <4>1 DEF Successors
    <3> HIDE DEF C
    <3>3. New(u) \subseteq C
      BY <3>1, <3>2
    <3> QED BY <3>1, <3>3
  <2> HIDE DEF U, Then
  <2> QED BY <2>1
<1>4. PICK f : Iterates(f, U, AtFirst, G, D)
  <2> HIDE DEF G, AtFirst, U, D
  <2> QED BY <1>1, <1>2, <1>3, IterationExists
<1>5. f = B(f)
  <2> HIDE DEF AtFirst, Then, U, D
  <2>1. \A m \in 0..D : m # 0 => m - 1 \in 0..D
    BY <1>1
  <2>2. \A m \in 0..D : m # 0 => G[f[m-1]] = Then(f[m-1])
    BY <1>4, <2>1 DEF Iterates
  <2> HIDE DEF G
  <2>3. f = [m \in 0..D |-> f[m]] /\ \A m \in 0..D : f[m] = B(f)[m]
    BY <1>4, <2>2 DEF Iterates
  <2> QED BY <2>3
<1>6. closure = B(closure)
  <2> HIDE DEF B
  <2>1. \E h : h = B(h)
    BY <1>5
  <2> QED BY ONLY <2>1, Zenon
<1>7. IsSafe <=> \A c \in closure[D].seen : ~IsBad(c)
  BY DEF IsSafe
<1>8. closure[0] = AtFirst /\ \A m \in 1..D : closure[m] = Then(closure[m-1])
  <2> HIDE DEF closure, AtFirst, Then, D
  <2>1. 0 \in 0..D /\ \A m \in 1..D : m \in 0..D /\ m # 0
    BY <1>1
  <2> QED BY <1>6, <2>1
<1> HIDE DEF closure
<1> DEFINE seen == [m \in 0..D |-> closure[m].seen]
           new  == [m \in 0..D |-> closure[m].new]
<1>9. \A m \in 0..D : seen[m] = closure[m].seen /\ new[m] = closure[m].new
  OBVIOUS
<1>10. \A m \in 1..D : m \in 0..D /\ m - 1 \in 0..D
  BY <1>1
<1>11. 0 \in 0..D /\ D \in 0..D
  BY <1>1
<1>12. closure[0].seen = A /\ closure[0].new = A
  BY <1>8
<1>13. \A m \in 1..D : /\ closure[m].new = New(closure[m-1])
                      /\ closure[m].seen = closure[m-1].seen \cup New(closure[m-1])
  <2>1. \A u : Then(u).new = New(u) /\ Then(u).seen = u.seen \cup New(u)
    <3> HIDE DEF New
    <3> QED OBVIOUS
  <2> HIDE DEF Then, New, D
  <2> QED BY <1>8, <2>1
<1> HIDE DEF seen, new
<1>14. \A m \in 1..D : new[m] = (UNION {Successors(c) : c \in new[m-1]}) \ seen[m-1]
  BY <1>9, <1>10, <1>13
<1>15. \A m \in 1..D : seen[m] = seen[m-1] \cup new[m]
  <2> HIDE DEF New
  <2> QED BY <1>9, <1>10, <1>13
<1> HIDE DEF D, A, New
<1>16. seen[0] = A /\ new[0] = seen[0]
  BY <1>9, <1>11, <1>12
<1>17. IsSafe => \A c \in seen[D] : ~IsBad(c)
  BY <1>7, <1>9, <1>11
<1> QED BY <1>14, <1>15, <1>16, <1>17 DEF D, A

\* The search comes to the end of every path of at most Diameter steps.
LEMMA SafeCovers ==
  ASSUME sys \in SystemType, Prophesied(prophs), IsSafe, NEW n \in Nat, n <= Diameter, NEW c,
         c[0] \in Initial(axioms.init, prophs, {}), \A j \in 0..n-1 : c[j+1] \in Successors(c[j])
  PROVE  ~IsBad(c[n])
<1>1. PICK seen, new :
        /\ IsSafe => \A d \in seen[Diameter] : ~IsBad(d)
        /\ seen[0] = Initial(axioms.init, prophs, {}) /\ new[0] = seen[0]
        /\ \A m \in 1..Diameter :
             /\ new[m] = (UNION {Successors(d) : d \in new[m-1]}) \ seen[m-1]
             /\ seen[m] = seen[m-1] \cup new[m]
  BY ClosureFacts
<1>2. Diameter \in Nat
  BY DiameterCovers
<1> DEFINE T == {m \in Nat : m <= Diameter =>
                   /\ new[m] \subseteq seen[m]
                   /\ \A b \in seen[m] \ new[m] : Successors(b) \subseteq seen[m]
                   /\ m <= n => c[m] \in seen[m]
                   /\ n <= m => c[n] \in seen[m]}
<1>3. 0 \in T
  <2>1. c[0] \in seen[0] /\ new[0] = seen[0]
    BY <1>1
  <2>2. n <= 0 => n = 0
    OBVIOUS
  <2> QED BY <2>1, <2>2
<1>4. ASSUME NEW m \in T PROVE m + 1 \in T
  <2> SUFFICES ASSUME m + 1 <= Diameter
               PROVE  /\ new[m+1] \subseteq seen[m+1]
                      /\ \A b \in seen[m+1] \ new[m+1] : Successors(b) \subseteq seen[m+1]
                      /\ m + 1 <= n => c[m+1] \in seen[m+1]
                      /\ n <= m + 1 => c[n] \in seen[m+1]
    OBVIOUS
  <2>1. m \in Nat /\ m + 1 \in 1..Diameter /\ (m + 1) - 1 = m /\ m <= Diameter
    BY <1>2
  <2>2. /\ new[m] \subseteq seen[m]
        /\ \A b \in seen[m] \ new[m] : Successors(b) \subseteq seen[m]
        /\ m <= n => c[m] \in seen[m]
        /\ n <= m => c[n] \in seen[m]
    BY <2>1
  <2> HIDE DEF T
  <2>3. new[m+1] = (UNION {Successors(d) : d \in new[m]}) \ seen[m] /\ seen[m+1] = seen[m] \cup new[m+1]
    BY <1>1, <2>1
  <2>4. ASSUME NEW b \in seen[m] PROVE Successors(b) \subseteq seen[m+1]
    <3>1. CASE b \in new[m]
      <4>1. \A x \in Successors(b) : x \in new[m+1] \/ x \in seen[m]
        BY <2>3, <3>1
      <4> QED BY <2>3, <4>1
    <3>2. CASE b \notin new[m]
      BY <2>2, <2>3, <3>2
    <3> QED BY <3>1, <3>2
  <2>5. \A b \in seen[m+1] \ new[m+1] : Successors(b) \subseteq seen[m+1]
    BY <2>3, <2>4
  <2>6. m + 1 <= n => c[m+1] \in seen[m+1]
    <3> SUFFICES ASSUME m + 1 <= n PROVE c[m+1] \in seen[m+1]
      OBVIOUS
    <3>1. m \in 0..n-1 /\ m <= n
      BY <2>1
    <3>2. c[m] \in seen[m] /\ c[m+1] \in Successors(c[m])
      BY <2>2, <3>1
    <3> QED BY <2>4, <3>2
  <2>7. n <= m + 1 => c[n] \in seen[m+1]
    <3>1. n <= m + 1 => n <= m \/ n = m + 1
      BY <2>1
    <3>2. n = m + 1 => c[n] \in seen[m+1]
      BY <2>1, <2>6
    <3> QED BY <2>2, <2>3, <3>1, <3>2
  <2> QED BY <2>3, <2>5, <2>6, <2>7
<1>5. T = Nat
  <2>1. T \in SUBSET Nat
    OBVIOUS
  <2> HIDE DEF T
  <2> QED BY <1>3, <1>4, <2>1, Naturals_!NatSetInduction
<1>6. c[n] \in seen[Diameter]
  BY <1>2, <1>5
<1> QED BY <1>1, <1>6

LEMMA SafeIsConcrete ==
  ASSUME sys \in SystemType, Prophesied(prophs), IsSafe
  PROVE  ConcreteCexLengths(ConcreteDiameter) = {}
<1> SUFFICES ASSUME NEW n \in ConcreteCexLengths(ConcreteDiameter) PROVE FALSE
  OBVIOUS
<1>1. Diameter \in Nat /\ ConcreteDiameter \in Nat /\ ConcreteDiameter <= Diameter
  BY DiameterCovers
<1>2. n \in 0..ConcreteDiameter /\ n \in Nat /\ n <= Diameter
  <2>1. n \in 0..ConcreteDiameter
    BY <1>1, ExecutionIsSeen
  <2> QED BY <1>1, <2>1
<1>3. PICK c : /\ \A S : c[0] \in Initial(S, prophs, {})
               /\ \A j \in 0..n-1 : \E i \in Input : \A S : c[j+1] \in StepsUnder(c[j], i, S)
               /\ \A S : Bad(c[n], S, prophs)
  BY <1>1, ExecutionIsSeen
<1>4. \A j \in 0..n-1 : c[j+1] \in Successors(c[j])
  <2> SUFFICES ASSUME NEW j \in 0..n-1 PROVE c[j+1] \in Successors(c[j])
    OBVIOUS
  <2>1. PICK i \in Input : c[j+1] \in StepsUnder(c[j], i, axioms.source)
    BY <1>3
  <2> QED BY <2>1 DEF Successors
<1>5. ~IsBad(c[n])
  BY <1>2, <1>3, <1>4, SafeCovers
<1> QED BY <1>3, <1>5 DEF IsBad

----------------------------------------------------------------------------
(* What indices are prophesied.                                            *)

\* f is out where stop is reached, and elsewhere what it is at the next of G.
Descends(f, D, out, G, stop) == f = [x \in D |-> IF x \in stop THEN out[x] ELSE f[G[x]]]

LEMMA DescentExists ==
  ASSUME NEW D, NEW U, NEW out \in [D -> U], NEW G \in [D -> D], NEW stop, NEW N \in Nat,
         NEW size \in [D -> 0..N], \A x \in D : x \notin stop => size[G[x]] < size[x]
  PROVE  \E f : Descends(f, D, out, G, stop)
<1> DEFINE V == [D -> U]
           Then(F) == [x \in D |-> IF x \in stop THEN out[x] ELSE F[G[x]]]
           H == [F \in V |-> Then(F)]
<1>1. H \in [V -> V]
  <2>1. ASSUME NEW F \in V PROVE Then(F) \in V
    OBVIOUS
  <2> HIDE DEF V, Then
  <2> QED BY <2>1
<1>2. PICK h : Iterates(h, V, out, H, N + 1)
  <2>1. N + 1 \in Nat /\ out \in V
    OBVIOUS
  <2> HIDE DEF H, V
  <2> QED BY <1>1, <2>1, IterationExists
<1>3. \A m \in 0..N+1 : h[m] \in V
  <2> HIDE DEF H, V
  <2> QED BY <1>2 DEF Iterates
<1>4. h[0] = out /\ \A m \in 0..N : h[m+1] = Then(h[m])
  <2> SUFFICES ASSUME NEW m \in 0..N PROVE h[0] = out /\ h[m+1] = Then(h[m])
    <3>1. 0 \in 0..N
      OBVIOUS
    <3> HIDE DEF Then
    <3> QED BY <3>1
  <2>1. m + 1 \in 0..N+1 /\ m \in 0..N+1 /\ m + 1 # 0 /\ (m + 1) - 1 = m /\ 0 \in 0..N+1
    OBVIOUS
  <2>2. H[h[m]] = Then(h[m])
    <3> HIDE DEF Then, V
    <3> QED BY <1>3, <2>1
  <2> HIDE DEF H, Then, V
  <2> QED BY <1>2, <2>1, <2>2 DEF Iterates
<1> HIDE DEF H
<1>5. \A m \in 0..N, x \in D : h[m+1][x] = IF x \in stop THEN out[x] ELSE h[m][G[x]]
  BY <1>4
<1> DEFINE T == {m \in Nat : m <= N => \A x \in D : size[x] <= m => h[m+1][x] = h[m][x]}
<1>6. 0 \in T
  <2> SUFFICES ASSUME NEW x \in D, size[x] <= 0 PROVE h[0+1][x] = h[0][x]
    OBVIOUS
  <2>1. G[x] \in D /\ size[x] \in 0..N
    OBVIOUS
  <2>2. size[G[x]] \in 0..N
    BY <2>1
  <2>3. x \in stop
    BY <2>1, <2>2
  <2>4. 0 \in 0..N
    OBVIOUS
  <2> QED BY <1>4, <1>5, <2>3, <2>4
<1>7. ASSUME NEW m \in T PROVE m + 1 \in T
  <2> SUFFICES ASSUME m + 1 <= N, NEW x \in D, size[x] <= m + 1 PROVE h[(m+1)+1][x] = h[m+1][x]
    OBVIOUS
  <2>1. m \in 0..N /\ m + 1 \in 0..N
    OBVIOUS
  <2>2. /\ h[(m+1)+1][x] = IF x \in stop THEN out[x] ELSE h[m+1][G[x]]
        /\ h[m+1][x] = IF x \in stop THEN out[x] ELSE h[m][G[x]]
    BY <1>5, <2>1
  <2>3. CASE x \notin stop
    <3>1. G[x] \in D /\ size[x] \in 0..N
      OBVIOUS
    <3>2. size[G[x]] \in 0..N /\ size[G[x]] < size[x]
      BY <2>3, <3>1
    <3>3. size[G[x]] <= m
      BY <3>1, <3>2
    <3>4. h[m+1][G[x]] = h[m][G[x]]
      BY <2>1, <3>1, <3>3
    <3> QED BY <2>2, <3>4
  <2> QED BY <2>2, <2>3
<1>8. T = Nat
  <2>1. T \in SUBSET Nat
    OBVIOUS
  <2> HIDE DEF T
  <2> QED BY <1>6, <1>7, <2>1, Naturals_!NatSetInduction
<1>9. \A x \in D : h[N+1][x] = h[N][x]
  <2>1. \A x \in D : size[x] \in 0..N
    OBVIOUS
  <2>2. \A x \in D : size[x] <= N
    BY <2>1
  <2>3. N \in T
    BY <1>8
  <2> QED BY <2>2, <2>3
<1>10. h[N+1] = h[N]
  <2>1. N \in 0..N+1 /\ N + 1 \in 0..N+1
    OBVIOUS
  <2>2. h[N+1] \in V /\ h[N] \in V
    BY <1>3, <2>1
  <2> QED BY <1>9, <2>2
<1>11. h[N+1] = Then(h[N])
  <2>1. N \in 0..N
    OBVIOUS
  <2> HIDE DEF Then
  <2> QED BY <1>4, <2>1
<1>12. h[N] = Then(h[N])
  <2> HIDE DEF Then
  <2> QED BY <1>10, <1>11
<1> QED BY <1>12 DEF Descends

LEMMA DescentType ==
  ASSUME NEW D, NEW U, NEW out \in [D -> U], NEW G \in [D -> D], NEW stop, NEW N \in Nat,
         NEW size \in [D -> 0..N], \A x \in D : x \notin stop => size[G[x]] < size[x],
         NEW f, Descends(f, D, out, G, stop)
  PROVE  \A x \in D : f[x] \in U
<1> DEFINE T == {m \in Nat : \A x \in D : size[x] <= m => f[x] \in U}
<1>1. \A x \in D : f[x] = IF x \in stop THEN out[x] ELSE f[G[x]]
  BY DEF Descends
<1>2. \A x \in D : size[x] \in 0..N /\ G[x] \in D /\ out[x] \in U
  OBVIOUS
<1>3. 0 \in T
  <2> SUFFICES ASSUME NEW x \in D, size[x] <= 0 PROVE f[x] \in U
    OBVIOUS
  <2>1. size[x] \in 0..N /\ size[G[x]] \in 0..N
    BY <1>2
  <2>2. x \in stop
    BY <2>1
  <2> QED BY <1>1, <1>2, <2>2
<1>4. ASSUME NEW m \in T PROVE m + 1 \in T
  <2> SUFFICES ASSUME NEW x \in D, size[x] <= m + 1 PROVE f[x] \in U
    OBVIOUS
  <2>1. CASE x \in stop
    BY <1>1, <1>2, <2>1
  <2>2. CASE x \notin stop
    <3>1. G[x] \in D /\ size[x] \in 0..N
      BY <1>2
    <3>2. size[G[x]] \in 0..N /\ size[G[x]] < size[x]
      BY <1>2, <2>2, <3>1
    <3>3. size[G[x]] <= m
      BY <3>1, <3>2
    <3> QED BY <1>1, <2>2, <3>1, <3>3
  <2> QED BY <2>1, <2>2
<1>5. T = Nat
  <2>1. T \in SUBSET Nat
    OBVIOUS
  <2> HIDE DEF T
  <2> QED BY <1>3, <1>4, <2>1, Naturals_!NatSetInduction
<1>6. \A x \in D : size[x] <= N
  BY <1>2
<1> QED BY <1>5, <1>6

LEMMA GuessesFacts ==
  ASSUME NEW n \in Nat
  PROVE  Guesses(n) \subseteq Terms \X (0..n) /\ IsFiniteSet(Guesses(n))
<1>1. Guesses(n) \subseteq Terms \X (0..n)
  BY DEF Guesses
<1>2. IsFiniteSet(Terms)
  <2>1. IsFiniteSet({Wit}) /\ IsFiniteSet({})
    BY FS_Singleton, FS_EmptySet
  <2>2. IsFiniteSet(Term \cup {Wit}) /\ IsFiniteSet(Term \cup {})
    BY <2>1, SortsAssumption, FS_Union
  <2> QED BY <2>2 DEF Terms
<1>3. IsFiniteSet(0..n)
  BY FS_Interval
<1>4. IsFiniteSet(Terms \X (0..n))
  BY <1>2, <1>3, FS_Product
<1> QED BY <1>1, <1>4, FS_Subset

LEMMA ClosestExists ==
  ASSUME NEW n \in Nat, NEW G \in SUBSET Guesses(n), G # {}
  PROVE  /\ \E g \in G : \A f \in G : f[2] <= g[2]
         /\ \E g \in G : \A f \in G : g[2] <= f[2]
<1> DEFINE S == {g[2] : g \in G}
<1>1. S \in SUBSET (0..n) /\ S # {}
  BY GuessesFacts
<1>2. \A g \in G : g[2] \in S
  OBVIOUS
<1>3. \A d \in S : \E g \in G : g[2] = d
  OBVIOUS
<1> HIDE DEF S
<1>4. Max(S) \in S /\ \A d \in S : d <= Max(S)
  BY <1>1, MaxFacts
<1>5. S \in SUBSET Nat
  BY <1>1
<1>6. PICK d \in S : \A e \in S : d <= e
  BY <1>1, <1>5, Naturals_!LeastNat
<1>7. PICK g \in G : g[2] = Max(S)
  BY <1>3, <1>4
<1>8. PICK f \in G : f[2] = d
  BY <1>3, <1>6
<1> HIDE DEF Max
<1>9. \A e \in G : e[2] <= g[2] /\ f[2] <= e[2]
  BY <1>2, <1>4, <1>6, <1>7, <1>8
<1> QED BY <1>9

LEMMA NeededAreGuesses ==
  ASSUME NEW n \in Nat PROVE Needed(n) \subseteq Guesses(n)
<1> DEFINE W == Guesses(n)
           D == (SUBSET W) \X SUBSET W
           suffice(G) == Excluded(n, Consecutive(n, prophs), prophs, G)
           upto(d) == {g \in W : g[2] <= d}
           first(G) == CHOOSE g \in G : \A f \in G : IF sys.nonconsecRed THEN f[2] <= g[2] ELSE g[2] <= f[2]
           Then(p) == LET g    == first(p[1])
                          rest == p[2] \ {g}
                      IN  <<p[1] \ {g}, IF suffice(rest) THEN rest ELSE p[2]>>
           B(f) == [p \in D |-> IF p[1] = {} THEN p[2] ELSE f[Then(p)]]
           spare == CHOOSE f : f = B(f)
           nearest == upto(Min({d \in 0..n : suffice(upto(d))}))
           stop == {p \in D : p[1] = {}}
           out == [p \in D |-> p[2]]
           size == [p \in D |-> Cardinality(p[1])]
           N == Cardinality(W)
           \* Nothing is left to drop from a set that is empty.
           G == [p \in D |-> IF p[1] = {} THEN p ELSE Then(p)]
<1>1. Needed(n) = spare[<<nearest, nearest>>]
  BY DEF Needed
<1>2. IsFiniteSet(W) /\ N \in Nat
  BY GuessesFacts, FS_CardinalityType
<1>3. ASSUME NEW S \in SUBSET W, S # {} PROVE first(S) \in S
  <2>1. /\ \E g \in S : \A f \in S : f[2] <= g[2]
        /\ \E g \in S : \A f \in S : g[2] <= f[2]
    BY <1>3, ClosestExists
  <2>2. CASE sys.nonconsecRed
    <3> DEFINE P(g) == \A f \in S : IF sys.nonconsecRed THEN f[2] <= g[2] ELSE g[2] <= f[2]
    <3>1. \E g \in S : P(g)
      BY <2>1, <2>2
    <3> HIDE DEF P
    <3>2. (CHOOSE g \in S : P(g)) \in S
      BY <3>1
    <3> QED BY <3>2 DEF P
  <2>3. CASE ~sys.nonconsecRed
    <3> DEFINE P(g) == \A f \in S : IF sys.nonconsecRed THEN f[2] <= g[2] ELSE g[2] <= f[2]
    <3>1. \E g \in S : P(g)
      BY <2>1, <2>3
    <3> HIDE DEF P
    <3>2. (CHOOSE g \in S : P(g)) \in S
      BY <3>1
    <3> QED BY <3>2 DEF P
  <2> QED BY <2>2, <2>3
<1> HIDE DEF W, suffice, first
<1>4. ASSUME NEW p \in D PROVE Then(p) \in D
  OBVIOUS
<1>5. ASSUME NEW p \in D, p[1] # {} PROVE Cardinality(Then(p)[1]) < Cardinality(p[1])
  <2>1. p[1] \in SUBSET W
    OBVIOUS
  <2>2. IsFiniteSet(p[1])
    BY <1>2, <2>1, FS_Subset
  <2>3. first(p[1]) \in p[1]
    BY <1>3, <1>5, <2>1
  <2>4. Then(p)[1] = p[1] \ {first(p[1])}
    OBVIOUS
  <2> HIDE DEF Then, D
  <2>5. Cardinality(p[1]) \in Nat /\ Cardinality(p[1] \ {first(p[1])}) = Cardinality(p[1]) - 1
    BY <2>2, <2>3, FS_RemoveElement, FS_CardinalityType
  <2> QED BY <2>4, <2>5
<1> HIDE DEF Then
<1>6. G \in [D -> D] /\ out \in [D -> SUBSET W]
  <2>1. out \in [D -> SUBSET W]
    OBVIOUS
  <2> HIDE DEF D
  <2> QED BY <1>4, <2>1
<1>7. size \in [D -> 0..N]
  <2>1. ASSUME NEW p \in D PROVE Cardinality(p[1]) \in 0..N
    <3>1. p[1] \in SUBSET W
      OBVIOUS
    <3> HIDE DEF D
    <3>2. IsFiniteSet(p[1]) /\ Cardinality(p[1]) <= N
      BY <1>2, <3>1, FS_Subset
    <3> HIDE DEF N
    <3> QED BY <1>2, <3>2, FS_CardinalityType
  <2> HIDE DEF D
  <2> QED BY <2>1
<1>8. \A p \in D : p \notin stop => size[G[p]] < size[p]
  <2> SUFFICES ASSUME NEW p \in D, p[1] # {} PROVE size[G[p]] < size[p]
    BY DEF stop
  <2>1. G[p] = Then(p) /\ Then(p) \in D
    <3> HIDE DEF D
    <3> QED BY <1>4
  <2> HIDE DEF G, D
  <2> QED BY <1>5, <2>1
<1>9. \A f : Descends(f, D, out, G, stop) <=> f = B(f)
  <2> HIDE DEF D
  <2> QED BY DEF Descends
<1>10. spare = B(spare)
  <2> HIDE DEF D, G, size, stop, out, N, B
  <2>1. \E f : Descends(f, D, out, G, stop)
    BY <1>2, <1>6, <1>7, <1>8, DescentExists
  <2>2. \E f : f = B(f)
    BY <1>9, <2>1
  <2> QED BY ONLY <2>2, Zenon
<1>11. \A p \in D : spare[p] \in SUBSET W
  <2>1. Descends(spare, D, out, G, stop)
    <3> HIDE DEF D, G, size, stop, out, N, B, spare
    <3> QED BY <1>9, <1>10
  <2> HIDE DEF D, G, size, stop, out, N, B, spare
  <2> QED BY <1>2, <1>6, <1>7, <1>8, <2>1, DescentType
<1>12. <<nearest, nearest>> \in D
  OBVIOUS
<1> HIDE DEF D, spare, nearest
<1>13. spare[<<nearest, nearest>>] \in SUBSET W
  BY <1>11, <1>12
<1> QED BY <1>1, <1>13 DEF W

----------------------------------------------------------------------------
(* The run of check_until.                                                 *)

\* The inductive invariant.
ArraysInv ==
  /\ sys \in Systems
  /\ Prophesied(prophs)
  /\ reached \in Int /\ reached >= -1
  /\ verdict = "TRUE" => ConcreteCexLengths(ConcreteDiameter) = {}

LEMMA ArraysInvInit ==
  ASSUME Init PROVE ArraysInv
<1>1. Prophesied(prophs)
  <2>1. 0 \in Nat /\ {} \subseteq Terms \X (0..0)
    OBVIOUS
  <2> QED BY <2>1 DEF Init, Start, Prophesied
<1> QED BY <1>1 DEF Init, Start, ArraysInv

\* What does not concern the prophecy variables and gives no other verdict.
LEMMA ArraysInvKept ==
  ASSUME ArraysInv, UNCHANGED <<sys, prophs>>, reached' \in Int, reached' >= -1,
         verdict' = "TRUE" => verdict = "TRUE"
  PROVE  ArraysInv'
<1>1. Prophesied(prophs)'
  BY DEF ArraysInv, Prophesied, Terms
<1>2. ConcreteCexLengths(ConcreteDiameter)' = ConcreteCexLengths(ConcreteDiameter)
  BY DEF ConcreteCexLengths, ConcreteDiameter, ConcreteInit, ConcreteNext, ConcreteBad
<1> QED BY <1>1, <1>2 DEF ArraysInv

LEMMA ProphesyKeepsInv ==
  ASSUME ArraysInv, Prophesy PROVE ArraysInv'
<1>1. bound \in Nat /\ reached \in Int /\ reached >= -1
  BY DEF ArraysInv, bound
<1>2. PICK Q \in {prophs \cup Needed(bound)} :
        \/ prophs' = Q /\ reached' = bound
        \/ UNCHANGED <<prophs, reached>>
  BY DEF Prophesy, Refined
<1>3. UNCHANGED <<sys, verdict>>
  BY DEF Prophesy
<1>4. Prophesied(prophs \cup Needed(bound))
  <2>1. PICK N \in Nat : prophs \subseteq Terms \X (0..N)
    BY DEF ArraysInv, Prophesied
  <2>2. Needed(bound) \subseteq Terms \X (0..bound)
    BY <1>1, NeededAreGuesses, GuessesFacts
  <2>3. PICK M \in Nat : N <= M /\ bound <= M
    <3>1. N + bound \in Nat /\ N <= N + bound /\ bound <= N + bound
      BY <1>1
    <3> QED BY <3>1
  <2>4. 0..N \subseteq 0..M /\ 0..bound \subseteq 0..M
    BY <1>1, <2>3
  <2>5. prophs \cup Needed(bound) \subseteq Terms \X (0..M)
    BY <2>1, <2>2, <2>4
  <2> QED BY <2>5 DEF Prophesied
<1>5. Prophesied(prophs') /\ reached' \in Int /\ reached' >= -1
  BY <1>1, <1>2, <1>4 DEF ArraysInv
<1>6. Prophesied(prophs)'
  BY <1>3, <1>5 DEF Prophesied, Terms
<1>7. ConcreteCexLengths(ConcreteDiameter)' = ConcreteCexLengths(ConcreteDiameter)
  BY <1>3 DEF ConcreteCexLengths, ConcreteDiameter, ConcreteInit, ConcreteNext, ConcreteBad
<1> QED BY <1>3, <1>5, <1>6, <1>7 DEF ArraysInv

LEMMA ArraysInvStep ==
  ASSUME ArraysInv, [Next]_vars PROVE ArraysInv'
<1>1. reached \in Int /\ reached >= -1 /\ bound \in Int /\ bound >= -1 /\ sys \in SystemType /\ Prophesied(prophs)
  BY SystemsAssumption DEF ArraysInv, bound
<1>2. CASE Enumerate
  BY <1>1, <1>2, ArraysInvKept DEF Enumerate
<1>3. CASE NothingToAdd
  BY <1>1, <1>3, ArraysInvKept DEF NothingToAdd, Refined
<1>4. CASE AddAxioms
  BY <1>1, <1>4, ArraysInvKept DEF AddAxioms, Refined
<1>5. CASE Prophesy
  BY <1>5, ProphesyKeepsInv
<1>6. CASE ConcreteCex
  BY <1>1, <1>6, ArraysInvKept DEF ConcreteCex
<1>7. CASE Proved
  <2>1. ConcreteCexLengths(ConcreteDiameter) = {}
    BY <1>1, <1>7, SafeIsConcrete DEF Proved
  <2>2. UNCHANGED <<sys, prophs, reached>>
    BY <1>7 DEF Proved
  <2>3. ConcreteCexLengths(ConcreteDiameter)' = ConcreteCexLengths(ConcreteDiameter)
    BY <2>2 DEF ConcreteCexLengths, ConcreteDiameter, ConcreteInit, ConcreteNext, ConcreteBad
  <2>4. Prophesied(prophs)'
    BY <1>1, <2>2 DEF Prophesied, Terms
  <2> QED BY <2>1, <2>2, <2>3, <2>4 DEF ArraysInv
<1>8. CASE GiveUp
  BY <1>1, <1>8, ArraysInvKept DEF GiveUp
<1>9. CASE AbstractCex
  <2>1. PICK n \in CexLengths(MaxBound) : reached' = n - 1
    BY <1>9 DEF AbstractCex
  <2>2. n \in 0..MaxBound
    BY <2>1 DEF CexLengths
  <2>3. reached' \in Int /\ reached' >= -1
    BY <2>1, <2>2, BoundAssumption
  <2> QED BY <1>9, <2>3, ArraysInvKept DEF AbstractCex
<1>10. CASE UNCHANGED vars
  BY <1>1, <1>10, ArraysInvKept DEF vars
<1> QED BY <1>2, <1>3, <1>4, <1>5, <1>6, <1>7, <1>8, <1>9, <1>10 DEF Next, Finished

\* No axiom and no prophecy hides a counterexample of the concrete system: the
\* refined system has one of the same length up to MaxBound, and TRUE about it
\* is only said of a concrete system that has none.
THEOREM ArraysTheorem == Spec => []CounterexamplesSurvive
<1>1. Init => ArraysInv
  BY ArraysInvInit
<1>2. ArraysInv /\ [Next]_vars => ArraysInv'
  BY ArraysInvStep
<1>3. ArraysInv => CounterexamplesSurvive
  <2> SUFFICES ASSUME ArraysInv PROVE CounterexamplesSurvive
    OBVIOUS
  <2>1. sys \in SystemType /\ Prophesied(prophs)
    BY SystemsAssumption DEF ArraysInv
  <2>2. ConcreteCexLengths(MaxBound) \subseteq CexLengths(MaxBound)
    BY <2>1, BoundAssumption, CexLengthsSurvive
  <2> QED BY <2>2 DEF ArraysInv, CounterexamplesSurvive
<1> QED BY <1>1, <1>2, <1>3, PTL DEF Spec

----------------------------------------------------------------------------
(* The loop over terms: CegarOpsUf and CegarValues.                        *)

\* The operator of FiniteSets is the same in the module of an instance.
LEMMA SameLibrary == \A S : OfTerms!Cardinality(S) = Cardinality(S)
BY DEF OfTerms!Cardinality, Cardinality

\* The sets and the operator are what they are called; there are inputs, if only one.
Grounded ==
  /\ Op \in [Val -> Val] /\ Input # {}
  /\ IsFiniteSet(State) /\ IsFiniteSet(Input) /\ MaxBound \in Nat
  /\ \A s \in OpSystems : OfTerms!Proper(s) /\ OfTerms!NoSharedInputs(s)

\* The states of the abstract system.
TermConfig == [s : State, e : OfTerms!Extras]

LEMMA SuccessorsAreConfigs ==
  ASSUME NEW C, NEW c \in TermConfig PROVE OfTerms!Successors(c, C) \subseteq TermConfig
<1> SUFFICES ASSUME NEW d \in OfTerms!Successors(c, C) PROVE d \in TermConfig
  OBVIOUS
<1>1. PICK p \in Input \X State : d \in OfTerms!Targets(c, p[1], p[2])
  BY DEF OfTerms!Successors
<1>2. p[2] \in State /\ c.e \in OfTerms!Extras
  BY DEF TermConfig
<1>3. d \in [s : {p[2]}, e : OfTerms!Extras]
  BY <1>1, <1>2 DEF OfTerms!Targets
<1> QED BY <1>2, <1>3 DEF TermConfig

\* The sets that Layer is the last of.
LEMMA LayerFacts ==
  ASSUME NEW C, NEW n \in Nat
  PROVE  \E f : /\ OfTerms!Layer(C, n) = f[n] /\ f[0] = OfTerms!Initial
                /\ \A m \in 1..n : f[m] = UNION {OfTerms!Successors(c, C) : c \in f[m-1]}
<1> DEFINE G == [X \in SUBSET TermConfig |-> UNION {OfTerms!Successors(c, C) : c \in X}]
           B(f) == [m \in 0..n |-> IF m = 0 THEN OfTerms!Initial ELSE UNION {OfTerms!Successors(c, C) : c \in f[m-1]}]
           layer == CHOOSE f : f = B(f)
<1>1. OfTerms!Initial \in SUBSET TermConfig
  BY DEF OfTerms!Initial, TermConfig
<1>2. G \in [SUBSET TermConfig -> SUBSET TermConfig]
  <2>1. ASSUME NEW X \in SUBSET TermConfig PROVE UNION {OfTerms!Successors(c, C) : c \in X} \in SUBSET TermConfig
    <3>1. \A c \in X : OfTerms!Successors(c, C) \subseteq TermConfig
      BY SuccessorsAreConfigs
    <3> QED BY <3>1
  <2> QED BY <2>1
<1>3. PICK f : Iterates(f, SUBSET TermConfig, OfTerms!Initial, G, n)
  <2> HIDE DEF G
  <2> QED BY <1>1, <1>2, IterationExists
<1>4. f = B(f)
  <2>1. \A m \in 0..n : m # 0 => m - 1 \in 0..n
    OBVIOUS
  <2>2. \A m \in 0..n : m # 0 => G[f[m-1]] = UNION {OfTerms!Successors(c, C) : c \in f[m-1]}
    BY <1>3, <2>1 DEF Iterates
  <2> HIDE DEF G
  <2>3. f = [m \in 0..n |-> f[m]] /\ \A m \in 0..n : f[m] = B(f)[m]
    BY <1>3, <2>2 DEF Iterates
  <2> QED BY <2>3
<1>5. layer = B(layer)
  <2> HIDE DEF B
  <2>1. \E h : h = B(h)
    BY <1>4
  <2> QED BY ONLY <2>1, Zenon
<1>6. OfTerms!Layer(C, n) = layer[n]
  BY DEF OfTerms!Layer
<1>7. layer[0] = OfTerms!Initial /\ \A m \in 1..n : layer[m] = UNION {OfTerms!Successors(c, C) : c \in layer[m-1]}
  <2> HIDE DEF layer
  <2>1. 0 \in 0..n /\ \A m \in 1..n : m \in 0..n /\ m # 0
    OBVIOUS
  <2> QED BY <1>5, <2>1
<1> HIDE DEF layer
<1> QED BY <1>6, <1>7

LEMMA TermConcreteLayerFacts ==
  ASSUME NEW n \in Nat
  PROVE  \E g : /\ OfTerms!ConcreteLayer(n) = g[n]
                /\ g[0] = {s \in State : OfTerms!ConcreteIs(tsys.init, s)}
                /\ \A m \in 1..n : g[m] = {t \in State : \E s \in g[m-1] : OfTerms!ConcreteStep(s, t)}
<1> DEFINE A == {s \in State : OfTerms!ConcreteIs(tsys.init, s)}
           G == [X \in SUBSET State |-> {t \in State : \E s \in X : OfTerms!ConcreteStep(s, t)}]
           B(f) == [m \in 0..n |-> IF m = 0 THEN A ELSE {t \in State : \E s \in f[m-1] : OfTerms!ConcreteStep(s, t)}]
           layer == CHOOSE f : f = B(f)
<1>1. A \in SUBSET State
  OBVIOUS
<1>2. G \in [SUBSET State -> SUBSET State]
  OBVIOUS
<1>3. PICK f : Iterates(f, SUBSET State, A, G, n)
  <2> HIDE DEF G, A
  <2> QED BY <1>1, <1>2, IterationExists
<1>4. f = B(f)
  <2> HIDE DEF A
  <2>1. \A m \in 0..n : m # 0 => m - 1 \in 0..n
    OBVIOUS
  <2>2. \A m \in 0..n : m # 0 => G[f[m-1]] = {t \in State : \E s \in f[m-1] : OfTerms!ConcreteStep(s, t)}
    BY <1>3, <2>1 DEF Iterates
  <2> HIDE DEF G
  <2>3. f = [m \in 0..n |-> f[m]] /\ \A m \in 0..n : f[m] = B(f)[m]
    BY <1>3, <2>2 DEF Iterates
  <2> QED BY <2>3
<1>5. layer = B(layer)
  <2> HIDE DEF B
  <2>1. \E h : h = B(h)
    BY <1>4
  <2> QED BY ONLY <2>1, Zenon
<1>6. OfTerms!ConcreteLayer(n) = layer[n]
  BY DEF OfTerms!ConcreteLayer
<1>7. layer[0] = A /\ \A m \in 1..n : layer[m] = {t \in State : \E s \in layer[m-1] : OfTerms!ConcreteStep(s, t)}
  <2> HIDE DEF layer, A
  <2>1. 0 \in 0..n /\ \A m \in 1..n : m \in 0..n /\ m # 0
    OBVIOUS
  <2> QED BY <1>5, <2>1
<1> HIDE DEF layer
<1> QED BY <1>6, <1>7

----------------------------------------------------------------------------
(* Terms whose equality holds have the values of the concrete system.      *)

\* The part of the invariant that is about the equalities added so far: none
\* excludes what the concrete system does.
AxiomsInv ==
  /\ equalities.init \subseteq {k \in tsys.terms : OfTerms!OnlyCurr(k)}
  /\ equalities.source \subseteq tsys.terms
  /\ equalities.target \subseteq tsys.terms
  /\ tsys.mode = "symbols" => \A k \in equalities.target : OfTerms!OnlyCurr(k)

Setting == Op \in [Val -> Val] /\ Input # {} /\ OfTerms!Proper(tsys) /\ OfTerms!NoSharedInputs(tsys)

LEMMA ArgFacts ==
  ASSUME Setting, NEW k \in OpTerm, NEW s \in State, NEW i \in Input, NEW t \in State
  PROVE  /\ OfTerms!Arg(k, s, i, t) \in Val /\ OfTerms!AnyInput \in Input
         /\ OfTerms!OnlyCurr(k) => OfTerms!Arg(k, s, i, t) = OfTerms!Arg(k, s, OfTerms!AnyInput, s)
         /\ tsys.mode = "values" /\ k \in tsys.terms =>
              /\ OfTerms!OnlyCurr(k)
              /\ \A r \in State, j \in Input, u \in State : OfTerms!Arg(k, r, j, u) = OfTerms!Arg(k, s, i, t)
<1>1. OfTerms!AnyInput \in Input
  BY DEF Setting, OfTerms!AnyInput
<1>2. tsys.arg[k] \in [State \X Input -> Val] /\ tsys.over[k] \in {"state", "input", "next"}
  BY DEF Setting, OfTerms!Proper, OfTerms!SystemType
<1>3. \A r, u \in State, j \in Input :
        (IF tsys.over[k] = "next" THEN u ELSE r) \in State
  OBVIOUS
<1>4. OfTerms!Arg(k, s, i, t) \in Val
  BY <1>2 DEF OfTerms!Arg
<1>5. ASSUME OfTerms!OnlyCurr(k) PROVE OfTerms!Arg(k, s, i, t) = OfTerms!Arg(k, s, OfTerms!AnyInput, s)
  BY <1>1, <1>5 DEF OfTerms!Arg, OfTerms!OnlyCurr, Setting, OfTerms!Proper
<1>6. ASSUME tsys.mode = "values", k \in tsys.terms
      PROVE  /\ OfTerms!OnlyCurr(k)
             /\ \A r \in State, j \in Input, u \in State : OfTerms!Arg(k, r, j, u) = OfTerms!Arg(k, s, i, t)
  <2>1. tsys.over[k] = "state" /\ \A p, q \in State \X Input : tsys.arg[k][p] = tsys.arg[k][q]
    BY <1>6 DEF Setting, OfTerms!Proper
  <2> QED BY <2>1 DEF OfTerms!Arg, OfTerms!OnlyCurr
<1> QED BY <1>1, <1>4, <1>5, <1>6

\* An equality holds if the function is the operator, or by the value.
LEMMA ExactFacts ==
  ASSUME NEW k \in tsys.terms, NEW c, NEW i, NEW t
  PROVE  /\ tsys.mode = "functions" /\ c.e = Op => OfTerms!Exact(k, c, i, t)
         /\ tsys.mode # "functions" => (OfTerms!Exact(k, c, i, t) <=> c.e[k] = Op[OfTerms!Arg(k, c.s, i, t)])
BY DEF OfTerms!Exact, OfTerms!Value

LEMMA ValuesAreConcrete ==
  ASSUME NEW c, NEW i, NEW t, \A k \in tsys.terms : OfTerms!Exact(k, c, i, t)
  PROVE  OfTerms!ValuesAt(c, i, t) = OfTerms!ConcreteValues(c.s, i, t)
BY DEF OfTerms!ValuesAt, OfTerms!ConcreteValues, OfTerms!Exact, OfTerms!Value

\* The initial and the bad states are about terms over the state.
LEMMA HoldsIsConcrete ==
  ASSUME Setting, NEW c \in TermConfig, \A k \in tsys.terms : OfTerms!OnlyCurr(k) => OfTerms!ExactHere(k, c)
  PROVE  /\ OfTerms!Holds(tsys.init, c) <=> OfTerms!ConcreteIs(tsys.init, c.s)
         /\ OfTerms!Bad(c) <=> OfTerms!ConcreteIs(tsys.bad, c.s)
<1> DEFINE v == OfTerms!ValuesAt(c, OfTerms!AnyInput, c.s)
           w == OfTerms!ConcreteValues(c.s, OfTerms!AnyInput, c.s)
<1>1. \A k \in OpTerm : tsys.over[k] = "state" => v[k] = w[k]
  BY DEF OfTerms!ValuesAt, OfTerms!ConcreteValues, OfTerms!ExactHere, OfTerms!Exact, OfTerms!Value,
         OfTerms!OnlyCurr
<1>2. c.s \in State /\ c.e \in OfTerms!Extras
  BY DEF TermConfig
<1>3. v \in OfTerms!Values /\ w \in OfTerms!Values
  <2>1. ASSUME NEW k \in OpTerm PROVE v[k] \in Val /\ w[k] \in Val
    <3>1. OfTerms!Arg(k, c.s, OfTerms!AnyInput, c.s) \in Val
      <4>1. OfTerms!AnyInput \in Input
        BY DEF Setting, OfTerms!AnyInput
      <4> QED BY <1>2, <4>1, ArgFacts
    <3>2. w[k] \in Val
      BY <3>1 DEF OfTerms!ConcreteValues, Setting
    <3>3. v[k] = OfTerms!Value(k, c.e, OfTerms!Arg(k, c.s, OfTerms!AnyInput, c.s))
      BY DEF OfTerms!ValuesAt
    <3>4. v[k] \in Val
      BY <1>2, <3>1, <3>3 DEF OfTerms!Value, OfTerms!Extras, Setting
    <3> QED BY <3>2, <3>4
  <2>2. v = [k \in OpTerm |-> v[k]] /\ w = [k \in OpTerm |-> w[k]]
    BY DEF OfTerms!ValuesAt, OfTerms!ConcreteValues
  <2> HIDE DEF v, w
  <2> QED BY <2>1, <2>2 DEF OfTerms!Values
<1> HIDE DEF v, w
<1>4. /\ <<c.s, v>> \in tsys.init <=> <<c.s, w>> \in tsys.init
      /\ <<c.s, v>> \in tsys.bad <=> <<c.s, w>> \in tsys.bad
  BY <1>1, <1>2, <1>3 DEF Setting, OfTerms!Proper
<1> QED BY <1>4 DEF OfTerms!Holds, OfTerms!Bad, OfTerms!ConcreteIs, v, w

----------------------------------------------------------------------------
(* No refinement hides what the concrete system does.                      *)

\* c chooses what the operator gives, as far as its state tells.
Fits(c) ==
  /\ tsys.mode = "functions" => c.e = Op
  /\ \A k \in tsys.terms : OfTerms!OnlyCurr(k) => OfTerms!ExactHere(k, c)

LEMMA InitialFits ==
  ASSUME Setting, AxiomsInv, NEW c \in TermConfig, Fits(c), OfTerms!ConcreteIs(tsys.init, c.s)
  PROVE  c \in OfTerms!Initial
<1>1. OfTerms!Holds(tsys.init, c)
  BY HoldsIsConcrete DEF Fits
<1>2. \A k \in equalities.init : OfTerms!ExactHere(k, c)
  BY DEF AxiomsInv, Fits
<1> QED BY <1>1, <1>2 DEF OfTerms!Initial, TermConfig

\* A concrete step into the state of d is a step into d.
LEMMA StepFits ==
  ASSUME Setting, AxiomsInv, NEW d \in TermConfig, Fits(d), NEW s \in State, OfTerms!ConcreteStep(s, d.s)
  PROVE  \E c \in TermConfig : c.s = s /\ Fits(c) /\ d \in OfTerms!Successors(c, {})
<1>1. PICK i \in Input : <<s, i, OfTerms!ConcreteValues(s, i, d.s), d.s>> \in tsys.step
  BY DEF OfTerms!ConcreteStep
<1>2. d.s \in State /\ d.e \in OfTerms!Extras /\ d = [s |-> d.s, e |-> d.e]
  BY DEF TermConfig
<1>3. tsys.terms \subseteq OpTerm /\ tsys.mode \in {"functions", "symbols", "values"}
  BY DEF Setting, OfTerms!Proper, OfTerms!SystemType
<1> DEFINE given == [k \in OpTerm |-> Op[OfTerms!Arg(k, s, i, d.s)]]
           x == IF tsys.mode = "symbols" THEN given ELSE d.e
           c == [s |-> s, e |-> x]
<1>4. x \in OfTerms!Extras
  <2>1. CASE tsys.mode = "symbols"
    <3>1. \A k \in OpTerm : Op[OfTerms!Arg(k, s, i, d.s)] \in Val
      BY <1>2, ArgFacts DEF Setting
    <3> QED BY <2>1, <3>1 DEF OfTerms!Extras
  <2>2. CASE tsys.mode # "symbols"
    BY <1>2, <2>2
  <2> QED BY <2>1, <2>2
<1>5. c \in TermConfig /\ c.s = s /\ c.e = x
  BY <1>4 DEF TermConfig
<1>6. /\ tsys.mode = "symbols" => \A k \in OpTerm : x[k] = Op[OfTerms!Arg(k, s, i, d.s)]
      /\ tsys.mode # "symbols" => x = d.e
  OBVIOUS
<1> HIDE DEF x, c
<1>7. OfTerms!AnyInput \in Input
  BY DEF Setting, OfTerms!AnyInput
\* The equality of every term holds in this step.
<1>8. ASSUME NEW k \in tsys.terms PROVE OfTerms!Exact(k, c, i, d.s)
  <2>1. CASE tsys.mode = "functions"
    BY <1>5, <1>6, <2>1, ExactFacts DEF Fits
  <2>2. CASE tsys.mode = "symbols"
    BY <1>3, <1>5, <1>6, <2>2, ExactFacts
  <2>3. CASE tsys.mode = "values"
    <3>1. OfTerms!OnlyCurr(k) /\ OfTerms!Arg(k, d.s, OfTerms!AnyInput, d.s) = OfTerms!Arg(k, s, i, d.s)
      BY <1>2, <1>3, <1>7, <2>3, ArgFacts
    <3>2. d.e[k] = Op[OfTerms!Arg(k, d.s, OfTerms!AnyInput, d.s)]
      BY <2>3, <3>1, ExactFacts DEF Fits, OfTerms!ExactHere
    <3> QED BY <1>5, <1>6, <2>3, <3>1, <3>2, ExactFacts
  <2> QED BY <1>3, <2>1, <2>2, <2>3
<1>9. Fits(c)
  <2>1. ASSUME NEW k \in tsys.terms, OfTerms!OnlyCurr(k) PROVE OfTerms!ExactHere(k, c)
    <3>1. OfTerms!Arg(k, s, i, d.s) = OfTerms!Arg(k, s, OfTerms!AnyInput, s)
      BY <1>2, <1>3, <2>1, ArgFacts
    <3> QED BY <1>5, <1>8, <3>1 DEF OfTerms!Exact, OfTerms!ExactHere
  <2>2. tsys.mode = "functions" => c.e = Op
    BY <1>5, <1>6 DEF Fits
  <2> QED BY <2>1, <2>2 DEF Fits
<1>10. OfTerms!Polarity(c)
  <2>1. ASSUME tsys.mode = "values", NEW k \in tsys.terms PROVE c.e[k] = Op[tsys.arg[k][<<c.s, OfTerms!AnyInput>>]]
    <3>1. OfTerms!OnlyCurr(k)
      BY <1>2, <1>3, <1>7, <2>1, ArgFacts
    <3>2. c.e[k] = Op[OfTerms!Arg(k, s, OfTerms!AnyInput, s)]
      BY <1>5, <1>9, <2>1, <3>1, ExactFacts DEF Fits, OfTerms!ExactHere
    <3> QED BY <1>5, <3>1, <3>2 DEF OfTerms!Arg, OfTerms!OnlyCurr
  <2> QED BY <2>1 DEF OfTerms!Polarity
<1>11. <<c.s, i, OfTerms!ValuesAt(c, i, d.s), d.s>> \in tsys.step
  BY <1>1, <1>5, <1>8, ValuesAreConcrete
<1>12. d \in OfTerms!Targets(c, i, d.s)
  <2>1. d \in [s : {d.s}, e : IF tsys.mode = "symbols" THEN OfTerms!Extras ELSE {c.e}]
    BY <1>2, <1>5, <1>6
  <2>2. ASSUME NEW k \in equalities.target PROVE OfTerms!Exact(k, d, i, d.s)
    <3>1. k \in tsys.terms
      BY DEF AxiomsInv
    <3>2. CASE tsys.mode = "functions"
      BY <3>1, <3>2, ExactFacts DEF Fits
    <3>3. CASE tsys.mode # "functions"
      <4>1. OfTerms!OnlyCurr(k)
        BY <1>2, <1>3, <1>7, <3>1, <3>3, ArgFacts DEF AxiomsInv
      <4>2. OfTerms!Arg(k, d.s, i, d.s) = OfTerms!Arg(k, d.s, OfTerms!AnyInput, d.s)
        BY <1>2, <1>3, <3>1, <4>1, ArgFacts
      <4> QED BY <3>1, <4>1, <4>2 DEF Fits, OfTerms!ExactHere, OfTerms!Exact
    <3> QED BY <3>2, <3>3
  <2> QED BY <2>1, <2>2 DEF OfTerms!Targets
<1>13. d \in OfTerms!Successors(c, {})
  <2> DEFINE p == <<i, d.s>>
  <2>1. p \in Input \X State /\ p[1] = i /\ p[2] = d.s
    BY <1>2
  <2>2. \A k \in equalities.source \cup {} : OfTerms!Exact(k, c, i, d.s)
    BY <1>8 DEF AxiomsInv
  <2> HIDE DEF p
  <2> QED BY <1>10, <1>11, <1>12, <2>1, <2>2 DEF OfTerms!Successors
<1> QED BY <1>5, <1>9, <1>13

LEMMA ConcreteLifts ==
  ASSUME Setting, AxiomsInv, NEW n \in Nat, NEW c \in TermConfig, Fits(c), c.s \in OfTerms!ConcreteLayer(n)
  PROVE  c \in OfTerms!Layer({}, n)
<1>1. PICK f : /\ OfTerms!Layer({}, n) = f[n] /\ f[0] = OfTerms!Initial
               /\ \A m \in 1..n : f[m] = UNION {OfTerms!Successors(b, {}) : b \in f[m-1]}
  BY LayerFacts
<1>2. PICK g : /\ OfTerms!ConcreteLayer(n) = g[n]
               /\ g[0] = {s \in State : OfTerms!ConcreteIs(tsys.init, s)}
               /\ \A m \in 1..n : g[m] = {t \in State : \E s \in g[m-1] : OfTerms!ConcreteStep(s, t)}
  BY TermConcreteLayerFacts
<1> DEFINE T == {m \in Nat : m <= n => \A d \in TermConfig : Fits(d) /\ d.s \in g[m] => d \in f[m]}
<1>3. 0 \in T
  BY <1>1, <1>2, InitialFits
<1>4. ASSUME NEW m \in T PROVE m + 1 \in T
  <2> SUFFICES ASSUME m + 1 <= n, NEW d \in TermConfig, Fits(d), d.s \in g[m+1] PROVE d \in f[m+1]
    OBVIOUS
  <2>1. m + 1 \in 1..n /\ (m + 1) - 1 = m /\ m <= n
    OBVIOUS
  <2>2. PICK s \in g[m] : OfTerms!ConcreteStep(s, d.s)
    BY <1>2, <2>1
  <2>3. g[m] \subseteq State
    <3>1. CASE m = 0
      BY <1>2, <3>1
    <3>2. CASE m # 0
      <4>1. m \in 1..n
        BY <2>1, <3>2
      <4> QED BY <1>2, <4>1
    <3> QED BY <3>1, <3>2
  <2>4. PICK b \in TermConfig : b.s = s /\ Fits(b) /\ d \in OfTerms!Successors(b, {})
    BY <2>2, <2>3, StepFits
  <2>5. b \in f[m]
    BY <2>1, <2>2, <2>4
  <2>6. f[m+1] = UNION {OfTerms!Successors(a, {}) : a \in f[m]}
    BY <1>1, <2>1
  <2> QED BY <2>4, <2>5, <2>6
<1>5. T = Nat
  <2>1. T \in SUBSET Nat
    OBVIOUS
  <2> HIDE DEF T
  <2> QED BY <1>3, <1>4, <2>1, Naturals_!NatSetInduction
<1> QED BY <1>1, <1>2, <1>5

LEMMA ConcreteLayerType ==
  ASSUME NEW n \in Nat PROVE OfTerms!ConcreteLayer(n) \subseteq State
<1>1. PICK g : /\ OfTerms!ConcreteLayer(n) = g[n]
               /\ g[0] = {s \in State : OfTerms!ConcreteIs(tsys.init, s)}
               /\ \A m \in 1..n : g[m] = {t \in State : \E s \in g[m-1] : OfTerms!ConcreteStep(s, t)}
  BY TermConcreteLayerFacts
<1>2. n = 0 \/ n \in 1..n
  OBVIOUS
<1> QED BY <1>1, <1>2

\* Every length of a concrete counterexample is one of an abstract one.
LEMMA TermCexLengthsSurvive ==
  ASSUME Setting, AxiomsInv, NEW m \in Nat
  PROVE  OfTerms!ConcreteCexLengths(m) \subseteq OfTerms!CexLengths(m)
<1> SUFFICES ASSUME NEW n \in OfTerms!ConcreteCexLengths(m) PROVE n \in OfTerms!CexLengths(m)
  OBVIOUS
<1>1. n \in 0..m /\ n \in Nat
  BY DEF OfTerms!ConcreteCexLengths
<1>2. PICK s \in OfTerms!ConcreteLayer(n) : OfTerms!ConcreteIs(tsys.bad, s)
  BY DEF OfTerms!ConcreteCexLengths
<1>3. s \in State
  BY <1>1, <1>2, ConcreteLayerType
<1> DEFINE x == IF tsys.mode = "functions" THEN Op ELSE [k \in OpTerm |-> Op[OfTerms!Arg(k, s, OfTerms!AnyInput, s)]]
           c == [s |-> s, e |-> x]
<1>4. OfTerms!AnyInput \in Input /\ tsys.terms \subseteq OpTerm
  BY DEF Setting, OfTerms!AnyInput, OfTerms!Proper, OfTerms!SystemType
<1>5. x \in OfTerms!Extras
  <2>1. \A k \in OpTerm : Op[OfTerms!Arg(k, s, OfTerms!AnyInput, s)] \in Val
    BY <1>3, <1>4, ArgFacts DEF Setting
  <2> QED BY <2>1 DEF OfTerms!Extras, Setting
<1>6. /\ tsys.mode = "functions" => x = Op
      /\ tsys.mode # "functions" => \A k \in OpTerm : x[k] = Op[OfTerms!Arg(k, s, OfTerms!AnyInput, s)]
  OBVIOUS
<1> HIDE DEF x
<1>7. c \in TermConfig /\ c.s = s /\ c.e = x
  BY <1>3, <1>5 DEF TermConfig
<1> HIDE DEF c
<1>8. Fits(c)
  BY <1>4, <1>6, <1>7, ExactFacts DEF Fits, OfTerms!ExactHere
<1>9. c \in OfTerms!Layer({}, n)
  BY <1>1, <1>2, <1>7, <1>8, ConcreteLifts
<1>10. OfTerms!Bad(c)
  BY <1>2, <1>7, <1>8, HoldsIsConcrete DEF Fits
<1> QED BY <1>1, <1>9, <1>10 DEF OfTerms!CexLengths

----------------------------------------------------------------------------
(* A path on which all equalities hold is one of the concrete system.      *)

\* What the query of cegar_refine returns.
IsPath(w, C, n) ==
  /\ w \in Seq(TermConfig) /\ Len(w) = n + 1
  /\ w[1] \in OfTerms!Initial
  /\ \A j \in 1..n : w[j+1] \in OfTerms!Successors(w[j], C)

LEMMA PathsArePaths ==
  ASSUME NEW C, OfTerms!CexLength \in Nat, NEW w \in OfTerms!Paths(C)
  PROVE  IsPath(w, C, OfTerms!CexLength) /\ OfTerms!AtTheEnd(C, w[OfTerms!CexLength + 1])
<1> DEFINE n == OfTerms!CexLength
           A == {<<c>> : c \in OfTerms!Initial}
           Longer(X) == UNION {{Append(v, d) : d \in OfTerms!Successors(OfTerms!Last(v), C)} : v \in X}
           U == SUBSET (Seq(TermConfig) \ {<<>>})
           G == [X \in U |-> Longer(X)]
           B(f) == [m \in 0..n |-> IF m = 0 THEN A ELSE Longer(f[m-1])]
           path == CHOOSE f : f = B(f)
<1>1. OfTerms!Initial \subseteq TermConfig
  BY DEF OfTerms!Initial, TermConfig
<1>2. A \in U
  <2>1. \A c \in TermConfig : <<c>> \in Seq(TermConfig) \ {<<>>}
    OBVIOUS
  <2> QED BY <1>1, <2>1
<1>3. ASSUME NEW v \in Seq(TermConfig) \ {<<>>}, NEW d \in OfTerms!Successors(OfTerms!Last(v), C)
      PROVE  /\ d \in TermConfig /\ OfTerms!Last(v) = v[Len(v)]
             /\ Append(v, d) \in Seq(TermConfig) /\ Append(v, d) # <<>> /\ Len(Append(v, d)) = Len(v) + 1
             /\ Append(v, d)[Len(v) + 1] = d /\ \A j \in 1..Len(v) : Append(v, d)[j] = v[j]
  <2>1. OfTerms!Last(v) = v[Len(v)] /\ OfTerms!Last(v) \in TermConfig
    BY DEF OfTerms!Last
  <2>2. d \in TermConfig
    BY <2>1, SuccessorsAreConfigs
  <2> QED BY <2>1, <2>2
<1>4. G \in [U -> U]
  <2>1. ASSUME NEW X \in U PROVE Longer(X) \in U
    BY <1>3
  <2> HIDE DEF U, Longer
  <2> QED BY <2>1
<1>5. PICK f : Iterates(f, U, A, G, n)
  <2> HIDE DEF U, A, G, n
  <2>1. n \in Nat
    BY DEF n
  <2> QED BY <1>2, <1>4, <2>1, IterationExists
<1>6. f = B(f)
  <2> HIDE DEF A, Longer, U
  <2>1. \A m \in 0..n : m # 0 => m - 1 \in 0..n
    OBVIOUS
  <2>2. \A m \in 0..n : m # 0 => G[f[m-1]] = Longer(f[m-1])
    BY <1>5, <2>1 DEF Iterates
  <2> HIDE DEF G
  <2>3. f = [m \in 0..n |-> f[m]] /\ \A m \in 0..n : f[m] = B(f)[m]
    BY <1>5, <2>2 DEF Iterates
  <2> QED BY <2>3
<1>7. path = B(path)
  <2> HIDE DEF B
  <2>1. \E h : h = B(h)
    BY <1>6
  <2> QED BY ONLY <2>1, Zenon
<1>8. w \in path[n] /\ OfTerms!AtTheEnd(C, OfTerms!Last(w))
  BY DEF OfTerms!Paths
<1>9. path[0] = A /\ \A m \in 1..n : path[m] = Longer(path[m-1])
  <2> HIDE DEF path, A, Longer
  <2>1. 0 \in 0..n /\ \A m \in 1..n : m \in 0..n /\ m # 0
    OBVIOUS
  <2> QED BY <1>7, <2>1
<1> HIDE DEF path
<1> DEFINE T == {m \in Nat : m <= n => \A v \in path[m] : IsPath(v, C, m)}
<1>10. 0 \in T
  <2> SUFFICES ASSUME NEW v \in path[0] PROVE IsPath(v, C, 0)
    OBVIOUS
  <2>1. PICK c \in OfTerms!Initial : v = <<c>>
    BY <1>9
  <2>2. v \in Seq(TermConfig) /\ Len(v) = 0 + 1 /\ v[1] = c
    BY <1>1, <2>1
  <2>3. \A j \in 1..0 : FALSE
    OBVIOUS
  <2> QED BY <2>2, <2>3 DEF IsPath
<1>11. ASSUME NEW m \in T PROVE m + 1 \in T
  <2> SUFFICES ASSUME m + 1 <= n, NEW v \in path[m+1] PROVE IsPath(v, C, m + 1)
    OBVIOUS
  <2>1. m + 1 \in 1..n /\ (m + 1) - 1 = m /\ m <= n /\ m \in Nat
    OBVIOUS
  <2>2. v \in Longer(path[m])
    BY <1>9, <2>1
  <2>3. PICK u \in path[m] : v \in {Append(u, d) : d \in OfTerms!Successors(OfTerms!Last(u), C)}
    BY <2>2
  <2>4. PICK d \in OfTerms!Successors(OfTerms!Last(u), C) : v = Append(u, d)
    BY <2>3
  <2>5. IsPath(u, C, m)
    BY <2>1, <2>3
  <2> HIDE DEF T, Longer, G, U
  <2>6. u \in Seq(TermConfig) \ {<<>>} /\ Len(u) = m + 1 /\ u[1] \in OfTerms!Initial
        /\ \A j \in 1..m : u[j+1] \in OfTerms!Successors(u[j], C)
    BY <2>1, <2>5 DEF IsPath
  <2>7. /\ OfTerms!Last(u) = u[m+1] /\ v \in Seq(TermConfig) /\ Len(v) = (m + 1) + 1 /\ v[(m+1)+1] = d
        /\ \A j \in 1..m+1 : v[j] = u[j]
    BY <1>3, <2>4, <2>6
  <2>8. v[1] \in OfTerms!Initial
    BY <2>1, <2>6, <2>7
  <2>9. ASSUME NEW j \in 1..m+1 PROVE v[j+1] \in OfTerms!Successors(v[j], C)
    <3>1. CASE j = m + 1
      BY <2>4, <2>7, <3>1
    <3>2. CASE j # m + 1
      <4>1. j \in 1..m /\ j + 1 \in 1..m+1
        BY <2>1, <3>2
      <4> QED BY <2>6, <2>7, <4>1
    <3> QED BY <3>1, <3>2
  <2> QED BY <2>7, <2>8, <2>9 DEF IsPath
<1>12. T = Nat
  <2>1. T \in SUBSET Nat
    OBVIOUS
  <2> HIDE DEF T
  <2> QED BY <1>10, <1>11, <2>1, Naturals_!NatSetInduction
<1>13. IsPath(w, C, n)
  BY <1>8, <1>12
<1>14. OfTerms!Last(w) = w[n + 1]
  BY <1>13 DEF OfTerms!Last, IsPath
<1> QED BY <1>8, <1>13, <1>14

LEMMA PathIsConcrete ==
  ASSUME Setting, AxiomsInv, OfTerms!CexLength \in Nat, NEW w \in OfTerms!Paths(tsys.terms)
  PROVE  OfTerms!IsConcreteCex([j \in DOMAIN w |-> w[j].s], OfTerms!CexLength)
<1> DEFINE n == OfTerms!CexLength
           q == [j \in DOMAIN w |-> w[j].s]
<1>1. /\ w \in Seq(TermConfig) /\ Len(w) = n + 1 /\ w[1] \in OfTerms!Initial
      /\ \A j \in 1..n : w[j+1] \in OfTerms!Successors(w[j], tsys.terms)
      /\ OfTerms!AtTheEnd(tsys.terms, w[n+1])
  BY PathsArePaths DEF IsPath
<1>2. DOMAIN w = 1..n+1 /\ \A j \in 1..n+1 : w[j] \in TermConfig /\ w[j].s \in State
  <2>1. DOMAIN w = 1..n+1 /\ \A j \in 1..n+1 : w[j] \in TermConfig
    BY <1>1
  <2>2. \A c \in TermConfig : c.s \in State
    BY DEF TermConfig
  <2> QED BY <2>1, <2>2
<1>3. q = [j \in 1..n+1 |-> w[j].s] /\ Len(q) = n + 1 /\ \A j \in 1..n+1 : q[j] = w[j].s
  <2>1. q = [j \in 1..n+1 |-> w[j].s] /\ q \in Seq(State)
    BY <1>2
  <2> QED BY <2>1
<1> HIDE DEF q
<1>4. tsys.terms \subseteq OpTerm /\ tsys.mode \in {"functions", "symbols", "values"}
  BY DEF Setting, OfTerms!Proper, OfTerms!SystemType
\* A step is one of the concrete system, with every equality.
<1>5. ASSUME NEW j \in 1..n
      PROVE  \E i \in Input, t \in State :
               /\ \A k \in tsys.terms : OfTerms!Exact(k, w[j], i, t)
               /\ w[j+1].s = t /\ OfTerms!ConcreteStep(w[j].s, t)
               /\ tsys.mode = "values" => w[j+1].e = w[j].e
  <2>1. w[j] \in TermConfig /\ w[j+1] \in OfTerms!Successors(w[j], tsys.terms)
    BY <1>1, <1>2
  <2>2. PICK p \in Input \X State :
          /\ <<w[j].s, p[1], OfTerms!ValuesAt(w[j], p[1], p[2]), p[2]>> \in tsys.step
          /\ \A k \in equalities.source \cup tsys.terms : OfTerms!Exact(k, w[j], p[1], p[2])
          /\ w[j+1] \in OfTerms!Targets(w[j], p[1], p[2])
    BY <2>1 DEF OfTerms!Successors
  <2>3. w[j+1].s = p[2] /\ (tsys.mode = "values" => w[j+1].e = w[j].e)
    BY <2>2 DEF OfTerms!Targets
  <2>4. OfTerms!ValuesAt(w[j], p[1], p[2]) = OfTerms!ConcreteValues(w[j].s, p[1], p[2])
    BY <2>2, ValuesAreConcrete
  <2>5. OfTerms!ConcreteStep(w[j].s, p[2])
    BY <2>2, <2>4 DEF OfTerms!ConcreteStep
  <2> QED BY <2>2, <2>3, <2>5
\* Where there is a step, the equalities that are about the state hold.
<1>6. ASSUME NEW j \in 1..n, NEW k \in tsys.terms, OfTerms!OnlyCurr(k) PROVE OfTerms!ExactHere(k, w[j])
  <2>1. PICK i \in Input, t \in State : \A m \in tsys.terms : OfTerms!Exact(m, w[j], i, t)
    BY <1>5
  <2>2. j \in 1..n+1
    OBVIOUS
  <2>3. OfTerms!Arg(k, w[j].s, i, t) = OfTerms!Arg(k, w[j].s, OfTerms!AnyInput, w[j].s)
    BY <1>2, <1>4, <1>6, <2>2, ArgFacts
  <2> QED BY <2>1, <2>3 DEF OfTerms!Exact, OfTerms!ExactHere
<1>7. ASSUME NEW k \in tsys.terms, OfTerms!OnlyCurr(k) PROVE OfTerms!ExactHere(k, w[n+1])
  <2>1. CASE tsys.mode # "values" \/ n = 0
    BY <1>1, <1>7, <2>1 DEF OfTerms!AtTheEnd
  <2>2. CASE tsys.mode = "values" /\ n # 0
    <3>1. n \in 1..n /\ n \in 1..n+1 /\ n + 1 \in 1..n+1
      BY <2>2
    <3>2. w[n+1].e = w[n].e
      BY <1>5, <2>2, <3>1
    <3>3. OfTerms!AnyInput \in Input
      BY DEF Setting, OfTerms!AnyInput
    <3>4. OfTerms!Arg(k, w[n+1].s, OfTerms!AnyInput, w[n+1].s) = OfTerms!Arg(k, w[n].s, OfTerms!AnyInput, w[n].s)
      BY <1>2, <1>4, <2>2, <3>1, <3>3, ArgFacts
    <3>5. OfTerms!ExactHere(k, w[n])
      BY <1>6, <1>7, <3>1
    <3> QED BY <2>2, <3>2, <3>4, <3>5, ExactFacts DEF OfTerms!ExactHere
  <2> QED BY <2>1, <2>2
<1>8. \A j \in 1..n+1 : j \in 1..n \/ j = n + 1
  OBVIOUS
<1>9. 1 \in 1..n+1 /\ n + 1 \in 1..n+1
  OBVIOUS
<1> HIDE DEF n
<1>10. OfTerms!ConcreteIs(tsys.init, q[1])
  <2>1. \A k \in tsys.terms : OfTerms!OnlyCurr(k) => OfTerms!ExactHere(k, w[1])
    BY <1>6, <1>7, <1>8, <1>9
  <2>2. OfTerms!Holds(tsys.init, w[1])
    BY <1>1 DEF OfTerms!Initial
  <2> QED BY <1>2, <1>3, <1>9, <2>1, <2>2, HoldsIsConcrete
<1>11. OfTerms!ConcreteIs(tsys.bad, q[n+1])
  <2>1. OfTerms!Bad(w[n+1])
    BY <1>1 DEF OfTerms!AtTheEnd
  <2> QED BY <1>2, <1>3, <1>7, <1>9, <2>1, HoldsIsConcrete
<1>12. ASSUME NEW j \in 1..n PROVE OfTerms!ConcreteStep(q[j], q[j+1])
  <2>1. j \in 1..n+1 /\ j + 1 \in 1..n+1
    BY DEF n
  <2> QED BY <1>3, <1>5, <2>1
<1> QED BY <1>3, <1>10, <1>11, <1>12 DEF OfTerms!IsConcreteCex, n, q

----------------------------------------------------------------------------
(* The answers.                                                            *)

\* The inductive invariant: a verdict is only given at the end, and it is right.
TermsInv ==
  /\ tsys \in OpSystems
  /\ AxiomsInv
  /\ treached \in Int /\ treached >= -1
  /\ answer # "NONE" => tpc = "done"
  /\ answer = "TRUE" => OfTerms!ConcreteCexLengths(Cardinality(State)) = {}
  /\ answer = "FALSE" => OfTerms!IsConcreteCex(witness, OfTerms!CexLength)

LEMMA TermsSetting ==
  ASSUME Grounded, TermsInv PROVE Setting /\ OfTerms!CexLength \in Nat
BY DEF Grounded, TermsInv, Setting, OfTerms!CexLength

\* The engine has looked at paths long enough for every concrete state.
LEMMA TermDiameterCovers ==
  ASSUME Grounded
  PROVE  OfTerms!Diameter \in Nat /\ Cardinality(State) \in Nat /\ Cardinality(State) <= OfTerms!Diameter
<1> DEFINE a == Cardinality(State)
           b == Cardinality(Input)
<1>1. a \in Nat /\ b \in Nat
  BY FS_CardinalityType DEF Grounded
<1>2. b # 0
  BY FS_EmptySet DEF Grounded
<1> HIDE DEF a, b
<1>3. PICK k \in Nat : b = k + 1
  <2>1. b - 1 \in Nat /\ b = (b - 1) + 1
    BY <1>1, <1>2
  <2> QED BY <2>1
<1>4. a * b = a * k + a /\ a * k \in Nat
  BY <1>1, <1>3
<1>5. a * b + 1 \in Nat /\ a <= a * b + 1
  BY <1>1, <1>4
<1> QED BY <1>1, <1>5, SameLibrary DEF OfTerms!Diameter, a, b

\* Fewer steps, fewer counterexamples.
LEMMA CexLengthsGrow ==
  ASSUME NEW m \in Nat, NEW n \in Nat, m <= n, OfTerms!ConcreteCexLengths(n) = {}
  PROVE  OfTerms!ConcreteCexLengths(m) = {}
BY DEF OfTerms!ConcreteCexLengths

LEMMA TermsInvInit ==
  ASSUME Grounded, OfTerms!Init PROVE TermsInv
BY DEF OfTerms!Init, OfTerms!Start, TermsInv, AxiomsInv

\* What is left when neither the system nor the verdict changes.
LEMMA VerdictStays ==
  ASSUME TermsInv, UNCHANGED <<tsys, answer>>, answer = "NONE", AxiomsInv', treached' \in Int, treached' >= -1
  PROVE  TermsInv'
BY DEF TermsInv

\* The equalities that a refinement adds are over the state where they must be.
LEMMA RefineKeepsAxioms ==
  ASSUME Setting, AxiomsInv, NEW C \in SUBSET tsys.terms, UNCHANGED tsys, equalities' = OfTerms!WithEqualities(C)
  PROVE  AxiomsInv'
<1> DEFINE curr == {k \in C : OfTerms!OnlyCurr(k)}
           added == tsys.functional \/ tsys.mode = "values"
           new == IF added THEN curr ELSE {k \in C : OfTerms!NoNext(k)}
<1>1. /\ equalities'.init \subseteq equalities.init \cup curr
      /\ equalities'.source = equalities.source \cup C
      /\ equalities'.target = equalities.target \cup new
  BY DEF OfTerms!WithEqualities
<1>2. new \subseteq C
  OBVIOUS
<1>3. ASSUME tsys.mode = "symbols", NEW k \in new PROVE OfTerms!OnlyCurr(k)
  <2>1. CASE tsys.functional
    BY <1>3, <2>1
  <2>2. CASE ~tsys.functional
    <3>1. k \in tsys.terms /\ OfTerms!NoNext(k)
      BY <1>3, <2>2
    <3>2. tsys.over[k] \in {"state", "input", "next"}
      BY <3>1 DEF Setting, OfTerms!Proper, OfTerms!SystemType
    <3>3. tsys.over[k] # "input"
      BY <1>3, <2>2, <3>1 DEF Setting, OfTerms!NoSharedInputs
    <3> QED BY <3>1, <3>2, <3>3 DEF OfTerms!NoNext, OfTerms!OnlyCurr
  <2> QED BY <2>1, <2>2
<1> HIDE DEF new
<1>4. \A k : OfTerms!OnlyCurr(k)' <=> OfTerms!OnlyCurr(k)
  BY DEF OfTerms!OnlyCurr
<1>5. equalities'.init \subseteq {k \in tsys.terms : OfTerms!OnlyCurr(k)}
  BY <1>1 DEF AxiomsInv
<1>6. equalities'.source \subseteq tsys.terms /\ equalities'.target \subseteq tsys.terms
  BY <1>1, <1>2 DEF AxiomsInv
<1>7. tsys.mode = "symbols" => \A k \in equalities'.target : OfTerms!OnlyCurr(k)
  BY <1>1, <1>3 DEF AxiomsInv
<1> QED BY <1>4, <1>5, <1>6, <1>7 DEF AxiomsInv, OfTerms!OnlyCurr

LEMMA TermsInvStep ==
  ASSUME Grounded, TermsInv, [OfTerms!Next]_OfTerms!vars PROVE TermsInv'
<1>1. Setting /\ OfTerms!CexLength \in Nat
  BY TermsSetting
<1>2. ASSUME tpc # "done" PROVE answer = "NONE"
  BY <1>2 DEF TermsInv
<1>3. CASE OfTerms!Proved
  <2>1. OfTerms!Diameter \in Nat /\ Cardinality(State) \in Nat /\ Cardinality(State) <= OfTerms!Diameter
    BY TermDiameterCovers
  <2>2. AxiomsInv
    BY DEF TermsInv
  <2>3. OfTerms!CexLengths(OfTerms!Diameter) = {}
    BY <1>3 DEF OfTerms!Proved
  <2>4. OfTerms!ConcreteCexLengths(OfTerms!Diameter) = {}
    BY <1>1, <2>1, <2>2, <2>3, TermCexLengthsSurvive
  <2>5. OfTerms!ConcreteCexLengths(Cardinality(State)) = {}
    BY <2>1, <2>4, CexLengthsGrow
  <2>6. OfTerms!ConcreteCexLengths(Cardinality(State))' = OfTerms!ConcreteCexLengths(Cardinality(State))
    BY <1>3 DEF OfTerms!Proved, OfTerms!ConcreteCexLengths, OfTerms!ConcreteLayer,
                OfTerms!ConcreteIs, OfTerms!ConcreteStep, OfTerms!ConcreteValues, OfTerms!Arg
  <2>7. AxiomsInv'
    BY <1>3, <2>2 DEF OfTerms!Proved, AxiomsInv, OfTerms!OnlyCurr
  <2> QED BY <1>3, <2>5, <2>6, <2>7 DEF OfTerms!Proved, TermsInv
<1>4. CASE OfTerms!GiveUp
  <2>1. AxiomsInv'
    BY <1>4 DEF OfTerms!GiveUp, TermsInv, AxiomsInv, OfTerms!OnlyCurr
  <2> QED BY <1>4, <2>1 DEF OfTerms!GiveUp, TermsInv
<1>5. CASE OfTerms!AbstractCex
  <2>1. PICK n \in OfTerms!CexLengths(MaxBound) : treached' = n - 1
    BY <1>5 DEF OfTerms!AbstractCex
  <2>2. n \in 0..MaxBound
    BY <2>1 DEF OfTerms!CexLengths
  <2>3. treached' \in Int /\ treached' >= -1
    BY <2>1, <2>2 DEF Grounded
  <2>4. AxiomsInv'
    BY <1>5 DEF OfTerms!AbstractCex, TermsInv, AxiomsInv, OfTerms!OnlyCurr
  <2>5. answer = "NONE"
    BY <1>2, <1>5 DEF OfTerms!AbstractCex
  <2> QED BY <1>5, <2>3, <2>4, <2>5, VerdictStays DEF OfTerms!AbstractCex
<1>6. CASE OfTerms!StoreWitness
  <2>1. PICK w \in OfTerms!Paths(tsys.terms) : witness' = [j \in DOMAIN w |-> w[j].s]
    BY <1>6 DEF OfTerms!StoreWitness
  <2>2. OfTerms!IsConcreteCex(witness', OfTerms!CexLength)
    BY <1>1, <2>1, PathIsConcrete DEF TermsInv
  <2>3. OfTerms!IsConcreteCex(witness, OfTerms!CexLength)' <=> OfTerms!IsConcreteCex(witness', OfTerms!CexLength)
    BY <1>6 DEF OfTerms!StoreWitness, OfTerms!IsConcreteCex, OfTerms!ConcreteIs,
                OfTerms!ConcreteStep, OfTerms!ConcreteValues, OfTerms!Arg, OfTerms!CexLength
  <2>4. AxiomsInv'
    BY <1>6 DEF OfTerms!StoreWitness, TermsInv, AxiomsInv, OfTerms!OnlyCurr
  <2> QED BY <1>6, <2>2, <2>3, <2>4 DEF OfTerms!StoreWitness, TermsInv
<1>7. CASE OfTerms!Refine
  <2>1. PICK C \in SUBSET tsys.terms : equalities' = OfTerms!WithEqualities(C)
    BY <1>7 DEF OfTerms!Refine
  <2>2. AxiomsInv'
    BY <1>1, <1>7, <2>1, RefineKeepsAxioms DEF OfTerms!Refine, TermsInv
  <2>3. treached' \in Int /\ treached' >= -1
    BY <1>7 DEF OfTerms!Refine, TermsInv
  <2>4. answer = "NONE"
    BY <1>2, <1>7 DEF OfTerms!Refine
  <2> QED BY <1>7, <2>2, <2>3, <2>4, VerdictStays DEF OfTerms!Refine
<1>8. CASE UNCHANGED OfTerms!vars
  <2>1. AxiomsInv'
    BY <1>8 DEF OfTerms!vars, TermsInv, AxiomsInv, OfTerms!OnlyCurr
  <2>2. OfTerms!ConcreteCexLengths(Cardinality(State))' = OfTerms!ConcreteCexLengths(Cardinality(State))
    BY <1>8 DEF OfTerms!vars, OfTerms!ConcreteCexLengths, OfTerms!ConcreteLayer, OfTerms!ConcreteIs,
                OfTerms!ConcreteStep, OfTerms!ConcreteValues, OfTerms!Arg
  <2>3. OfTerms!IsConcreteCex(witness, OfTerms!CexLength)' <=> OfTerms!IsConcreteCex(witness, OfTerms!CexLength)
    BY <1>8 DEF OfTerms!vars, OfTerms!IsConcreteCex, OfTerms!ConcreteIs, OfTerms!ConcreteStep,
                OfTerms!ConcreteValues, OfTerms!Arg, OfTerms!CexLength
  <2> QED BY <1>8, <2>1, <2>2, <2>3 DEF OfTerms!vars, TermsInv
<1> QED BY <1>3, <1>4, <1>5, <1>6, <1>7, <1>8 DEF OfTerms!Next

\* No refinement makes an answer of CegarOpsUf or CegarValues wrong: with TRUE
\* no bad state is reachable in the concrete system, with FALSE comes one of
\* its executions, and a counterexample of the concrete system of at most
\* MaxBound steps always remains one of the abstract system.
THEOREM TermsAnswerTheorem ==
  ASSUME Grounded PROVE OfTerms!Spec => []OfTerms!TermsAnswerIsRight
<1>1. OfTerms!Init => TermsInv
  BY TermsInvInit
<1>2. TermsInv /\ [OfTerms!Next]_OfTerms!vars => TermsInv'
  BY TermsInvStep
<1>3. TermsInv => OfTerms!TermsAnswerIsRight
  <2> SUFFICES ASSUME TermsInv PROVE OfTerms!TermsAnswerIsRight
    OBVIOUS
  <2>1. OfTerms!ConcreteCexLengths(MaxBound) \subseteq OfTerms!CexLengths(MaxBound)
    BY TermsSetting, TermCexLengthsSurvive DEF TermsInv, Grounded
  <2> QED BY <2>1, SameLibrary DEF TermsInv, OfTerms!TermsAnswerIsRight
<1> QED BY <1>1, <1>2, <1>3, PTL DEF OfTerms!Spec
=============================================================================
