------------------------ MODULE InterpolationProofs ------------------------
(***************************************************************************)
(* Proofs about the interpolation engines, for every set of systems and    *)
(* options and every choice of interpolants: what they keep implements     *)
(* ReachSequence, and dual approximated reachability separates the pairs   *)
(* of positions of a bound it has completed.                               *)
(***************************************************************************)
EXTENDS InterpolationEngines, UnrollingProofs, FiniteSetTheorems

----------------------------------------------------------------------------
(* Chains: sequences of sets of states in which a step along rel leads     *)
(* from each set into the next one.                                        *)

Leads(rel, A, B) == \A s \in A, t \in State : <<s, t>> \in rel => t \in B

Converse(rel) == {q \in State \X State : <<q[2], q[1]>> \in rel}

Chain(rel, f, m) ==
  /\ f \in [0..m -> SUBSET State]
  /\ \A n \in 0..m-1 : Leads(rel, f[n], f[n+1])

\* The sets up to position k have nothing in common with S.
Clear(f, S, k) == \A n \in 0..k : f[n] \cap S = {}

LEMMA ConverseSwaps ==
  ASSUME NEW rel, NEW s \in State, NEW t \in State
  PROVE  <<s, t>> \in Converse(rel) <=> <<t, s>> \in rel
BY DEF Converse

LEMMA ImageLeads ==
  ASSUME NEW sy \in SystemType, NEW A \in SUBSET State, NEW B
  PROVE  {p[2] : p \in {q \in sy.trans : q[1] \in A}} \subseteq B <=> Leads(sy.trans, A, B)
<1>1. ASSUME {p[2] : p \in {q \in sy.trans : q[1] \in A}} \subseteq B,
             NEW s \in A, NEW t \in State, <<s, t>> \in sy.trans
      PROVE  t \in B
  <2> DEFINE q == <<s, t>>
  <2>1. q \in sy.trans /\ q[1] \in A /\ q[2] = t
    BY <1>1
  <2> HIDE DEF q
  <2> QED BY <1>1, <2>1
<1>2. ASSUME Leads(sy.trans, A, B), NEW q \in sy.trans, q[1] \in A
      PROVE  q[2] \in B
  <2>1. q[2] \in State /\ q = <<q[1], q[2]>>
    BY DEF SystemType
  <2> QED BY <1>2, <2>1 DEF Leads
<1> QED BY <1>1, <1>2 DEF Leads

LEMMA PreimageLeads ==
  ASSUME NEW sy \in SystemType, NEW A \in SUBSET State, NEW B
  PROVE  {p[1] : p \in {q \in sy.trans : q[2] \in A}} \subseteq B
           <=> Leads(Converse(sy.trans), A, B)
<1>1. ASSUME {p[1] : p \in {q \in sy.trans : q[2] \in A}} \subseteq B,
             NEW s \in A, NEW t \in State, <<s, t>> \in Converse(sy.trans)
      PROVE  t \in B
  <2> DEFINE q == <<t, s>>
  <2>1. q \in sy.trans /\ q[2] \in A /\ q[1] = t
    BY <1>1, ConverseSwaps
  <2> HIDE DEF q
  <2> QED BY <1>1, <2>1
<1>2. ASSUME Leads(Converse(sy.trans), A, B), NEW q \in sy.trans, q[2] \in A
      PROVE  q[1] \in B
  <2>1. q[1] \in State /\ q[2] \in State /\ q = <<q[1], q[2]>>
    BY DEF SystemType
  <2>2. <<q[2], q[1]>> \in Converse(sy.trans)
    BY <2>1, ConverseSwaps
  <2> QED BY <1>2, <2>1, <2>2 DEF Leads
<1> QED BY <1>1, <1>2 DEF Leads

\* A set of a chain may lose what nothing before it leads to.
LEMMA ChainNarrow ==
  ASSUME NEW rel, NEW m \in Nat, NEW f, Chain(rel, f, m), NEW k \in 0..m-1,
         NEW S \in SUBSET State, Leads(rel, f[k], S)
  PROVE  /\ Chain(rel, Narrow(f, k+1, S), m)
         /\ Narrow(f, k+1, S)[k+1] = f[k+1] \cap S
         /\ \A n \in 0..m : n # k+1 => Narrow(f, k+1, S)[n] = f[n]
         /\ \A n \in 0..m : Narrow(f, k+1, S)[n] \subseteq f[n]
<1> DEFINE g == Narrow(f, k+1, S)
<1>0. f \in [0..m -> SUBSET State] /\ k+1 \in 0..m /\ k \in 0..m /\ k # k+1
  BY DEF Chain
<1>1. g \in [0..m -> SUBSET State] /\ g[k+1] = f[k+1] \cap S
  BY <1>0 DEF Narrow
<1>2. \A n \in 0..m : n # k+1 => g[n] = f[n]
  BY <1>0 DEF Narrow
<1>3. \A n \in 0..m : g[n] \subseteq f[n]
  BY <1>1, <1>2
<1> HIDE DEF g
<1>4. ASSUME NEW n \in 0..m-1 PROVE Leads(rel, g[n], g[n+1])
  <2>1. n \in 0..m /\ n+1 \in 0..m /\ Leads(rel, f[n], f[n+1]) /\ g[n] \subseteq f[n]
    BY <1>3 DEF Chain
  <2>2. CASE n = k
    BY <1>1, <2>1, <2>2 DEF Leads
  <2>3. CASE n # k
    <3>1. g[n+1] = f[n+1]
      BY <1>2, <2>1, <2>3
    <3> QED BY <2>1, <3>1 DEF Leads
  <2> QED BY <2>2, <2>3
<1>5. Chain(rel, g, m)
  BY <1>1, <1>4 DEF Chain
<1> QED BY <1>1, <1>2, <1>3, <1>5 DEF g

LEMMA ChainLonger ==
  ASSUME NEW rel, NEW m \in Nat, NEW f, Chain(rel, f, m)
  PROVE  /\ Chain(rel, [t \in 0..m+1 |-> IF t <= m THEN f[t] ELSE State], m+1)
         /\ \A n \in 0..m : [t \in 0..m+1 |-> IF t <= m THEN f[t] ELSE State][n] = f[n]
<1> DEFINE g == [t \in 0..m+1 |-> IF t <= m THEN f[t] ELSE State]
<1>1. g \in [0..m+1 -> SUBSET State] /\ g[m+1] = State /\ \A n \in 0..m : g[n] = f[n]
  BY DEF Chain
<1> HIDE DEF g
<1>2. ASSUME NEW n \in 0..(m+1)-1 PROVE Leads(rel, g[n], g[n+1])
  <2>1. CASE n = m
    BY <1>1, <2>1 DEF Leads
  <2>2. CASE n # m
    <3>1. n \in 0..m-1 /\ n \in 0..m /\ n+1 \in 0..m
      BY <2>2
    <3>2. g[n] = f[n] /\ g[n+1] = f[n+1]
      BY <1>1, <3>1
    <3> QED BY <3>1, <3>2 DEF Chain
  <2> QED BY <2>1, <2>2
<1> QED BY <1>1, <1>2 DEF Chain, g

----------------------------------------------------------------------------
(* Fixed points.                                                           *)

LEMMA FirstIsOne ==
  ASSUME NEW N \in SUBSET Nat, N # {}
  PROVE  First(N) \in N
<1>1. \E n \in N : \A m \in N : n <= m
  BY LeastNat
<1> QED BY <1>1 DEF First

\* The sets before a fixed point are closed, which one of them is the first.
LEMMA FixedPointCloses ==
  ASSUME NEW rel, NEW m \in Nat, NEW f, Chain(rel, f, m), FixedPoints(f) # {}
  PROVE  /\ First(FixedPoints(f)) \in 1..m
         /\ UpTo(f, First(FixedPoints(f))) \in SUBSET State
         /\ f[0] \subseteq UpTo(f, First(FixedPoints(f)))
         /\ Leads(rel, UpTo(f, First(FixedPoints(f))), UpTo(f, First(FixedPoints(f))))
         /\ \A S : Clear(f, S, m-1) => UpTo(f, First(FixedPoints(f))) \cap S = {}
<1>1. DOMAIN f = 0..m /\ \A n \in 0..m : f[n] \subseteq State
  BY DEF Chain
<1>2. FixedPoints(f) \in SUBSET Nat /\ FixedPoints(f) \subseteq 1..m
  BY <1>1 DEF FixedPoints
<1> DEFINE F == First(FixedPoints(f))
           U == UpTo(f, F)
<1>3. F \in FixedPoints(f)
  BY <1>2, FirstIsOne
<1>4. F \in 1..m /\ f[F] \subseteq U
  BY <1>2, <1>3 DEF FixedPoints
<1> HIDE DEF F
<1>5. \A s : s \in U <=> \E t \in 0..F-1 : s \in f[t]
  BY DEF UpTo
<1> HIDE DEF U
<1>6. \A t \in 0..F-1 : t \in 0..m /\ t \in 0..m-1 /\ t+1 \in 0..m
  BY <1>4
<1>7. U \subseteq State
  BY <1>1, <1>5, <1>6
<1>8. f[0] \subseteq U
  <2>1. 0 \in 0..F-1
    BY <1>4
  <2> QED BY <1>5, <2>1
<1>9. ASSUME NEW s \in U, NEW u \in State, <<s, u>> \in rel PROVE u \in U
  <2>1. PICK t \in 0..F-1 : s \in f[t]
    BY <1>5
  <2>2. u \in f[t+1]
    BY <1>6, <1>9, <2>1 DEF Chain, Leads
  <2>3. CASE t+1 = F
    BY <1>4, <2>2, <2>3
  <2>4. CASE t+1 # F
    <3>1. t+1 \in 0..F-1
      BY <1>4, <2>4
    <3> QED BY <1>5, <2>2, <3>1
  <2> QED BY <2>3, <2>4
<1>10. ASSUME NEW S, Clear(f, S, m-1) PROVE U \cap S = {}
  BY <1>5, <1>6, <1>10 DEF Clear
<1> QED BY <1>4, <1>7, <1>8, <1>9, <1>10 DEF F, U, Leads

----------------------------------------------------------------------------
(* Chains as sequences of ReachSequence.                                   *)

Listed(f) == [n \in 1..Cardinality(DOMAIN f) |-> f[n-1]]

LEMMA ListedChain ==
  ASSUME NEW sy \in SystemType, NEW m \in Nat, NEW f, Chain(sy.trans, f, m),
         sy.init \subseteq f[0], NEW k \in Int, k <= m, Clear(f, sy.bad, k)
  PROVE  /\ Listed(f) \in Seq(SUBSET Sequence!State)
         /\ Sequence!OverApproximates(sy, Listed(f))
         /\ Sequence!Avoids(sy, Listed(f), k)
<1>1. DOMAIN f = 0..m /\ \A n \in 0..m : f[n] \in SUBSET State
  BY DEF Chain
<1>2. Cardinality(0..m) = m+1
  BY FS_Interval
<1>3. Listed(f) = [n \in 1..m+1 |-> f[n-1]]
  BY <1>1, <1>2 DEF Listed
<1>4. \A n \in 1..m+1 : n-1 \in 0..m
  OBVIOUS
<1>5. Listed(f) \in [1..m+1 -> SUBSET State]
  BY <1>1, <1>3, <1>4
<1> DEFINE g == Listed(f)
<1>6. /\ g \in Seq(SUBSET State) /\ Len(g) = m+1
      /\ \A n \in 1..m+1 : g[n] = f[n-1]
  BY <1>3, <1>5
<1> HIDE DEF g
<1>7. ASSUME NEW n \in 1..Len(g)-1
      PROVE  Sequence!ImageOf(sy.trans, g[n]) \subseteq g[n+1]
  <2>1. /\ n-1 \in 0..m-1 /\ n-1 \in 0..m /\ (n-1)+1 = n /\ n \in 1..m+1 /\ n+1 \in 1..m+1
        /\ (n+1)-1 = n
    BY <1>6
  <2>2. Leads(sy.trans, f[n-1], f[n])
    BY <2>1 DEF Chain
  <2>3. g[n] = f[n-1] /\ g[n+1] = f[n]
    BY <1>6, <2>1
  <2> QED BY <1>1, <2>1, <2>2, <2>3, ImageLeads DEF Sequence!ImageOf
<1>8. sy.init \subseteq g[1]
  <2>1. g[1] = f[1-1] /\ 1-1 = 0
    BY <1>6
  <2> QED BY <2>1
<1>9. ASSUME NEW n \in 1..k+1 PROVE g[n] \cap sy.bad = {}
  <2>1. n-1 \in 0..k /\ n \in 1..m+1
    OBVIOUS
  <2> QED BY <1>6, <2>1 DEF Clear
<1>10. State = Sequence!State
  BY DEF State, Sequence!State
<1>11. Len(g) > 0 /\ k < Len(g)
  BY <1>6
<1> QED BY <1>6, <1>7, <1>8, <1>9, <1>10, <1>11 DEF Sequence!OverApproximates, Sequence!Avoids, g

LEMMA IsInductive ==
  ASSUME NEW sy \in SystemType, NEW S \in SUBSET State,
         sy.init \subseteq S, Leads(sy.trans, S, S), S \cap sy.bad = {}
  PROVE  Sequence!Inductive(sy, S)
BY ImageLeads DEF Sequence!Inductive, Sequence!ImageOf

LEMMA SequenceWords ==
  /\ Sequence!State = State
  /\ \A sy, p, k : Sequence!IsCex(sy, p, k) <=> IsCex(sy, p, k)
<1>1. Sequence!State = State
  BY DEF State, Sequence!State
<1> QED BY <1>1 DEF Sequence!IsCex, IsCex, Sequence!IsRun, IsRun

----------------------------------------------------------------------------
(* Executions and the formulas of an interpolation query.                  *)

LEMMA ReachableIsInductive ==
  ASSUME NEW sy \in SystemType, \A d \in Nat : ~HasCex(sy, d)
  PROVE  Sequence!Inductive(sy, Reachable(sy))
<1>1. Safe(sy)
  BY ShortestCexExists
<1>2. Leads(sy.trans, Reachable(sy), Reachable(sy))
  BY ReachableIsClosed DEF Leads
<1> QED BY <1>1, <1>2, IsInductive, ReachableIsClosed DEF Safe

\* A closed set with the initial states has every execution in it.
LEMMA ClosedHasRuns ==
  ASSUME NEW sy \in SystemType, NEW S \in SUBSET State,
         sy.init \subseteq S, Leads(sy.trans, S, S),
         NEW n \in Nat, NEW p, IsRun(sy, p, n)
  PROVE  \A t \in 0..n : p[t] \in S
<1>1. Reachable(sy) \subseteq S
  BY ReachableIsLeast DEF Leads
<1> QED BY <1>1, RunIsWalk, WalkStaysReachable

LEMMA NoStepsIsInit ==
  ASSUME NEW sy \in SystemType
  PROVE  /\ \A s \in State : (\E p \in [0..0 -> State] : IsRun(sy, p, 0) /\ p[0] = s) <=> s \in sy.init
         /\ sy.init \cap sy.bad = {} <=> ~HasCex(sy, 0)
<1>1. ASSUME NEW s \in State, s \in sy.init
      PROVE  \E p \in [0..0 -> State] : IsRun(sy, p, 0) /\ p[0] = s
  <2>1. IsRun(sy, [t \in 0..0 |-> s], 0)
    BY <1>1 DEF IsRun
  <2> QED BY <2>1
<1>2. sy.init \subseteq State
  BY DEF SystemType
<1>3. (sy.init \cap sy.bad # {}) => HasCex(sy, 0)
  <2> SUFFICES ASSUME NEW s \in sy.init, s \in sy.bad PROVE HasCex(sy, 0)
    OBVIOUS
  <2>1. PICK p \in [0..0 -> State] : IsRun(sy, p, 0) /\ p[0] = s
    BY <1>1, <1>2
  <2> QED BY <2>1 DEF HasCex, IsCex
<1> QED BY <1>1, <1>3 DEF HasCex, IsCex, IsRun

\* The rest of a counterexample after k steps and one more.
LEMMA CexTail ==
  ASSUME NEW sy \in SystemType, NEW n \in Nat, n > 0, NEW k \in Nat,
         NEW p, IsCex(sy, p, k+n)
  PROVE  /\ k \in 0..k+n /\ k+1 \in 0..k+n /\ <<p[k], p[k+1]>> \in sy.trans
         /\ p[k] \in State /\ p[k+1] \in State
         /\ \E q \in [0..n-1 -> State] :
              /\ \A t \in 0..(n-1)-1 : <<q[t], q[t+1]>> \in sy.trans
              /\ q[0] = p[k+1] /\ q[n-1] \in sy.bad
<1>1. /\ p \in [0..k+n -> State] /\ p[k+n] \in sy.bad
      /\ \A t \in 0..(k+n)-1 : <<p[t], p[t+1]>> \in sy.trans
  BY DEF IsCex, IsRun
<1>2. k \in 0..k+n /\ k \in 0..(k+n)-1 /\ k+1 \in 0..k+n
  OBVIOUS
<1> DEFINE q == [t \in 0..n-1 |-> p[k+1+t]]
<1>3. \A t \in 0..n-1 : k+1+t \in 0..k+n
  OBVIOUS
<1>4. q \in [0..n-1 -> State]
  BY <1>1, <1>3
<1>5. q[0] = p[k+1] /\ q[n-1] = p[k+n]
  <2>1. 0 \in 0..n-1 /\ n-1 \in 0..n-1 /\ k+1+0 = k+1 /\ k+1+(n-1) = k+n
    OBVIOUS
  <2> QED BY <2>1
<1>6. ASSUME NEW t \in 0..(n-1)-1 PROVE <<q[t], q[t+1]>> \in sy.trans
  <2>1. t \in 0..n-1 /\ t+1 \in 0..n-1 /\ k+1+t \in 0..(k+n)-1 /\ k+1+(t+1) = (k+1+t)+1
    OBVIOUS
  <2>2. q[t] = p[k+1+t] /\ q[t+1] = p[(k+1+t)+1]
    BY <2>1
  <2> QED BY <1>1, <2>1, <2>2
<1> HIDE DEF q
<1> QED BY <1>1, <1>2, <1>4, <1>5, <1>6

\* In a system in which every state has a successor a path of any length
\* starts in each.
LEMMA PathExists ==
  ASSUME NEW sy \in SystemType, \A s \in State : \E t \in State : <<s, t>> \in sy.trans,
         NEW s \in State, NEW n \in Nat
  PROVE  \E q \in [0..n -> State] :
           q[0] = s /\ \A t \in 0..n-1 : <<q[t], q[t+1]>> \in sy.trans
<1> DEFINE all == [sy EXCEPT !.init = State]
<1>1. all \in SystemType /\ all.init = State /\ all.trans = sy.trans
  BY DEF SystemType
<1> HIDE DEF all
<1>2. s \in Reachable(all) /\ Total(all)
  BY <1>1, ReachableIsClosed DEF Total
<1>3. PICK q : IsWalk(all, q, n) /\ q[0] = s
  BY <1>1, <1>2, WalkExists
<1> QED BY <1>1, <1>3 DEF IsWalk

LEMMA FormulaBHas ==
  ASSUME NEW s
  PROVE  s \in FormulaB <=>
           \E t \in bads, q \in [0..unrolled-1 -> State] :
             IsPath(q, unrolled-1) /\ q[t-1] \in sys.bad /\ q[0] = s
<1> DEFINE Q(t) == {q \in [0..unrolled-1 -> State] :
                      IsPath(q, unrolled-1) /\ q[t-1] \in sys.bad}
           B(t) == {p[0] : p \in Q(t)}
<1>1. FormulaB = UNION {B(t) : t \in bads}
  BY DEF FormulaB
<1>2. s \in FormulaB <=> \E t \in bads : s \in B(t)
  <2> HIDE DEF B
  <2> QED BY <1>1
<1>3. ASSUME NEW t
      PROVE s \in B(t) <=> \E q \in [0..unrolled-1 -> State] :
                             IsPath(q, unrolled-1) /\ q[t-1] \in sys.bad /\ q[0] = s
  OBVIOUS
<1> HIDE DEF B
<1> QED BY <1>2, <1>3

----------------------------------------------------------------------------
(* Where check_until is.                                                   *)

ControlInv ==
  /\ sys \in SystemType /\ opt \in OptionType
  /\ pc \in {"loop", "done", "interpolate", "sequence", "global", "forward", "backward",
             "fixpoint"}
  /\ verdict \in {"NONE", "TRUE", "FALSE", "UNKNOWN", "ERROR"}
  /\ pc = "done" <=> verdict # "NONE"
  /\ i \in Nat /\ at \in Nat /\ idx \in Nat /\ count \in Nat
  /\ reached \in Int /\ reached >= -1
  /\ pc = "sequence" => opt.engine = "ismc"
  /\ pc = "interpolate" => opt.engine = "interp"
  /\ pc \in {"global", "forward", "backward", "fixpoint"} => opt.engine = "dar"
  /\ pc \in {"forward", "backward"} => idx <= reached
  /\ pc = "loop" => IF i = 0 THEN reached = -1 ELSE reached >= i-1
  /\ pc \in {"interpolate", "sequence", "global", "forward", "backward"} => i > 0 /\ reached = i-1
  /\ pc = "global" => idx <= reached
  /\ pc = "fixpoint" => i > 0 /\ reached = i

\* The systems and the options never change.
LEMMA SetupStays ==
  ASSUME [Next]_vars
  PROVE  sys' = sys /\ opt' = opt
<1>1. CASE Shared
  BY <1>1 DEF Shared, GiveUp, Skip, InitialBad, InitialGood, ConcreteCex, setup
<1>2. CASE NextImc
  BY <1>2 DEF NextImc, StartStep, Converged, Grow, FindCex, InterpolantFails, Extend,
              ConcreteCex, Fail, setup
<1>3. CASE NextIsmc
  BY <1>3 DEF NextIsmc, StartSequence, StrengthenSequence, SequenceCloses,
              SequenceStaysOpen, Replay, SequenceFails, ConcreteCex, Fail, setup
<1>4. CASE NextDar
  BY <1>4 DEF NextDar, LocalStrengthen, LocalCex, GlobalStrengthen, GlobalCex,
              StrengthenGlobally, GloballyStrengthened, StrengthenForward, TurnRound,
              StrengthenBackward, PairFails, Complete, ForwardFixedPoint,
              BackwardFixedPoint, SequencesStayOpen, ConcreteCex, Fail, setup
<1>5. CASE UNCHANGED vars
  BY <1>5 DEF vars, setup
<1> QED BY <1>1, <1>2, <1>3, <1>4, <1>5 DEF Next

\* A step of an engine is taken while it is the one that runs.
LEMMA EngineTakesStep ==
  ASSUME ControlInv
  PROVE  /\ NextImc => opt.engine = "interp" /\ verdict = "NONE"
         /\ NextIsmc => opt.engine = "ismc" /\ verdict = "NONE"
         /\ NextDar => opt.engine = "dar" /\ verdict = "NONE"
         /\ Shared => pc = "loop" /\ verdict = "NONE"
<1>1. NextImc => opt.engine = "interp" /\ verdict = "NONE"
  BY DEF ControlInv, NextImc, StartStep, Converged, Grow, FindCex, InterpolantFails, Extend, AtStep
<1>2. NextIsmc => opt.engine = "ismc" /\ verdict = "NONE"
  BY DEF ControlInv, NextIsmc, StartSequence, StrengthenSequence, SequenceCloses,
         SequenceStaysOpen, Replay, SequenceFails, AtStep
<1>3. NextDar => opt.engine = "dar" /\ verdict = "NONE"
  BY DEF ControlInv, NextDar, LocalStrengthen, LocalCex, GlobalStrengthen, GlobalCex,
         StrengthenGlobally, GloballyStrengthened, StrengthenForward, TurnRound,
         StrengthenBackward, PairFails, Complete, ForwardFixedPoint,
         BackwardFixedPoint, SequencesStayOpen, AtStep
<1>4. Shared => pc = "loop" /\ verdict = "NONE"
  BY DEF ControlInv, Shared, GiveUp, Skip, InitialBad, InitialGood, AtStep
<1> QED BY <1>1, <1>2, <1>3, <1>4

LEMMA LocalIndexIsOne ==
  ASSUME reached \in Nat, LocalIndices # {}
  PROVE  /\ First(LocalIndices) \in 0..reached
         /\ Image(forward[reached - First(LocalIndices)]) \cap backward[First(LocalIndices)] = {}
<1>1. LocalIndices \in SUBSET Nat
  BY DEF LocalIndices
<1>2. First(LocalIndices) \in LocalIndices
  BY <1>1, FirstIsOne
<1> QED BY <1>2 DEF LocalIndices

LEMMA GlobalIndexIsOne ==
  ASSUME reached \in Nat, GlobalIndices # {}
  PROVE  First(GlobalIndices) \in 1..reached
<1>1. GlobalIndices \in SUBSET Nat
  BY DEF GlobalIndices
<1>2. First(GlobalIndices) \in GlobalIndices
  BY <1>1, FirstIsOne
<1> QED BY <1>2 DEF GlobalIndices

LEMMA ControlStep ==
  ASSUME ControlInv, [Next]_vars
  PROVE  ControlInv'
<1>0. sys' = sys /\ opt' = opt
  BY SetupStays
<1>1. CASE Shared /\ UNCHANGED <<growth, sequence, sequences, idx>>
  <2> USE <1>0, <1>1 DEF ControlInv, growth, sequence, strengthening, AtStep, Answer
  <2>1. CASE GiveUp
    BY <2>1 DEF GiveUp
  <2>2. CASE Skip
    BY <2>2 DEF Skip, answer
  <2>3. CASE InitialBad
    BY <2>3 DEF InitialBad, ConcreteCex
  <2>4. CASE InitialGood
    BY <2>4 DEF InitialGood, answer
  <2> QED BY <2>1, <2>2, <2>3, <2>4 DEF Shared
<1>2. CASE NextImc /\ UNCHANGED <<sequence, sequences, idx>>
  <2> USE <1>0, <1>2 DEF ControlInv, sequence, strengthening, AtStep, Answer, answer
  <2>1. CASE StartStep
    BY <2>1 DEF StartStep
  <2>2. CASE Converged
    BY <2>2 DEF Converged, Proof, growth
  <2>3. CASE Grow
    BY <2>3 DEF Grow
  <2>4. CASE FindCex
    BY <2>4 DEF FindCex, ConcreteCex, growth
  <2>5. CASE InterpolantFails
    BY <2>5 DEF InterpolantFails, Fail, growth
  <2>6. CASE Extend
    BY <2>6 DEF Extend, Completed
  <2> QED BY <1>2, <2>1, <2>2, <2>3, <2>4, <2>5, <2>6 DEF NextImc
<1>3. CASE NextIsmc /\ UNCHANGED <<growth, sequences, idx>>
  <2> USE <1>0, <1>3 DEF ControlInv, sequence, strengthening, AtStep, Answer, answer, growth
  <2>1. CASE StartSequence
    BY <2>1 DEF StartSequence
  <2>2. CASE StrengthenSequence
    BY <2>2 DEF StrengthenSequence
  <2>3. CASE SequenceCloses
    BY <2>3 DEF SequenceCloses, Proof
  <2>4. CASE SequenceStaysOpen
    BY <2>4 DEF SequenceStaysOpen
  <2>5. CASE Replay
    BY <2>5 DEF Replay, ConcreteCex
  <2>6. CASE SequenceFails
    BY <2>6 DEF SequenceFails, Fail
  <2> QED BY <1>3, <2>1, <2>2, <2>3, <2>4, <2>5, <2>6 DEF NextIsmc
<1>4. CASE NextDar /\ UNCHANGED <<growth, reach_seq>>
  <2> USE <1>0, <1>4 DEF ControlInv, sequences, pairing, strengthening, AtStep, Answer, answer,
                         growth, StartPairwise
  <2>1. CASE LocalStrengthen
    <3>1. reached \in Nat
      BY <2>1 DEF LocalStrengthen
    <3>2. reached - First(LocalIndices) \in 0..reached
      BY <2>1, <3>1, LocalIndexIsOne DEF LocalStrengthen
    <3> QED BY <2>1, <3>1, <3>2 DEF LocalStrengthen
  <2>2. CASE LocalCex
    BY <2>2 DEF LocalCex, ConcreteCex
  <2>3. CASE GlobalStrengthen
    <3>1. reached \in Nat
      BY <2>3 DEF GlobalStrengthen
    <3>2. First(GlobalIndices) \in 1..reached
      BY <2>3, <3>1, GlobalIndexIsOne DEF GlobalStrengthen
    <3> QED BY <2>3, <3>1, <3>2 DEF GlobalStrengthen
  <2>4. CASE GlobalCex
    BY <2>4 DEF GlobalCex, ConcreteCex
  <2>5. CASE StrengthenGlobally
    BY <2>5 DEF StrengthenGlobally
  <2>6. CASE GloballyStrengthened
    BY <2>6 DEF GloballyStrengthened
  <2>7. CASE StrengthenForward
    BY <2>7 DEF StrengthenForward
  <2>8. CASE TurnRound
    BY <2>8 DEF TurnRound
  <2>9. CASE StrengthenBackward
    BY <2>9 DEF StrengthenBackward
  <2>10. CASE PairFails
    BY <2>10 DEF PairFails, Fail
  <2>11. CASE Complete
    BY <2>11 DEF Complete
  <2>12. CASE ForwardFixedPoint
    BY <2>12 DEF ForwardFixedPoint, Proof
  <2>13. CASE BackwardFixedPoint
    BY <2>13 DEF BackwardFixedPoint, Proof
  <2>14. CASE SequencesStayOpen
    BY <2>14 DEF SequencesStayOpen
  <2> QED BY <1>4, <2>1, <2>2, <2>3, <2>4, <2>5, <2>6, <2>7, <2>8, <2>9, <2>10, <2>11, <2>12,
             <2>13, <2>14 DEF NextDar
<1>5. CASE UNCHANGED vars
  BY <1>5 DEF ControlInv, vars, setup, strengthening, answer, growth, sequences
<1> QED BY <1>1, <1>2, <1>3, <1>4, <1>5 DEF Next

----------------------------------------------------------------------------
(* InterpSeqMC: reach_seq_ is a chain from the initial states, clear of    *)
(* bad at every completed bound; while it is strengthened the position at  *)
(* is within the interpolant that the next one starts from.                *)

\* The last position of the sequences between two bounds.
Top == IF reached < 0 THEN 0 ELSE reached

IsmcInv ==
  opt.engine = "ismc" /\ pc # "done" =>
    /\ reach_seq[0] = sys.init
    /\ Clear(reach_seq, sys.bad, reached)
    /\ pc = "loop" => Chain(sys.trans, reach_seq, Top)
    /\ pc = "sequence" =>
         /\ Chain(sys.trans, reach_seq, i)
         /\ at \in 0..i
         /\ itp \in SUBSET State
         /\ reach_seq[at] \subseteq itp
         /\ at = i => reach_seq[i] \cap sys.bad = {}

\* No step is left: the interpolant has no bad state.
LEMMA ReachesNow ==
  ASSUME NEW S
  PROVE  S \cap State \subseteq Reaches(S, 0)
<1> SUFFICES ASSUME NEW s \in S, s \in State PROVE s \in Reaches(S, 0)
  OBVIOUS
<1>1. [t \in 0..0 |-> s] \in [0..0 -> State] /\ IsPath([t \in 0..0 |-> s], 0)
  BY DEF IsPath
<1> QED BY <1>1 DEF Reaches

LEMMA IsmcStep ==
  ASSUME ControlInv, IsmcInv, [Next]_vars
  PROVE  IsmcInv'
<1>0. sys' = sys /\ opt' = opt
  BY SetupStays
<1>a. SUFFICES ASSUME opt.engine = "ismc", pc # "done", pc' # "done" PROVE IsmcInv'
  <2>1. pc = "done" => UNCHANGED vars
    BY EngineTakesStep DEF ControlInv, Next
  <2> QED BY <1>0, <2>1 DEF IsmcInv, vars, setup, strengthening
<1>b. sys \in SystemType /\ i \in Nat /\ reached \in Int /\ reached >= -1
  BY DEF ControlInv
<1>1. CASE Shared /\ UNCHANGED <<growth, sequence, sequences, idx>>
  <2>0. /\ reach_seq' = reach_seq /\ itp' = itp /\ at' = at /\ pc = "loop"
        /\ Chain(sys.trans, reach_seq, Top) /\ reach_seq[0] = sys.init
        /\ Clear(reach_seq, sys.bad, reached)
    BY <1>1, <1>a, EngineTakesStep DEF sequence, strengthening, IsmcInv
  <2>1. CASE GiveUp
    BY <2>1, <1>a DEF GiveUp, Answer
  <2>2. CASE Skip
    <3>1. pc' = "loop" /\ reached' = reached
      BY <2>0, <2>2 DEF Skip
    <3> QED BY <1>0, <2>0, <3>1 DEF IsmcInv, Top
  <2>3. CASE InitialBad
    BY <2>3, <1>a DEF InitialBad, ConcreteCex, Answer
  <2>4. CASE InitialGood
    <3>1. pc' = "loop" /\ reached' = 0 /\ sys.init \cap sys.bad = {} /\ reached = -1
      BY <2>0, <2>4, <1>b DEF InitialGood, ControlInv
    <3>2. Top = 0 /\ Top' = 0
      BY <3>1 DEF Top
    <3>3. Clear(reach_seq, sys.bad, 0)
      BY <2>0, <3>1 DEF Clear
    <3> QED BY <1>0, <2>0, <3>1, <3>2, <3>3 DEF IsmcInv
  <2> QED BY <1>1, <2>1, <2>2, <2>3, <2>4 DEF Shared
<1>2. CASE NextImc \/ NextDar
  BY <1>2, <1>a, EngineTakesStep
<1>3. CASE NextIsmc
  <2>1. CASE StartSequence
    <3>1. /\ pc = "loop" /\ i > 0 /\ reached = i-1 /\ pc' = "sequence" /\ reached' = reached /\ i' = i
          /\ itp' = sys.init /\ at' = 0
          /\ reach_seq' = [t \in 0..i |-> IF t = i THEN State ELSE reach_seq[t]]
      BY <2>1, <1>b DEF StartSequence, AtStep, ControlInv
    <3>2. Chain(sys.trans, reach_seq, i-1) /\ reach_seq[0] = sys.init /\ Top = i-1 /\ i-1 \in Nat
      BY <1>a, <1>b, <3>1 DEF IsmcInv, Top
    <3>3. reach_seq' = [t \in 0..(i-1)+1 |-> IF t <= i-1 THEN reach_seq[t] ELSE State]
      BY <1>b, <3>1
    <3>4. Chain(sys.trans, reach_seq', i) /\ \A n \in 0..i-1 : reach_seq'[n] = reach_seq[n]
      <4>1. (i-1)+1 = i
        BY <1>b
      <4> QED BY <3>2, <3>3, <4>1, ChainLonger
    <3>5. Clear(reach_seq', sys.bad, reached)
      BY <1>a, <3>1, <3>4 DEF Clear, IsmcInv
    <3>6. reach_seq'[0] = sys.init /\ sys.init \in SUBSET State /\ 0 \in 0..i /\ 0 # i
      BY <1>b, <3>1, <3>2, <3>4 DEF SystemType
    <3> QED BY <1>0, <3>1, <3>4, <3>5, <3>6 DEF IsmcInv
  <2>2. CASE StrengthenSequence
    <3>1. /\ pc = "sequence" /\ at < i /\ at' = at+1 /\ pc' = pc /\ i' = i /\ reached' = reached
          /\ i > 0 /\ reached = i-1
      BY <2>2, <1>b DEF StrengthenSequence, ControlInv
    <3>2. /\ Chain(sys.trans, reach_seq, i) /\ at \in 0..i-1 /\ itp \in SUBSET State
          /\ reach_seq[at] \subseteq itp /\ reach_seq[0] = sys.init
          /\ Clear(reach_seq, sys.bad, reached)
      BY <1>a, <3>1, <1>b DEF IsmcInv
    <3>3. PICK S \in Interpolants(Image(itp), Reaches(sys.bad, i - at - 1)) :
            itp' = S /\ reach_seq' = Narrow(reach_seq, at+1, S)
      BY <2>2 DEF StrengthenSequence, Narrow
    <3>4. S \in SUBSET State /\ Image(itp) \subseteq S
          /\ S \cap Reaches(sys.bad, i - at - 1) = {}
      BY DEF Interpolants
    <3>5. Leads(sys.trans, itp, S)
      BY <1>b, <3>2, <3>4, ImageLeads DEF Image
    <3>6. Leads(sys.trans, reach_seq[at], S)
      BY <3>2, <3>5 DEF Leads
    <3>7. /\ Chain(sys.trans, reach_seq', i) /\ reach_seq'[at+1] = reach_seq[at+1] \cap S
          /\ \A n \in 0..i : n # at+1 => reach_seq'[n] = reach_seq[n]
          /\ \A n \in 0..i : reach_seq'[n] \subseteq reach_seq[n]
      <4>1. S \in SUBSET State /\ i \in Nat /\ at \in 0..i-1
        BY <1>b, <3>2, <3>4
      <4>2. /\ Chain(sys.trans, Narrow(reach_seq, at+1, S), i)
            /\ Narrow(reach_seq, at+1, S)[at+1] = reach_seq[at+1] \cap S
            /\ \A n \in 0..i : n # at+1 => Narrow(reach_seq, at+1, S)[n] = reach_seq[n]
            /\ \A n \in 0..i : Narrow(reach_seq, at+1, S)[n] \subseteq reach_seq[n]
        BY <3>2, <3>6, <4>1, ChainNarrow
      <4> QED BY <3>3, <4>2, Zenon
    <3>8. reach_seq'[0] = sys.init
      BY <1>b, <3>2, <3>7
    <3>9. Clear(reach_seq', sys.bad, reached)
      <4>1. \A n \in 0..reached : n \in 0..i
        BY <1>b, <3>1
      <4> QED BY <3>2, <3>7, <4>1 DEF Clear
    <3>10. at+1 = i => reach_seq'[i] \cap sys.bad = {}
      <4> SUFFICES ASSUME at+1 = i PROVE S \cap sys.bad = {}
        BY <3>7
      <4>1. i - at - 1 = 0
        BY <1>b, <3>2
      <4> QED BY <1>b, <3>4, <4>1, ReachesNow DEF SystemType
    <3>11. at' \in 0..i' /\ reach_seq'[at'] \subseteq itp' /\ itp' \in SUBSET State
      BY <1>b, <3>1, <3>2, <3>3, <3>4, <3>7
    <3>12. at' = i' => reach_seq'[i'] \cap sys'.bad = {}
      BY <1>0, <3>1, <3>10
    <3> QED BY <1>0, <3>1, <3>7, <3>8, <3>9, <3>11, <3>12 DEF IsmcInv
  <2>3. CASE SequenceStaysOpen
    <3>1. /\ pc = "sequence" /\ at = i /\ reached' = reached + 1 /\ i > 0 /\ reached = i-1
          /\ pc' = "loop" /\ reach_seq' = reach_seq
      BY <2>3, <1>b DEF SequenceStaysOpen, ControlInv, sequence
    <3>2. /\ Chain(sys.trans, reach_seq, i) /\ reach_seq[i] \cap sys.bad = {}
          /\ reach_seq[0] = sys.init /\ Clear(reach_seq, sys.bad, reached)
      BY <1>a, <3>1 DEF IsmcInv
    <3>3. Clear(reach_seq, sys.bad, i) /\ Top' = i /\ reached' = i
      BY <1>b, <3>1, <3>2 DEF Clear, Top
    <3> QED BY <1>0, <3>1, <3>2, <3>3 DEF IsmcInv
  <2>4. CASE SequenceCloses \/ Replay \/ SequenceFails
    BY <2>4, <1>a DEF SequenceCloses, Replay, SequenceFails, Proof, ConcreteCex, Fail, Answer
  <2> QED BY <1>3, <2>1, <2>2, <2>3, <2>4 DEF NextIsmc
<1>4. CASE UNCHANGED vars
  BY <1>4, <1>0 DEF IsmcInv, Top, vars, strengthening
<1> QED BY <1>1, <1>2, <1>3, <1>4 DEF Next

----------------------------------------------------------------------------
(* DualApproxReach: both sequences are chains, clear of bad and of the     *)
(* initial states at every completed bound.  While a bound is worked on,   *)
(* pairs of positions whose sum is that bound are apart from idx on, first *)
(* above it and then also below.                                           *)

\* No state is in both sequences at positions that add up to n, for the
\* positions N of the first.
Apart(f, b, n, N) == \A m \in N : f[m] \cap b[n-m] = {}

DarInv ==
  opt.engine = "dar" /\ pc # "done" =>
    /\ forward[0] = sys.init /\ backward[0] = sys.bad
    /\ Clear(forward, sys.bad, reached) /\ Clear(backward, sys.init, reached)
    /\ Chain(sys.trans, forward, IF pc \in {"forward", "backward"} THEN reached+1 ELSE Top)
    /\ Chain(Converse(sys.trans), backward, IF pc = "backward" THEN reached+1 ELSE Top)
    /\ pc = "global" =>
         at \in 0..reached /\ itp \in SUBSET State /\ forward[at] \subseteq itp
    /\ pc = "forward" =>
         at \in idx..reached+1 /\ Apart(forward, backward, reached+1, idx+1..at)
    /\ pc = "backward" =>
         /\ at \in reached-idx..reached+1
         /\ Apart(forward, backward, reached+1, (reached+1)-at..reached+1)

ApartInv ==
  opt.engine = "dar" /\ reached >= 0 /\ pc \in {"loop", "fixpoint", "done"} /\ verdict # "ERROR" =>
    Apart(forward, backward, reached, 0..reached)

\* Pairs stay apart while a sequence is strengthened.
LEMMA ApartShrinks ==
  ASSUME NEW f, NEW b, NEW g, NEW c, NEW n, NEW N, Apart(f, b, n, N),
         NEW M, \A m \in M : m \in N /\ g[m] \subseteq f[m] /\ c[n-m] \subseteq b[n-m]
  PROVE  Apart(g, c, n, M)
BY DEF Apart

LEMMA NothingToPart ==
  ASSUME NEW f, NEW b, NEW n
  PROVE  Apart(f, b, n, {})
BY DEF Apart

LEMMA DarStep ==
  ASSUME ControlInv, DarInv, [Next]_vars
  PROVE  DarInv'
<1>0. sys' = sys /\ opt' = opt
  BY SetupStays
<1>a. SUFFICES ASSUME opt.engine = "dar", pc # "done", pc' # "done" PROVE DarInv'
  <2>1. pc = "done" => UNCHANGED vars
    BY EngineTakesStep DEF ControlInv, Next
  <2> QED BY <1>0, <2>1 DEF DarInv, Top, vars, setup, strengthening, sequences
<1>b. /\ sys \in SystemType /\ i \in Nat /\ reached \in Int /\ reached >= -1
      /\ at \in Nat /\ idx \in Nat
  BY DEF ControlInv
<1>c. /\ forward[0] = sys.init /\ backward[0] = sys.bad
      /\ Clear(forward, sys.bad, reached) /\ Clear(backward, sys.init, reached)
  BY <1>a DEF DarInv
<1>d. sys.init \in SUBSET State /\ sys.bad \in SUBSET State
  BY <1>b DEF SystemType
<1>1. CASE Shared /\ UNCHANGED <<growth, sequence, sequences, idx>>
  <2>0. /\ forward' = forward /\ backward' = backward /\ pc = "loop"
        /\ Chain(sys.trans, forward, Top) /\ Chain(Converse(sys.trans), backward, Top)
    BY <1>1, <1>a, EngineTakesStep DEF sequences, DarInv
  <2>1. CASE GiveUp
    BY <2>1, <1>a DEF GiveUp, Answer
  <2>2. CASE Skip
    <3>1. pc' = "loop" /\ reached' = reached
      BY <2>0, <2>2 DEF Skip
    <3> QED BY <1>0, <1>c, <2>0, <3>1 DEF DarInv, Top
  <2>3. CASE InitialBad
    BY <2>3, <1>a DEF InitialBad, ConcreteCex, Answer
  <2>4. CASE InitialGood
    <3>1. pc' = "loop" /\ reached' = 0 /\ sys.init \cap sys.bad = {} /\ reached = -1
      BY <2>0, <2>4, <1>b DEF InitialGood, ControlInv
    <3>2. Top = 0 /\ Top' = 0
      BY <3>1 DEF Top
    <3>3. Clear(forward, sys.bad, 0) /\ Clear(backward, sys.init, 0)
      BY <1>c, <3>1 DEF Clear
    <3> QED BY <1>0, <1>c, <2>0, <3>1, <3>2, <3>3 DEF DarInv
  <2> QED BY <1>1, <2>1, <2>2, <2>3, <2>4 DEF Shared
<1>2. CASE NextImc \/ NextIsmc
  BY <1>2, <1>a, EngineTakesStep
<1>3. CASE NextDar
  <2>1. CASE LocalStrengthen \/ GloballyStrengthened
    <3>1. /\ pc \in {"loop", "global"} /\ pc' = "forward" /\ reached' = reached /\ reached \in Nat
          /\ at' = idx' /\ forward' = Longer(forward) /\ backward' = backward
      BY <2>1, <1>b DEF LocalStrengthen, GloballyStrengthened, StartPairwise, AtStep, ControlInv
    <3>2. idx' \in 0..reached
      <4>1. CASE LocalStrengthen
        <5>1. First(LocalIndices) \in 0..reached
          BY <3>1, <4>1, LocalIndexIsOne DEF LocalStrengthen
        <5> QED BY <1>b, <4>1, <5>1 DEF LocalStrengthen, StartPairwise
      <4>2. CASE GloballyStrengthened
        BY <1>b, <4>2 DEF GloballyStrengthened, StartPairwise, ControlInv
      <4> QED BY <2>1, <4>1, <4>2
    <3>3. Chain(sys.trans, forward, reached) /\ Chain(Converse(sys.trans), backward, reached)
      BY <1>a, <3>1 DEF DarInv, Top
    <3>4. /\ Chain(sys.trans, forward', reached+1)
          /\ \A n \in 0..reached : forward'[n] = forward[n]
      <4>1. reached \in Nat /\ DOMAIN forward = 0..reached
        BY <3>1, <3>3 DEF Chain
      <4>2. forward' = [t \in 0..reached+1 |-> IF t <= reached THEN forward[t] ELSE State]
        BY <3>1, <4>1 DEF Longer
      <4> QED BY <3>3, <4>1, <4>2, ChainLonger
    <3>5. forward'[0] = sys.init /\ Clear(forward', sys.bad, reached)
      BY <1>c, <3>1, <3>4 DEF Clear
    <3>6. at' \in idx'..reached+1 /\ Apart(forward', backward', reached+1, idx'+1..at')
      <4>1. \A n \in Nat : n+1..n = {}
        OBVIOUS
      <4>2. idx' \in Nat
        BY <3>1, <3>2
      <4>3. idx'+1..at' = {}
        BY <3>1, <4>1, <4>2, Zenon
      <4> QED BY <3>1, <3>2, <4>3, NothingToPart
    <3>7. Top' = reached
      BY <3>1 DEF Top
    <3> QED BY <1>0, <1>c, <3>1, <3>3, <3>4, <3>5, <3>6, <3>7 DEF DarInv
  <2>2. CASE GlobalStrengthen
    <3>1. /\ pc = "loop" /\ pc' = "global" /\ reached' = reached /\ at' = 0 /\ itp' = sys.init
          /\ forward' = forward /\ backward' = backward /\ reached \in Nat
      BY <2>2, <1>b DEF GlobalStrengthen, AtStep, ControlInv, sequences
    <3>2. Chain(sys.trans, forward, Top) /\ Chain(Converse(sys.trans), backward, Top) /\ Top' = Top
      BY <1>a, <3>1 DEF DarInv, Top
    <3> QED BY <1>0, <1>c, <1>d, <3>1, <3>2 DEF DarInv
  <2>3. CASE StrengthenGlobally
    <3>1. /\ pc = "global" /\ pc' = pc /\ reached' = reached /\ at < reached /\ at' = at+1
          /\ backward' = backward /\ reached \in Nat
      BY <2>3, <1>b DEF StrengthenGlobally, ControlInv
    <3>2. /\ Chain(sys.trans, forward, reached) /\ Chain(Converse(sys.trans), backward, reached)
          /\ at \in 0..reached-1 /\ itp \in SUBSET State /\ forward[at] \subseteq itp
          /\ Top' = reached
      BY <1>a, <1>b, <3>1 DEF DarInv, Top
    <3>3. PICK S \in Interpolants(Image(itp), Reaches(backward[reached - idx], idx - at)) :
            itp' = S /\ forward' = Narrow(forward, at+1, S)
      BY <2>3 DEF StrengthenGlobally
    <3>4. S \in SUBSET State /\ Image(itp) \subseteq S
      BY DEF Interpolants
    <3>5. Leads(sys.trans, itp, S)
      BY <1>b, <3>2, <3>4, ImageLeads DEF Image
    <3>6. Leads(sys.trans, forward[at], S)
      BY <3>2, <3>5 DEF Leads
    <3>7. /\ Chain(sys.trans, Narrow(forward, at+1, S), reached)
          /\ Narrow(forward, at+1, S)[at+1] = forward[at+1] \cap S
          /\ \A n \in 0..reached : n # at+1 => Narrow(forward, at+1, S)[n] = forward[n]
          /\ \A n \in 0..reached : Narrow(forward, at+1, S)[n] \subseteq forward[n]
      BY <3>1, <3>2, <3>4, <3>6, ChainNarrow
    <3>8. /\ Chain(sys.trans, forward', reached) /\ forward'[at+1] = forward[at+1] \cap S
          /\ \A n \in 0..reached : n # at+1 => forward'[n] = forward[n]
          /\ \A n \in 0..reached : forward'[n] \subseteq forward[n]
      BY <3>3, <3>7, Zenon
    <3>9. forward'[0] = sys.init /\ Clear(forward', sys.bad, reached)
      BY <1>c, <3>1, <3>2, <3>8 DEF Clear
    <3>10. at' \in 0..reached /\ itp' \in SUBSET State /\ forward'[at'] \subseteq itp'
      BY <3>1, <3>2, <3>3, <3>4, <3>8
    <3> QED BY <1>0, <1>c, <3>1, <3>2, <3>8, <3>9, <3>10 DEF DarInv
  <2>4. CASE StrengthenForward
    <3>1. /\ pc = "forward" /\ pc' = pc /\ reached' = reached /\ at <= reached /\ at' = at+1
          /\ backward' = backward /\ idx' = idx /\ reached \in Nat
      BY <2>4, <1>b DEF StrengthenForward, ControlInv
    <3>2. /\ Chain(sys.trans, forward, reached+1) /\ Chain(Converse(sys.trans), backward, reached)
          /\ at \in idx..reached /\ at \in 0..(reached+1)-1 /\ Top' = reached
          /\ Apart(forward, backward, reached+1, idx+1..at)
      BY <1>a, <1>b, <3>1 DEF DarInv, Top
    <3>3. PICK S \in Interpolants(Image(forward[at]), backward[Partner(at)]) :
            forward' = Narrow(forward, at+1, S)
      BY <2>4 DEF StrengthenForward
    <3>4. S \in SUBSET State /\ Image(forward[at]) \subseteq S /\ S \cap backward[reached-at] = {}
      BY DEF Interpolants, Partner
    <3>5. Leads(sys.trans, forward[at], S)
      <4>1. forward[at] \in SUBSET State
        BY <3>1, <3>2 DEF Chain
      <4> QED BY <1>b, <3>4, <4>1, ImageLeads DEF Image
    <3>7. /\ Chain(sys.trans, Narrow(forward, at+1, S), reached+1)
          /\ Narrow(forward, at+1, S)[at+1] = forward[at+1] \cap S
          /\ \A n \in 0..reached+1 : n # at+1 => Narrow(forward, at+1, S)[n] = forward[n]
          /\ \A n \in 0..reached+1 : Narrow(forward, at+1, S)[n] \subseteq forward[n]
      <4>1. reached+1 \in Nat
        BY <3>1
      <4> QED BY <3>2, <3>4, <3>5, <4>1, ChainNarrow
    <3>8. /\ Chain(sys.trans, forward', reached+1) /\ forward'[at+1] = forward[at+1] \cap S
          /\ \A n \in 0..reached+1 : n # at+1 => forward'[n] = forward[n]
          /\ \A n \in 0..reached+1 : forward'[n] \subseteq forward[n]
      BY <3>3, <3>7, Zenon
    <3>9. forward'[0] = sys.init /\ Clear(forward', sys.bad, reached)
      BY <1>c, <3>1, <3>2, <3>8 DEF Clear
    <3>10. Apart(forward', backward, reached+1, idx+1..at)
      <4>1. \A m \in idx+1..at : m \in 0..reached+1
        BY <1>b, <3>1
      <4> QED BY <3>2, <3>8, <4>1, ApartShrinks
    <3>11. Apart(forward', backward, reached+1, idx+1..at+1)
      <4>1. (reached+1)-(at+1) = reached-at
        BY <1>b
      <4>2. forward'[at+1] \cap backward[(reached+1)-(at+1)] = {}
        BY <3>4, <3>8, <4>1
      <4>3. \A m \in idx+1..at+1 : m \in idx+1..at \/ m = at+1
        BY <1>b
      <4> QED BY <3>10, <4>2, <4>3, Zenon DEF Apart
    <3>12. at' \in idx'..reached'+1
      BY <1>b, <3>1, <3>2
    <3> QED BY <1>0, <1>c, <3>1, <3>2, <3>8, <3>9, <3>11, <3>12 DEF DarInv
  <2>5. CASE TurnRound
    <3>1. /\ pc = "forward" /\ pc' = "backward" /\ reached' = reached /\ at = reached+1
          /\ at' = reached-idx /\ idx' = idx /\ reached \in Nat /\ idx \in 0..reached
          /\ forward' = forward /\ backward' = Longer(backward)
      BY <2>5, <1>b DEF TurnRound, ControlInv
    <3>2. /\ Chain(sys.trans, forward, reached+1) /\ Chain(Converse(sys.trans), backward, reached)
          /\ Apart(forward, backward, reached+1, idx+1..reached+1)
      BY <1>a, <3>1 DEF DarInv, Top
    <3>3. /\ Chain(Converse(sys.trans), backward', reached+1)
          /\ \A n \in 0..reached : backward'[n] = backward[n]
      BY <3>1, <3>2, ChainLonger DEF Longer
    <3>4. backward'[0] = sys.bad /\ Clear(backward', sys.init, reached)
      BY <1>c, <3>1, <3>3 DEF Clear
    <3>5. Apart(forward, backward', reached+1, (reached+1)-at'..reached+1)
      <4>1. \A m \in (reached+1)-at'..reached+1 : m \in idx+1..reached+1 /\ (reached+1)-m \in 0..reached
        BY <3>1
      <4>2. \A m \in (reached+1)-at'..reached+1 : backward'[(reached+1)-m] \subseteq backward[(reached+1)-m]
        BY <3>3, <4>1
      <4> QED BY <3>2, <4>1, <4>2, Zenon DEF Apart
    <3>6. at' \in reached-idx..reached+1
      BY <3>1
    <3> QED BY <1>0, <1>c, <3>1, <3>2, <3>3, <3>4, <3>5, <3>6 DEF DarInv
  <2>6. CASE StrengthenBackward
    <3>1. /\ pc = "backward" /\ pc' = pc /\ reached' = reached /\ at <= reached /\ at' = at+1
          /\ forward' = forward /\ idx' = idx /\ reached \in Nat
      BY <2>6, <1>b DEF StrengthenBackward, ControlInv
    <3>2. /\ Chain(sys.trans, forward, reached+1) /\ Chain(Converse(sys.trans), backward, reached+1)
          /\ at \in 0..(reached+1)-1 /\ at \in reached-idx..reached+1
          /\ Apart(forward, backward, reached+1, (reached+1)-at..reached+1)
      BY <1>a, <1>b, <3>1 DEF DarInv
    <3>3. PICK S \in Interpolants(Preimage(backward[at]), forward[Partner(at)]) :
            backward' = Narrow(backward, at+1, S)
      BY <2>6 DEF StrengthenBackward
    <3>4. S \in SUBSET State /\ Preimage(backward[at]) \subseteq S /\ S \cap forward[reached-at] = {}
      BY DEF Interpolants, Partner
    <3>5. Leads(Converse(sys.trans), backward[at], S)
      <4>1. backward[at] \in SUBSET State
        BY <3>1, <3>2 DEF Chain
      <4> QED BY <1>b, <3>4, <4>1, PreimageLeads DEF Preimage
    <3>7. /\ Chain(Converse(sys.trans), Narrow(backward, at+1, S), reached+1)
          /\ Narrow(backward, at+1, S)[at+1] = backward[at+1] \cap S
          /\ \A n \in 0..reached+1 : n # at+1 => Narrow(backward, at+1, S)[n] = backward[n]
          /\ \A n \in 0..reached+1 : Narrow(backward, at+1, S)[n] \subseteq backward[n]
      <4>1. reached+1 \in Nat
        BY <3>1
      <4> QED BY <3>2, <3>4, <3>5, <4>1, ChainNarrow
    <3>8. /\ Chain(Converse(sys.trans), backward', reached+1)
          /\ backward'[at+1] = backward[at+1] \cap S
          /\ \A n \in 0..reached+1 : n # at+1 => backward'[n] = backward[n]
          /\ \A n \in 0..reached+1 : backward'[n] \subseteq backward[n]
      BY <3>3, <3>7, Zenon
    <3>9. backward'[0] = sys.bad /\ Clear(backward', sys.init, reached)
      BY <1>c, <3>1, <3>2, <3>8 DEF Clear
    <3>10. Apart(forward, backward', reached+1, (reached+1)-at..reached+1)
      <4>1. \A m \in (reached+1)-at..reached+1 : (reached+1)-m \in 0..reached+1
        BY <1>b, <3>1
      <4>2. \A m \in (reached+1)-at..reached+1 : backward'[(reached+1)-m] \subseteq backward[(reached+1)-m]
        BY <3>8, <4>1
      <4> QED BY <3>2, <4>2, Zenon DEF Apart
    <3>11. Apart(forward, backward', reached+1, (reached+1)-at'..reached+1)
      <4>1. (reached+1)-(reached-at) = at+1
        BY <1>b
      <4>2. forward[reached-at] \cap backward'[(reached+1)-(reached-at)] = {}
        BY <3>4, <3>8, <4>1
      <4>3. \A m \in (reached+1)-at'..reached+1 : m \in (reached+1)-at..reached+1 \/ m = reached-at
        BY <1>b, <3>1
      <4> QED BY <3>10, <4>2, <4>3, Zenon DEF Apart
    <3>12. at' \in reached'-idx'..reached'+1
      BY <1>b, <3>1, <3>2
    <3> QED BY <1>0, <1>c, <3>1, <3>2, <3>8, <3>9, <3>11, <3>12 DEF DarInv
  <2>7. CASE Complete
    <3>1. /\ pc = "backward" /\ pc' = "fixpoint" /\ reached' = reached+1 /\ at = reached+1
          /\ forward' = forward /\ backward' = backward /\ reached \in Nat
      BY <2>7, <1>b DEF Complete, ControlInv, sequences
    <3>2. /\ Chain(sys.trans, forward, reached+1) /\ Chain(Converse(sys.trans), backward, reached+1)
          /\ Apart(forward, backward, reached+1, 0..reached+1) /\ Top' = reached+1
      <4>1. (reached+1)-at = 0
        BY <3>1
      <4> QED BY <1>a, <3>1, <4>1 DEF DarInv, Top
    <3>3. forward[reached+1] \cap sys.bad = {} /\ backward[reached+1] \cap sys.init = {}
      <4>1. 0 \in 0..reached+1 /\ reached+1 \in 0..reached+1 /\ (reached+1)-0 = reached+1
            /\ (reached+1)-(reached+1) = 0
        BY <3>1
      <4>2. forward[0] \cap backward[reached+1] = {} /\ forward[reached+1] \cap backward[0] = {}
        BY <3>2, <4>1 DEF Apart
      <4> QED BY <1>c, <4>2
    <3>4. Clear(forward, sys.bad, reached+1) /\ Clear(backward, sys.init, reached+1)
      BY <1>c, <3>1, <3>3 DEF Clear
    <3> QED BY <1>0, <1>c, <3>1, <3>2, <3>4 DEF DarInv
  <2>8. CASE SequencesStayOpen
    <3>1. /\ pc = "fixpoint" /\ pc' = "loop" /\ reached' = reached
          /\ forward' = forward /\ backward' = backward
      BY <2>8 DEF SequencesStayOpen, sequences
    <3> QED BY <1>0, <1>a, <3>1 DEF DarInv, Top
  <2>9. CASE LocalCex \/ GlobalCex \/ PairFails \/ ForwardFixedPoint \/ BackwardFixedPoint
    BY <2>9, <1>a DEF LocalCex, GlobalCex, PairFails, ForwardFixedPoint, BackwardFixedPoint,
                      Proof, ConcreteCex, Fail, Answer
  <2> QED BY <1>3, <2>1, <2>2, <2>3, <2>4, <2>5, <2>6, <2>7, <2>8, <2>9 DEF NextDar
<1>4. CASE UNCHANGED vars
  BY <1>4, <1>0 DEF DarInv, Top, vars, strengthening, sequences
<1> QED BY <1>1, <1>2, <1>3, <1>4 DEF Next

LEMMA ApartStep ==
  ASSUME ControlInv, DarInv, ApartInv, [Next]_vars
  PROVE  ApartInv'
<1>0. sys' = sys /\ opt' = opt
  BY SetupStays
<1>a. SUFFICES ASSUME opt.engine = "dar", reached' >= 0, pc' \in {"loop", "fixpoint", "done"},
                      verdict' # "ERROR"
               PROVE  Apart(forward', backward', reached', 0..reached')
  BY <1>0 DEF ApartInv
<1>b. i \in Nat /\ reached \in Int /\ reached >= -1
  BY DEF ControlInv
<1>1. CASE \/ UNCHANGED <<forward, backward, reached>> /\ pc \in {"loop", "fixpoint", "done"}
              /\ verdict # "ERROR"
  BY <1>1, <1>a DEF ApartInv
<1>2. CASE Shared /\ UNCHANGED <<growth, sequence, sequences, idx>>
  <2>1. forward' = forward /\ backward' = backward /\ pc = "loop" /\ verdict = "NONE"
    BY <1>2, EngineTakesStep DEF sequences
  <2>2. CASE InitialGood
    <3>1. reached' = 0 /\ sys.init \cap sys.bad = {}
      BY <2>2 DEF InitialGood
    <3>2. forward[0] = sys.init /\ backward[0] = sys.bad
      BY <1>a, <2>1 DEF DarInv
    <3>3. 0-0 = 0 /\ \A m \in 0..0 : m = 0
      OBVIOUS
    <3> QED BY <2>1, <3>1, <3>2, <3>3, Zenon DEF Apart
  <2>3. CASE GiveUp \/ Skip \/ InitialBad
    BY <1>1, <2>1, <2>3 DEF GiveUp, Skip, InitialBad, ConcreteCex
  <2> QED BY <1>2, <2>2, <2>3 DEF Shared
<1>3. CASE NextImc \/ NextIsmc
  BY <1>3, <1>a, EngineTakesStep
<1>4. CASE NextDar
  <2>0. verdict = "NONE"
    BY <1>4, EngineTakesStep DEF ControlInv
  <2>1. CASE LocalCex \/ GlobalCex \/ ForwardFixedPoint \/ BackwardFixedPoint \/ SequencesStayOpen
    BY <1>1, <2>0, <2>1 DEF LocalCex, GlobalCex, ForwardFixedPoint, BackwardFixedPoint,
                            SequencesStayOpen, ConcreteCex, AtStep, sequences
  <2>2. CASE Complete
    <3>1. /\ pc = "backward" /\ reached' = reached+1 /\ at = reached+1
          /\ forward' = forward /\ backward' = backward
      BY <2>2 DEF Complete, sequences
    <3>2. (reached+1)-at = 0
      BY <1>b, <3>1
    <3>3. Apart(forward, backward, reached+1, (reached+1)-at..reached+1)
      BY <1>a, <3>1 DEF DarInv
    <3> QED BY <3>1, <3>2, <3>3
  <2>3. CASE PairFails
    BY <1>a, <2>3 DEF PairFails, Fail, Answer
  <2>4. CASE \/ LocalStrengthen \/ GlobalStrengthen \/ StrengthenGlobally \/ GloballyStrengthened
             \/ StrengthenForward \/ TurnRound \/ StrengthenBackward
    BY <1>a, <2>4 DEF LocalStrengthen, GlobalStrengthen, StrengthenGlobally, GloballyStrengthened,
                      StrengthenForward, TurnRound, StrengthenBackward, StartPairwise
  <2> QED BY <1>4, <2>1, <2>2, <2>3, <2>4 DEF NextDar
<1>5. CASE UNCHANGED vars
  BY <1>1, <1>5, <1>a DEF vars, sequences, answer
<1> QED BY <1>2, <1>3, <1>4, <1>5 DEF Next

----------------------------------------------------------------------------
(* InterpolantMC: R holds the initial states, the last interpolant holds   *)
(* what is reached in interp_count steps, and what only R holds leads back *)
(* to R and to no counterexample; so no counterexample is shorter than the *)
(* bound to be completed.  Bad states are looked for at time 1 always.     *)

ImcInv ==
  opt.engine = "interp" /\ pc # "done" =>
    /\ unrolled = IF i = 0 THEN 1 ELSE reached+1
    /\ \A d \in 0..reached : ~HasCex(sys, d)
    /\ reached >= 1 => 1 \in bads
    /\ pc = "interpolate" =>
         /\ R \in SUBSET State /\ Ri \subseteq R /\ sys.init \subseteq R
         /\ 1 \in bads /\ i \in bads
         /\ \A p \in [0..count -> State] : IsRun(sys, p, count) => p[count] \in Ri
         /\ \A d \in 0..reached+count : ~HasCex(sys, d)
         /\ Leads(sys.trans, R \ Ri, R \ FormulaB)
         /\ Preimage(State) = State => R \cap sys.bad = {}

\* A counterexample i steps after a state makes its successor one from
\* which bad is reached: an unsatisfiable query excludes it.
LEMMA CexMeetsB ==
  ASSUME sys \in SystemType, i \in Nat, i > 0, unrolled = i, i \in bads,
         NEW k \in Nat, NEW p, IsCex(sys, p, k+i)
  PROVE  /\ <<p[k], p[k+1]>> \in sys.trans /\ p[k] \in State /\ p[k+1] \in State
         /\ p[k+1] \in FormulaB
<1>1. /\ k \in 0..k+i /\ k+1 \in 0..k+i /\ <<p[k], p[k+1]>> \in sys.trans
      /\ p[k] \in State /\ p[k+1] \in State
      /\ \E q \in [0..i-1 -> State] :
           /\ \A t \in 0..(i-1)-1 : <<q[t], q[t+1]>> \in sys.trans
           /\ q[0] = p[k+1] /\ q[i-1] \in sys.bad
  BY CexTail
<1>2. PICK q \in [0..i-1 -> State] :
        /\ \A t \in 0..(i-1)-1 : <<q[t], q[t+1]>> \in sys.trans
        /\ q[0] = p[k+1] /\ q[i-1] \in sys.bad
  BY <1>1
<1>3. IsPath(q, unrolled-1)
  BY <1>2 DEF IsPath
<1>4. p[k+1] \in FormulaB
  BY <1>2, <1>3, FormulaBHas
<1> QED BY <1>1, <1>4

\* Where every state has a successor the formula has every bad state.
LEMMA BadIsInB ==
  ASSUME sys \in SystemType, Preimage(State) = State, unrolled \in Nat, unrolled > 0, 1 \in bads
  PROVE  sys.bad \subseteq FormulaB
<1>1. ASSUME NEW s \in State PROVE \E t \in State : <<s, t>> \in sys.trans
  <2>1. s \in {p[1] : p \in {q \in sys.trans : q[2] \in State}}
    BY DEF Preimage
  <2>2. PICK p \in sys.trans : p[1] = s
    BY <2>1
  <2>3. p[2] \in State /\ p = <<p[1], p[2]>>
    BY DEF SystemType
  <2> QED BY <2>2, <2>3
<1> SUFFICES ASSUME NEW s \in sys.bad PROVE s \in FormulaB
  OBVIOUS
<1>2. s \in State /\ unrolled-1 \in Nat
  BY DEF SystemType
<1>3. PICK q \in [0..unrolled-1 -> State] :
        q[0] = s /\ \A t \in 0..(unrolled-1)-1 : <<q[t], q[t+1]>> \in sys.trans
  BY <1>1, <1>2, PathExists
<1>4. IsPath(q, unrolled-1) /\ q[1-1] \in sys.bad
  BY <1>3 DEF IsPath
<1> QED BY <1>3, <1>4, FormulaBHas

LEMMA ImcStep ==
  ASSUME ControlInv, ImcInv, [Next]_vars
  PROVE  ImcInv'
<1>0. sys' = sys /\ opt' = opt
  BY SetupStays
<1>a. SUFFICES ASSUME opt.engine = "interp", pc # "done", pc' # "done" PROVE ImcInv'
  <2>1. pc = "done" => UNCHANGED vars
    BY EngineTakesStep DEF ControlInv, Next
  <2> QED BY <1>0, <2>1 DEF ImcInv, vars, setup
<1>b. /\ sys \in SystemType /\ i \in Nat /\ reached \in Int /\ reached >= -1 /\ count \in Nat
      /\ sys.init \in SUBSET State /\ sys.bad \in SUBSET State
  BY DEF ControlInv, SystemType
<1>c. /\ unrolled = IF i = 0 THEN 1 ELSE reached+1
      /\ \A d \in 0..reached : ~HasCex(sys, d)
      /\ reached >= 1 => 1 \in bads
  BY <1>a DEF ImcInv
<1>1. CASE Shared /\ UNCHANGED <<growth, sequence, sequences, idx>>
  <2>0. unrolled' = unrolled /\ bads' = bads /\ pc = "loop"
    BY <1>1, EngineTakesStep DEF growth
  <2>1. CASE GiveUp \/ InitialBad
    BY <2>1, <1>a DEF GiveUp, InitialBad, ConcreteCex, Answer
  <2>2. CASE Skip
    <3>1. pc' = "loop" /\ reached' = reached /\ i # 0 /\ i' # 0
      BY <1>b, <2>0, <2>2 DEF Skip, ControlInv
    <3> QED BY <1>0, <1>c, <2>0, <3>1 DEF ImcInv
  <2>3. CASE InitialGood
    <3>1. /\ pc' = "loop" /\ reached' = 0 /\ i' = 1 /\ i = 0 /\ sys.init \cap sys.bad = {}
      BY <2>0, <2>3 DEF InitialGood
    <3>2. \A d \in 0..0 : ~HasCex(sys, d)
      <4>1. ~HasCex(sys, 0) /\ \A d \in 0..0 : d = 0
        BY <1>b, <3>1, NoStepsIsInit
      <4> QED BY <4>1
    <3> QED BY <1>0, <1>c, <2>0, <3>1, <3>2 DEF ImcInv
  <2> QED BY <1>1, <2>1, <2>2, <2>3 DEF Shared
<1>2. CASE NextIsmc \/ NextDar
  BY <1>2, <1>a, EngineTakesStep
<1>3. CASE NextImc
  <2>1. CASE StartStep
    <3>1. /\ i > 0 /\ reached = i-1 /\ i' = i /\ reached' = reached /\ pc' = "interpolate"
          /\ unrolled' = unrolled /\ count' = 0 /\ R' = sys.init /\ Ri' = sys.init
          /\ bads' = IF opt.all THEN bads \cup {i} ELSE {1, i}
      BY <2>1, <1>b DEF StartStep, AtStep, ControlInv
    <3>2. 1 \in bads' /\ i \in bads'
      <4>1. i = 1 \/ reached >= 1
        BY <1>b, <3>1
      <4> QED BY <1>c, <3>1, <4>1
    <3>3. \A p \in [0..0 -> State] : IsRun(sys, p, 0) => p[0] \in sys.init
      BY DEF IsRun
    <3>4. sys.init \cap sys.bad = {}
      <4>1. 0 \in 0..reached
        BY <1>b, <3>1
      <4> QED BY <1>b, <1>c, <4>1, NoStepsIsInit
    <3>5. Leads(sys.trans, R' \ Ri', R' \ FormulaB')
      BY <3>1 DEF Leads
    <3>6. \A d \in 0..reached+0 : ~HasCex(sys, d)
      BY <1>b, <1>c
    <3> QED BY <1>0, <1>b, <1>c, <3>1, <3>2, <3>3, <3>4, <3>5, <3>6 DEF ImcInv
  <2>2. CASE Grow
    <3>1. /\ pc = "interpolate" /\ pc' = pc /\ i' = i /\ reached' = reached /\ i > 0 /\ reached = i-1
          /\ unrolled' = unrolled /\ bads' = bads /\ count' = count+1 /\ Unsat
      BY <2>2, <1>b DEF Grow, ControlInv
    <3>2. /\ R \in SUBSET State /\ Ri \subseteq R /\ sys.init \subseteq R
          /\ 1 \in bads /\ i \in bads
          /\ \A p \in [0..count -> State] : IsRun(sys, p, count) => p[count] \in Ri
          /\ \A d \in 0..reached+count : ~HasCex(sys, d)
          /\ Leads(sys.trans, R \ Ri, R \ FormulaB)
          /\ Preimage(State) = State => R \cap sys.bad = {}
      BY <1>a, <3>1 DEF ImcInv
    <3>3. PICK S \in Interpolants(FormulaA, FormulaB) : Ri' = S /\ R' = R \cup S
      BY <2>2 DEF Grow
    <3>4. S \in SUBSET State /\ FormulaA \subseteq S /\ S \cap FormulaB = {}
      BY DEF Interpolants
    <3>5. FormulaB' = FormulaB
      BY <1>0, <3>1 DEF FormulaB, IsPath
    <3>6. Leads(sys.trans, Ri, S \ FormulaB)
      <4>1. Image(Ri) \subseteq FormulaA
        BY <3>2 DEF FormulaA, Image
      <4>2. Image(Ri) \subseteq S \ FormulaB
        BY <3>4, <4>1
      <4> QED BY <1>b, <3>2, <4>2, ImageLeads DEF Image
    <3>7. Leads(sys.trans, R' \ Ri', R' \ FormulaB')
      BY <3>2, <3>3, <3>5, <3>6 DEF Leads
    <3>8. ASSUME NEW n \in Nat, n > count, NEW p, IsRun(sys, p, n)
          PROVE  p[count] \in Ri /\ <<p[count], p[count+1]>> \in sys.trans /\ p[count+1] \in State
      <4>1. count \in 0..n /\ count \in 0..n-1 /\ count+1 \in 0..n /\ count \in 0..count
        BY <1>b, <3>8
      <4>2. /\ IsRun(sys, [t \in 0..count |-> p[t]], count)
            /\ [t \in 0..count |-> p[t]] \in [0..count -> State]
        BY <3>8, <4>1, RunPrefix DEF IsRun
      <4>3. [t \in 0..count |-> p[t]][count] \in Ri
        BY <3>2, <4>2
      <4> QED BY <3>8, <4>1, <4>3 DEF IsRun
    <3>9. ASSUME NEW p \in [0..count+1 -> State], IsRun(sys, p, count+1) PROVE p[count+1] \in S
      <4>1. count+1 \in Nat /\ count+1 > count
        BY <1>b
      <4> QED BY <3>6, <3>8, <3>9, <4>1 DEF Leads
    <3>10. ASSUME NEW d \in 0..reached+(count+1) PROVE ~HasCex(sys, d)
      <4>1. CASE d \in 0..reached+count
        BY <3>2, <4>1
      <4>2. CASE d = count+i
        <5> SUFFICES ASSUME NEW p, IsCex(sys, p, count+i) PROVE FALSE
          BY <4>2 DEF HasCex
        <5>1. count+i \in Nat /\ count+i > count /\ unrolled = i
          BY <1>b, <1>c, <3>1
        <5>2. p[count+1] \in FormulaB
          BY <1>b, <3>1, <3>2, <5>1, CexMeetsB
        <5>3. IsRun(sys, p, count+i)
          BY DEF IsCex
        <5>4. p[count] \in Ri /\ <<p[count], p[count+1]>> \in sys.trans /\ p[count+1] \in State
          BY <3>8, <5>1, <5>3
        <5> QED BY <3>6, <5>2, <5>4 DEF Leads
      <4> QED BY <1>b, <3>1, <4>1, <4>2
    <3>11. Preimage(State)' = State => R' \cap sys.bad = {}
      <4> SUFFICES ASSUME Preimage(State)' = State PROVE R' \cap sys.bad = {}
        OBVIOUS
      <4>1. Preimage(State) = State
        BY <1>0 DEF Preimage
      <4>2. sys.bad \subseteq FormulaB
        BY <1>b, <1>c, <3>1, <3>2, <4>1, BadIsInB
      <4> QED BY <3>2, <3>3, <3>4, <4>1, <4>2
    <3>12. R' \in SUBSET State /\ Ri' \subseteq R' /\ sys.init \subseteq R'
      BY <3>2, <3>3, <3>4
    <3> QED BY <1>0, <1>c, <3>1, <3>2, <3>3, <3>7, <3>9, <3>10, <3>11, <3>12 DEF ImcInv
  <2>3. CASE Extend
    <3>1. /\ pc = "interpolate" /\ pc' = "loop" /\ i' = i+1 /\ i > 0 /\ reached = i-1 /\ count > 0
          /\ bads' = bads /\ reached' = Completed
          /\ unrolled' = unrolled + (IF opt.eager THEN count ELSE 1)
      BY <2>3, <1>b DEF Extend, ControlInv
    <3>2. 1 \in bads /\ \A d \in 0..reached+count : ~HasCex(sys, d)
      BY <1>a, <3>1 DEF ImcInv
    <3>3. reached' \in Nat /\ reached' <= reached+count /\ unrolled' = reached'+1 /\ i' # 0
      BY <1>b, <1>c, <3>1 DEF Completed
    <3>4. \A d \in 0..reached' : ~HasCex(sys, d)
      BY <1>b, <3>2, <3>3
    <3> QED BY <1>0, <3>1, <3>2, <3>3, <3>4 DEF ImcInv
  <2>4. CASE Converged \/ FindCex \/ InterpolantFails
    BY <2>4, <1>a DEF Converged, FindCex, InterpolantFails, Proof, ConcreteCex, Fail, Answer
  <2> QED BY <1>3, <2>1, <2>2, <2>3, <2>4 DEF NextImc
<1>4. CASE UNCHANGED vars
  <2>1. FormulaB' = FormulaB /\ Preimage(State)' = Preimage(State)
    BY <1>0, <1>4 DEF FormulaB, IsPath, Preimage, vars, growth
  <2> QED BY <1>4, <1>0, <2>1 DEF ImcInv, vars, growth
<1> QED BY <1>1, <1>2, <1>3, <1>4 DEF Next

----------------------------------------------------------------------------
(* The invariant of the three engines.                                     *)

IInv == ControlInv /\ IsmcInv /\ DarInv /\ ApartInv /\ ImcInv

LEMMA InitIInv ==
  ASSUME Init PROVE IInv
<1>1. PICK c \in Cases : sys = c[1] /\ opt = c[2]
  BY DEF Init, InitShared
<1>2. /\ pc = "loop" /\ i = 0 /\ at = 0 /\ reached = -1 /\ verdict = "NONE"
      /\ count = 0 /\ unrolled = 1 /\ idx = 0
      /\ reach_seq = [t \in {0} |-> sys.init]
      /\ forward = [t \in {0} |-> sys.init] /\ backward = [t \in {0} |-> sys.bad]
  BY DEF Init, InitShared, InitImc, InitIsmc, InitDar
<1>3. sys \in SystemType /\ opt \in OptionType
  BY <1>1, CasesAssumption
<1>4. ControlInv
  BY <1>2, <1>3 DEF ControlInv
<1>5. sys.init \in SUBSET State /\ sys.bad \in SUBSET State /\ Top = 0
  BY <1>2, <1>3 DEF SystemType, Top
<1>6. 0..0 = {0} /\ 0..0-1 = {} /\ 0..-1 = {}
  OBVIOUS
<1>7. ASSUME NEW rel, NEW S \in SUBSET State, NEW T
      PROVE  Chain(rel, [t \in {0} |-> S], 0) /\ Clear([t \in {0} |-> S], T, -1)
  BY <1>6 DEF Chain, Clear
<1>8. IsmcInv /\ DarInv
  BY <1>2, <1>5, <1>7 DEF IsmcInv, DarInv
<1>9. ApartInv /\ ImcInv
  BY <1>2, <1>6 DEF ApartInv, ImcInv
<1> QED BY <1>4, <1>8, <1>9 DEF IInv

LEMMA NextIInv ==
  ASSUME IInv, [Next]_vars PROVE IInv'
BY ControlStep, IsmcStep, DarStep, ApartStep, ImcStep DEF IInv

LEMMA IInvHolds == Spec => []IInv
BY InitIInv, NextIInv, PTL DEF Spec

(* A bound that dual approximated reachability has completed separates all *)
(* pairs of positions that add up to it, whatever interpolants are chosen  *)
(* and wherever strengthening started.                                     *)
THEOREM DarSeparates == Spec => []SequencesStayApart
<1>1. ApartInv => SequencesStayApart
  BY DEF ApartInv, SequencesStayApart, Apart
<1>2. IInv => SequencesStayApart
  BY <1>1 DEF IInv
<1> QED BY <1>2, IInvHolds, PTL

----------------------------------------------------------------------------
(* What the engines claim.                                                 *)

\* The exact sets of InterpolantMC are a chain.
LEMMA ExactIsChain ==
  ASSUME sys \in SystemType, NEW m \in Nat
  PROVE  /\ Chain(sys.trans, [n \in 0..m |-> Exactly(n)], m)
         /\ sys.init \subseteq Exactly(0)
         /\ \A n \in Nat : Exactly(n) \cap sys.bad = {} <=> ~HasCex(sys, n)
<1>1. \A n : \A s : s \in Exactly(n) <=> /\ s \in State
                                         /\ \E p \in [0..n -> State] : IsRun(sys, p, n) /\ p[n] = s
  BY DEF Exactly
<1>2. ASSUME NEW n \in Nat, NEW s \in Exactly(n), NEW t \in State, <<s, t>> \in sys.trans
      PROVE  t \in Exactly(n+1)
  <2>1. PICK p \in [0..n -> State] : IsRun(sys, p, n) /\ p[n] = s
    BY <1>1
  <2> DEFINE q == [j \in 0..n+1 |-> IF j <= n THEN p[j] ELSE t]
  <2>2. q \in [0..n+1 -> State] /\ q[n+1] = t /\ q[0] \in sys.init
    BY <2>1 DEF IsRun
  <2>3. ASSUME NEW j \in 0..(n+1)-1 PROVE <<q[j], q[j+1]>> \in sys.trans
    <3>1. CASE j = n
      BY <1>2, <2>1, <3>1
    <3>2. CASE j # n
      <4>1. j \in 0..n-1 /\ q[j] = p[j] /\ q[j+1] = p[j+1]
        BY <3>2
      <4> QED BY <2>1, <4>1 DEF IsRun
    <3> QED BY <3>1, <3>2
  <2> HIDE DEF q
  <2>4. IsRun(sys, q, n+1)
    BY <2>2, <2>3 DEF IsRun
  <2> QED BY <1>1, <2>2, <2>4
<1>3. Chain(sys.trans, [n \in 0..m |-> Exactly(n)], m)
  <2> DEFINE f == [n \in 0..m |-> Exactly(n)]
  <2>1. f \in [0..m -> SUBSET State]
    BY <1>1
  <2>2. ASSUME NEW n \in 0..m-1 PROVE Leads(sys.trans, f[n], f[n+1])
    <3>1. f[n] = Exactly(n) /\ f[n+1] = Exactly(n+1) /\ n \in Nat
      OBVIOUS
    <3> QED BY <1>2, <3>1 DEF Leads
  <2> HIDE DEF f
  <2>3. Chain(sys.trans, f, m)
    BY <2>1, <2>2 DEF Chain
  <2> QED BY <2>3 DEF f
<1>4. sys.init \subseteq Exactly(0)
  <2>1. sys.init \subseteq State
    BY DEF SystemType
  <2> QED BY <1>1, <2>1, NoStepsIsInit
<1>5. ASSUME NEW n \in Nat PROVE Exactly(n) \cap sys.bad = {} <=> ~HasCex(sys, n)
  <2>1. ASSUME NEW p \in [0..n -> State], IsCex(sys, p, n) PROVE p[n] \in Exactly(n) \cap sys.bad
    <3>1. p[n] \in State
      OBVIOUS
    <3> QED BY <1>1, <2>1, <3>1 DEF IsCex
  <2>2. ASSUME NEW s \in Exactly(n), s \in sys.bad PROVE HasCex(sys, n)
    <3>1. PICK p \in [0..n -> State] : IsRun(sys, p, n) /\ p[n] = s
      BY <1>1
    <3> QED BY <2>2, <3>1 DEF HasCex, IsCex
  <2> QED BY <2>1, <2>2 DEF HasCex
<1> QED BY <1>3, <1>4, <1>5

ClaimedOk ==
  verdict = "NONE" =>
    /\ Listed(Claimed) \in Seq(SUBSET Sequence!State)
    /\ Sequence!OverApproximates(sys, Listed(Claimed))
    /\ Sequence!Avoids(sys, Listed(Claimed), reached)

LEMMA ClaimedIsSequence == IInv => ClaimedOk
<1> SUFFICES ASSUME IInv, verdict = "NONE" PROVE ClaimedOk
  BY DEF ClaimedOk
<1>1. /\ sys \in SystemType /\ opt.engine \in {"interp", "ismc", "dar"} /\ pc # "done"
      /\ i \in Nat /\ reached \in Int /\ reached >= -1 /\ Top \in Nat /\ reached <= Top
  BY DEF IInv, ControlInv, OptionType, Top
<1> SUFFICES \E m \in Nat : /\ Chain(sys.trans, Claimed, m) /\ sys.init \subseteq Claimed[0]
                            /\ reached <= m /\ Clear(Claimed, sys.bad, reached)
  BY <1>1, ListedChain DEF ClaimedOk
<1>2. CASE opt.engine = "ismc"
  <2>1. Claimed = reach_seq
    BY <1>2 DEF Claimed
  <2>2. sys.init \subseteq reach_seq[0] /\ Clear(reach_seq, sys.bad, reached)
    BY <1>1, <1>2 DEF IInv, IsmcInv
  <2>3. CASE pc = "loop"
    BY <1>1, <1>2, <2>1, <2>2, <2>3 DEF IInv, IsmcInv
  <2>4. CASE pc = "sequence"
    BY <1>1, <1>2, <2>1, <2>2, <2>4 DEF IInv, IsmcInv, ControlInv
  <2> QED BY <1>1, <1>2, <2>3, <2>4 DEF IInv, ControlInv
<1>3. CASE opt.engine = "dar"
  <2>1. Claimed = forward
    BY <1>3 DEF Claimed
  <2>2. /\ sys.init \subseteq forward[0] /\ Clear(forward, sys.bad, reached)
        /\ Chain(sys.trans, forward, IF pc \in {"forward", "backward"} THEN reached+1 ELSE Top)
    BY <1>1, <1>3 DEF IInv, DarInv
  <2>3. CASE pc \in {"forward", "backward"}
    <3>1. reached+1 \in Nat /\ reached <= reached+1
      BY <1>1
    <3> QED BY <2>1, <2>2, <2>3, <3>1
  <2>4. CASE pc \notin {"forward", "backward"}
    BY <1>1, <2>1, <2>2, <2>4
  <2> QED BY <2>3, <2>4
<1>4. CASE opt.engine = "interp"
  <2>1. Claimed = [n \in 0..Top |-> Exactly(n)]
    BY <1>4 DEF Claimed, Top
  <2>2. Chain(sys.trans, Claimed, Top) /\ sys.init \subseteq Exactly(0)
    BY <1>1, <2>1, ExactIsChain
  <2>3. Claimed[0] = Exactly(0) /\ \A n \in 0..reached : n \in Nat /\ Claimed[n] = Exactly(n)
    BY <1>1, <2>1 DEF Top
  <2>4. \A n \in 0..reached : ~HasCex(sys, n)
    BY <1>1, <1>4 DEF IInv, ImcInv
  <2>5. \A n \in Nat : Exactly(n) \cap sys.bad = {} <=> ~HasCex(sys, n)
    BY <1>1, ExactIsChain
  <2>6. Clear(Claimed, sys.bad, reached)
    BY <2>3, <2>4, <2>5 DEF Clear
  <2> QED BY <1>1, <2>2, <2>3, <2>6
<1> QED BY <1>1, <1>2, <1>3, <1>4

LEMMA ClaimedStaysSequence == IInv' => ClaimedOk'
BY ClaimedIsSequence, PTL

----------------------------------------------------------------------------
(* An answer TRUE comes with an inductive invariant.                       *)

LEMMA SequenceProves ==
  ASSUME IInv, SequenceCloses
  PROVE  Invariant' \in SUBSET State /\ Sequence!Inductive(sys, Invariant')
<1>1. /\ sys \in SystemType /\ opt.engine = "ismc" /\ pc = "sequence" /\ i \in Nat /\ reached = i-1
      /\ opt' = opt
  BY DEF IInv, ControlInv, SequenceCloses, setup
<1>2. /\ Chain(sys.trans, reach_seq, i) /\ reach_seq[0] = sys.init
      /\ Clear(reach_seq, sys.bad, i-1) /\ FixedPoints(reach_seq) # {}
  BY <1>1 DEF IInv, IsmcInv, SequenceCloses
<1>3. Invariant' = UpTo(reach_seq, First(FixedPoints(reach_seq)))
  BY <1>1 DEF Invariant, SequenceCloses, Proof
<1> DEFINE U == UpTo(reach_seq, First(FixedPoints(reach_seq)))
<1>4. /\ U \in SUBSET State /\ sys.init \subseteq U /\ U \cap sys.bad = {}
      /\ Leads(sys.trans, U, U)
  BY <1>1, <1>2, FixedPointCloses
<1> HIDE DEF U
<1>5. Invariant' = U
  BY <1>3 DEF U
<1> QED BY <1>1, <1>4, <1>5, IsInductive

LEMMA ForwardProves ==
  ASSUME IInv, ForwardFixedPoint
  PROVE  Invariant' \in SUBSET State /\ Sequence!Inductive(sys, Invariant')
<1>1. /\ sys \in SystemType /\ opt.engine = "dar" /\ pc = "fixpoint" /\ reached \in Nat
      /\ opt' = opt
  BY DEF IInv, ControlInv, ForwardFixedPoint, setup
<1>2. /\ Chain(sys.trans, forward, reached) /\ forward[0] = sys.init
      /\ Clear(forward, sys.bad, reached-1) /\ FixedPoints(forward) # {}
  BY <1>1 DEF IInv, DarInv, Top, Clear, ForwardFixedPoint
<1>3. Invariant' = UpTo(forward, First(FixedPoints(forward)))
  BY <1>1 DEF Invariant, ForwardFixedPoint, Proof
<1> DEFINE U == UpTo(forward, First(FixedPoints(forward)))
<1>4. /\ U \in SUBSET State /\ sys.init \subseteq U /\ U \cap sys.bad = {}
      /\ Leads(sys.trans, U, U)
  BY <1>1, <1>2, FixedPointCloses
<1> HIDE DEF U
<1>5. Invariant' = U
  BY <1>3 DEF U
<1> QED BY <1>1, <1>4, <1>5, IsInductive

\* What bad cannot be reached from is closed, and has the initial states.
LEMMA BackwardProves ==
  ASSUME IInv, BackwardFixedPoint
  PROVE  Invariant' \in SUBSET State /\ Sequence!Inductive(sys, Invariant')
<1>1. /\ sys \in SystemType /\ opt.engine = "dar" /\ pc = "fixpoint" /\ reached \in Nat
      /\ opt' = opt /\ sys.init \subseteq State
  BY DEF IInv, ControlInv, BackwardFixedPoint, setup, SystemType
<1>2. /\ Chain(Converse(sys.trans), backward, reached) /\ backward[0] = sys.bad
      /\ Clear(backward, sys.init, reached-1) /\ FixedPoints(backward) # {}
  BY <1>1 DEF IInv, DarInv, Top, Clear, BackwardFixedPoint
<1> DEFINE U == UpTo(backward, First(FixedPoints(backward)))
<1>3. Invariant' = State \ U
  BY <1>1 DEF Invariant, BackwardFixedPoint, Proof
<1>4. /\ sys.bad \subseteq U /\ U \cap sys.init = {} /\ Leads(Converse(sys.trans), U, U)
  BY <1>1, <1>2, FixedPointCloses
<1> HIDE DEF U
<1>5. Leads(sys.trans, State \ U, State \ U)
  BY <1>4, ConverseSwaps DEF Leads
<1> QED BY <1>1, <1>3, <1>4, <1>5, IsInductive

\* Where a state has no successor, R is closed and no counterexample can be
\* as long as the bound: the state i steps before its end would be in R.
LEMMA ConvergedProves ==
  ASSUME IInv, Converged
  PROVE  Invariant' \in SUBSET State /\ Sequence!Inductive(sys, Invariant')
<1>1. /\ sys \in SystemType /\ opt.engine = "interp" /\ pc = "interpolate" /\ i \in Nat /\ i > 0
      /\ reached = i-1 /\ sys' = sys /\ opt' = opt /\ Unsat
  BY DEF IInv, ControlInv, Converged, setup
<1>2. /\ R \in SUBSET State /\ Ri \subseteq R /\ sys.init \subseteq R /\ i \in bads /\ unrolled = i
      /\ Leads(sys.trans, R \ Ri, R \ FormulaB)
      /\ Preimage(State) = State => R \cap sys.bad = {}
      /\ \A d \in 0..i-1 : ~HasCex(sys, d)
  BY <1>1 DEF IInv, ImcInv
<1>3. PICK S \in Interpolants(FormulaA, FormulaB) : S \subseteq R /\ invar' = R /\ verdict' = "TRUE"
  BY DEF Converged, Proof, Answer
<1>4. Leads(sys.trans, R, R \ FormulaB)
  <2>1. FormulaA \subseteq R \ FormulaB
    BY <1>3 DEF Interpolants
  <2>2. Image(Ri) \subseteq FormulaA
    BY <1>2 DEF FormulaA, Image
  <2>3. Leads(sys.trans, Ri, R \ FormulaB)
    BY <1>1, <1>2, <2>1, <2>2, ImageLeads DEF Image
  <2> QED BY <1>2, <2>3 DEF Leads
<1>5. Leads(sys.trans, R, R)
  BY <1>4 DEF Leads
<1>6. CASE Preimage(State) = State
  <2>1. Invariant' = R
    BY <1>1, <1>3, <1>6 DEF Invariant, Preimage
  <2> QED BY <1>1, <1>2, <1>5, <1>6, <2>1, IsInductive
<1>7. CASE Preimage(State) # State
  <2>1. Invariant' = Reachable(sys)
    BY <1>1, <1>3, <1>7 DEF Invariant, Preimage
  <2>2. ASSUME NEW d \in Nat PROVE ~HasCex(sys, d)
    <3> SUFFICES ASSUME NEW p, IsCex(sys, p, d), d >= i PROVE FALSE
      BY <1>1, <1>2 DEF HasCex
    <3>1. d-i \in Nat /\ (d-i)+i = d /\ d-i \in 0..d
      BY <1>1
    <3>2. /\ <<p[d-i], p[(d-i)+1]>> \in sys.trans /\ p[(d-i)+1] \in State
          /\ p[(d-i)+1] \in FormulaB
      BY <1>1, <1>2, <3>1, CexMeetsB
    <3>3. p[d-i] \in R
      BY <1>1, <1>2, <1>5, <3>1, ClosedHasRuns DEF IsCex
    <3> QED BY <1>4, <3>2, <3>3 DEF Leads
  <2> QED BY <1>1, <2>1, <2>2, ReachableIsInductive, ReachableIsClosed
<1> QED BY <1>6, <1>7

----------------------------------------------------------------------------
(* Every step is one of ReachSequence, or none.                            *)

\* check_until goes on: bounds are completed, nothing is answered.
GoesOn ==
  /\ verdict = "NONE" /\ verdict' = "NONE"
  /\ reached' \in Int /\ reached' >= reached
  /\ UNCHANGED <<invar, witness>>

FindsCex ==
  /\ verdict = "NONE" /\ verdict' = "FALSE"
  /\ IsCex(sys, witness', reached+1)
  /\ UNCHANGED <<reached, invar>>

Stops ==
  /\ verdict = "NONE" /\ verdict' \in {"UNKNOWN", "ERROR"}
  /\ UNCHANGED <<reached, invar, witness>>

Proves ==
  \/ Converged
  \/ SequenceCloses
  \/ ForwardFixedPoint
  \/ BackwardFixedPoint

LEMMA StepKinds ==
  ASSUME ControlInv, [Next]_vars
  PROVE  UNCHANGED vars \/ GoesOn \/ FindsCex \/ Stops \/ Proves
<1>0. /\ i \in Nat /\ reached \in Int /\ reached >= -1 /\ count \in Nat
      /\ pc = "done" <=> verdict # "NONE"
  BY DEF ControlInv
<1>a. ASSUME ConcreteCex(reached+1), verdict = "NONE" PROVE FindsCex
  BY <1>a DEF ConcreteCex, FindsCex, Answer
<1>1. CASE Shared
  <2>0. verdict = "NONE" /\ pc = "loop"
    BY <1>1, EngineTakesStep
  <2>1. CASE GiveUp
    BY <2>0, <2>1 DEF GiveUp, Stops, Answer
  <2>2. CASE Skip
    BY <1>0, <2>0, <2>2 DEF Skip, GoesOn, answer
  <2>3. CASE InitialBad
    <3>1. reached+1 = 0
      BY <2>0, <2>3 DEF InitialBad, ControlInv
    <3> QED BY <1>a, <2>0, <2>3, <3>1 DEF InitialBad
  <2>4. CASE InitialGood
    BY <1>0, <2>0, <2>4 DEF InitialGood, GoesOn, answer, AtStep
  <2> QED BY <1>1, <2>1, <2>2, <2>3, <2>4 DEF Shared
<1>2. CASE NextImc
  <2>0. verdict = "NONE" /\ opt.engine = "interp"
    BY <1>2, EngineTakesStep
  <2>1. CASE StartStep \/ Grow
    BY <1>0, <2>0, <2>1 DEF StartStep, Grow, GoesOn, answer
  <2>2. CASE FindCex
    <3>1. reached+1 = i
      BY <1>0, <2>2 DEF FindCex, ControlInv
    <3> QED BY <1>a, <2>0, <2>2, <3>1 DEF FindCex
  <2>3. CASE InterpolantFails
    BY <2>0, <2>3 DEF InterpolantFails, Fail, Stops, Answer
  <2>4. CASE Extend
    <3>1. reached = i-1 /\ count > 0 /\ reached' = Completed
      BY <1>0, <2>4 DEF Extend, ControlInv
    <3>2. reached' \in Int /\ reached' >= reached
      BY <1>0, <3>1 DEF Completed
    <3> QED BY <2>0, <2>4, <3>2 DEF Extend, GoesOn, answer
  <2> QED BY <1>2, <2>1, <2>2, <2>3, <2>4 DEF NextImc, Proves
<1>3. CASE NextIsmc
  <2>0. verdict = "NONE"
    BY <1>3, EngineTakesStep
  <2>1. CASE StartSequence \/ StrengthenSequence \/ SequenceStaysOpen
    BY <1>0, <2>0, <2>1 DEF StartSequence, StrengthenSequence, SequenceStaysOpen, GoesOn, answer
  <2>2. CASE Replay
    <3>1. reached+1 = i
      BY <1>0, <2>2 DEF Replay, AtStep, ControlInv
    <3> QED BY <1>a, <2>0, <2>2, <3>1 DEF Replay
  <2>3. CASE SequenceFails
    BY <2>0, <2>3 DEF SequenceFails, Fail, Stops, Answer
  <2> QED BY <1>3, <2>1, <2>2, <2>3 DEF NextIsmc, Proves
<1>4. CASE NextDar
  <2>0. verdict = "NONE"
    BY <1>4, EngineTakesStep
  <2>1. CASE \/ LocalStrengthen \/ GlobalStrengthen \/ StrengthenGlobally \/ GloballyStrengthened
             \/ StrengthenForward \/ TurnRound \/ StrengthenBackward \/ Complete
             \/ SequencesStayOpen
    BY <1>0, <2>0, <2>1 DEF LocalStrengthen, GlobalStrengthen, StrengthenGlobally,
                            GloballyStrengthened, StrengthenForward, TurnRound,
                            StrengthenBackward, Complete, SequencesStayOpen, GoesOn, answer
  <2>2. CASE LocalCex
    <3>1. reached+1 = 1
      BY <1>0, <2>2 DEF LocalCex, AtStep, ControlInv
    <3> QED BY <1>a, <2>0, <2>2, <3>1 DEF LocalCex
  <2>3. CASE GlobalCex
    <3>1. reached+1 = i
      BY <1>0, <2>3 DEF GlobalCex, AtStep, ControlInv
    <3> QED BY <1>a, <2>0, <2>3, <3>1 DEF GlobalCex
  <2>4. CASE PairFails
    BY <2>0, <2>4 DEF PairFails, Fail, Stops, Answer
  <2> QED BY <1>4, <2>1, <2>2, <2>3, <2>4 DEF NextDar, Proves
<1> QED BY <1>1, <1>2, <1>3, <1>4 DEF Next

LEMMA EnginesRefineStep ==
  ASSUME IInv, IInv', [Next]_vars
  PROVE  [Sequence!Next]_Sequence!vars
<1>0. sys' = sys /\ opt' = opt /\ reached \in Int /\ reached >= -1
  BY SetupStays DEF IInv, ControlInv
<1>1. CASE UNCHANGED vars
  <2>1. Claimed' = Claimed
    BY <1>0, <1>1 DEF Claimed, Exactly, vars, sequences
  <2>2. Invariant' = Invariant
    BY <1>0, <1>1 DEF Invariant, Preimage, vars, answer
  <2> QED BY <1>0, <1>1, <2>1, <2>2 DEF Sequence!vars, vars, answer
<1>2. CASE GoesOn
  <2>1. Invariant = invar /\ Invariant' = invar'
    BY <1>2 DEF GoesOn, Invariant
  <2>2. /\ Listed(Claimed') \in Seq(SUBSET Sequence!State)
        /\ Sequence!OverApproximates(sys', Listed(Claimed'))
        /\ Sequence!Avoids(sys', Listed(Claimed'), reached')
    BY <1>2, ClaimedStaysSequence DEF GoesOn, ClaimedOk
  <2> QED BY <1>0, <1>2, <2>1, <2>2 DEF GoesOn, Sequence!Next, Sequence!Advance, Listed
<1>3. CASE FindsCex
  <2>1. Invariant = invar /\ Invariant' = invar'
    BY <1>3 DEF FindsCex, Invariant
  <2>2. Sequence!IsCex(sys, witness', reached'+1)
    BY <1>3, SequenceWords DEF FindsCex
  <2> QED BY <1>0, <1>3, <2>1, <2>2 DEF FindsCex, Sequence!Next, Sequence!Refute
<1>4. CASE Stops
  <2>1. Invariant = invar /\ Invariant' = invar'
    BY <1>4 DEF Stops, Invariant
  <2> QED BY <1>0, <1>4, <2>1 DEF Stops, Sequence!Next, Sequence!GiveUp
<1>5. CASE Proves
  <2>1. Invariant' \in SUBSET State /\ Sequence!Inductive(sys, Invariant')
    BY <1>5, SequenceProves, ForwardProves, BackwardProves, ConvergedProves DEF Proves
  <2>2. verdict = "NONE" /\ verdict' = "TRUE" /\ reached' = reached /\ witness' = witness
    BY <1>5 DEF Proves, Converged, SequenceCloses, ForwardFixedPoint, BackwardFixedPoint, Proof,
                Answer, IInv, ControlInv
  <2> QED BY <1>0, <2>1, <2>2, SequenceWords DEF Sequence!Next, Sequence!Prove
<1> QED BY <1>1, <1>2, <1>3, <1>4, <1>5, StepKinds DEF IInv

(* Whatever interpolants the solver returns and whichever options are      *)
(* given, the three engines keep what ReachSequence promises: their sets   *)
(* over-approximate what is reachable, a bound counts as completed only    *)
(* when no counterexample ends at it, TRUE comes with an inductive         *)
(* invariant and FALSE with a counterexample of reached_k_ + 1 steps.      *)
THEOREM EnginesImplementReachSequence == Spec => ImplementsReachSequence
<1>1. Init => Sequence!Init
  <2> SUFFICES ASSUME Init PROVE Sequence!Init
    OBVIOUS
  <2>1. PICK c \in Cases : sys = c[1] /\ opt = c[2]
    BY DEF Init, InitShared
  <2>2. sys \in Systems /\ sys \in SystemType /\ opt.engine \in {"interp", "ismc", "dar"}
    BY <2>1, CasesAssumption DEF Systems, OptionType
  <2>3. /\ reached = -1 /\ verdict = "NONE" /\ invar = {} /\ witness = <<>>
        /\ reach_seq = [t \in {0} |-> sys.init] /\ forward = [t \in {0} |-> sys.init]
    BY DEF Init, InitShared, InitIsmc, InitDar
  <2>4. Claimed[0] = sys.init /\ DOMAIN Claimed = 0..0
    <3>1. 0..0 = {0}
      OBVIOUS
    <3>2. Exactly(0) = sys.init
      <4>1. sys.init \subseteq State
        BY <2>2 DEF SystemType
      <4>2. \A s : s \in Exactly(0) <=> /\ s \in State
                                        /\ \E p \in [0..0 -> State] : IsRun(sys, p, 0) /\ p[0] = s
        BY DEF Exactly
      <4> QED BY <2>2, <4>1, <4>2, NoStepsIsInit
    <3>3. CASE opt.engine = "interp"
      <4>1. Claimed = [n \in 0..0 |-> Exactly(n)]
        BY <2>3, <3>3 DEF Claimed
      <4> QED BY <3>1, <3>2, <4>1
    <3>4. CASE opt.engine # "interp"
      BY <2>2, <2>3, <3>1, <3>4 DEF Claimed
    <3> QED BY <3>3, <3>4
  <2>5. Listed(Claimed) = <<sys.init>>
    <3>1. Cardinality(0..0) = 1
      <4>1. 0..0 = {0}
        OBVIOUS
      <4> QED BY <4>1, FS_Singleton
    <3>2. Listed(Claimed) = [n \in 1..1 |-> Claimed[n-1]]
      BY <2>4, <3>1 DEF Listed
    <3>3. 1..1 = {1} /\ 1-1 = 0
      OBVIOUS
    <3>4. \A n \in 1..1 : Claimed[n-1] = sys.init
      BY <2>4, <3>3
    <3>5. [n \in 1..1 |-> Claimed[n-1]] = [n \in 1..1 |-> sys.init]
      BY <3>4
    <3>6. <<sys.init>> = [n \in 1..1 |-> sys.init]
      OBVIOUS
    <3> QED BY <3>2, <3>5, <3>6
  <2>6. Invariant = {}
    BY <2>3 DEF Invariant
  <2> QED BY <2>2, <2>3, <2>5, <2>6 DEF Sequence!Init, Listed
<1>2. IInv /\ IInv' /\ [Next]_vars => [Sequence!Next]_Sequence!vars
  BY EnginesRefineStep
<1> QED BY <1>1, <1>2, IInvHolds, PTL DEF Spec, ImplementsReachSequence, Sequence!Spec

----------------------------------------------------------------------------
(* What SafetyProver promises follows: ReachSequence is enough for it.     *)

Answered == IF verdict = "ERROR" THEN "UNKNOWN" ELSE verdict

Contract == INSTANCE ProverContract WITH verdict <- Answered

LEMMA ContractWords ==
  /\ \A sy, p, k : Contract!IsCex(sy, p, k) <=> IsCex(sy, p, k)
  /\ \A sy, k : Contract!HasCex(sy, k) <=> HasCex(sy, k)
  /\ \A sy : Contract!Safe(sy) <=> Safe(sy)
<1>1. Contract!State = State
  BY DEF Contract!State, State
<1>2. \A sy, p, k : Contract!IsCex(sy, p, k) <=> IsCex(sy, p, k)
  BY <1>1 DEF Contract!IsCex, IsCex, Contract!IsRun, IsRun
<1>3. \A sy, k : Contract!HasCex(sy, k) <=> HasCex(sy, k)
  BY <1>1, <1>2 DEF Contract!HasCex, HasCex
<1>4. \A sy : Contract!Safe(sy) <=> Safe(sy)
  BY <1>1 DEF Contract!Safe, Safe, Contract!Reachable, Reachable, Contract!Closed, Closed
<1> QED BY <1>2, <1>3, <1>4

\* Sets that avoid bad up to k leave no counterexample up to k.
LEMMA AvoidingExcludes ==
  ASSUME NEW sy, NEW seq, Len(seq) \in Nat, Sequence!OverApproximates(sy, seq),
         NEW k \in Int, Sequence!Avoids(sy, seq, k), NEW d \in 0..k
  PROVE  ~HasCex(sy, d)
<1>1. d < Len(seq) /\ seq[d+1] \cap sy.bad = {} /\ sy.init \subseteq seq[1]
  BY DEF Sequence!Avoids, Sequence!OverApproximates
<1>2. ASSUME NEW n \in 1..d, NEW p \in sy.trans, p[1] \in seq[n] PROVE p[2] \in seq[n+1]
  <2>1. n \in 1..Len(seq)-1
    BY <1>1
  <2>2. p[2] \in Sequence!ImageOf(sy.trans, seq[n])
    BY <1>2 DEF Sequence!ImageOf
  <2> QED BY <2>1, <2>2 DEF Sequence!OverApproximates
<1> QED BY <1>1, <1>2, SetsExclude

LEMMA InductiveIsSafe ==
  ASSUME NEW sy, NEW S \in SUBSET State, Sequence!Inductive(sy, S) PROVE Safe(sy)
<1>1. ASSUME NEW p \in sy.trans, p[1] \in S PROVE p[2] \in S
  <2>1. p[2] \in Sequence!ImageOf(sy.trans, S)
    BY <1>1 DEF Sequence!ImageOf
  <2> QED BY <2>1 DEF Sequence!Inductive
<1> QED BY <1>1, ClosedIsSafe DEF Sequence!Inductive, Closed

BoundInv == reached \in Int /\ reached >= -1

\* Every step of the sequence is a step of the contract, or none.
LEMMA SequenceStep ==
  ASSUME BoundInv, [Sequence!Next]_Sequence!vars PROVE BoundInv' /\ [Contract!Next]_Contract!vars
<1> USE DEF BoundInv, Answered
<1>0. Sequence!State = State /\ \A sy, p, k : Sequence!IsCex(sy, p, k) <=> Contract!IsCex(sy, p, k)
  BY SequenceWords, ContractWords
<1>1. CASE Sequence!Advance
  <2>1. /\ sys' = sys /\ Answered' = Answered /\ witness' = witness
        /\ Answered = "NONE" /\ reached' \in Int /\ reached' >= reached
        /\ Listed(Claimed)' \in Seq(SUBSET State)
        /\ Sequence!OverApproximates(sys, Listed(Claimed)') /\ Sequence!Avoids(sys, Listed(Claimed)', reached')
    BY <1>0, <1>1 DEF Sequence!Advance, Listed
  <2>2. CASE reached' = reached
    BY <2>1, <2>2 DEF Contract!vars
  <2>3. CASE reached' # reached
    <3>1. reached' \in Nat /\ reached' > reached
      BY <2>1, <2>3
    <3>2. Len(Listed(Claimed)') \in Nat
      BY <2>1
    <3>3. \A d \in (reached+1)..reached' : ~Contract!HasCex(sys, d)
      BY <2>1, <3>1, <3>2, AvoidingExcludes, ContractWords
    <3> QED BY <2>1, <3>1, <3>3 DEF Contract!Next, Contract!Advance
  <2> QED BY <2>2, <2>3
<1>2. CASE Sequence!Prove
  BY <1>0, <1>2, InductiveIsSafe, ContractWords DEF Sequence!Prove, Contract!Next, Contract!Prove
<1>3. CASE Sequence!Refute
  BY <1>0, <1>3 DEF Sequence!Refute, Contract!Next, Contract!Refute
<1>4. CASE Sequence!GiveUp
  BY <1>4 DEF Sequence!GiveUp, Contract!Next, Contract!GiveUp
<1>5. CASE UNCHANGED Sequence!vars
  BY <1>5 DEF Sequence!vars, Contract!vars
<1> QED BY <1>1, <1>2, <1>3, <1>4, <1>5 DEF Sequence!Next

(* Whatever the sets of the sequence are, an engine that implements        *)
(* ReachSequence keeps what SafetyProver promises of bounds and answers.   *)
THEOREM SetsKeepContract == ImplementsReachSequence => Contract!Spec
<1>1. Sequence!Init => BoundInv /\ Contract!Init
  BY DEF Sequence!Init, BoundInv, Contract!Init, Answered
<1> QED BY <1>1, SequenceStep, PTL DEF ImplementsReachSequence, Sequence!Spec, Contract!Spec

(* The interpolation engines implement the contract of SafetyProver, an    *)
(* exception counting as no answer.                                        *)
THEOREM EnginesKeepContract == Spec => Contract!Spec
BY EnginesImplementReachSequence, SetsKeepContract, PTL
=============================================================================
