------------------------------ MODULE IC3Proofs ------------------------------
(***************************************************************************)
(* Theorems about IC3 in all its flavours, whatever the systems, the       *)
(* options, the literals and the choices of the solver.  The inductive     *)
(* invariant IInv says of each frame that it holds what a step leads to    *)
(* from the frame before, of the cube being generalised that no step leads *)
(* into it and that it has no initial state, of a proof goal that bad can  *)
(* be reached along its trace from any of its states, and of the trace in  *)
(* refine that it does so from init.  From it follow the asserts about new *)
(* goals, the soundness of TRUE and FALSE, and the refinement of           *)
(* ReachSequence and so of ProverContract.                                 *)
(*                                                                         *)
(* MBIC3 with the functional preimage and the label of the transition      *)
(* relation in it is left out (Blind): its goals say nothing of the state. *)
(* Clauses of a frame denote sets, so that nothing depends on the literals *)
(* they are made of; frames, traces and stacks of calls are sequences      *)
(* whose elements need no type (IsSeq).                                    *)
(***************************************************************************)
EXTENDS SygusPdr, UnrollingProofs

\* A sequence, of whatever it has.
IsSeq(s) == s \in Seq({s[n] : n \in DOMAIN s})

LEMMA SeqIsSeq ==
  ASSUME NEW S, NEW s \in Seq(S) PROVE IsSeq(s)
BY DEF IsSeq
LEMMA EmptyIsSeq == IsSeq(<<>>) /\ Len(<<>>) = 0
<1>1. <<>> \in Seq({}) /\ Len(<<>>) = 0
  OBVIOUS
<1> QED BY <1>1, SeqIsSeq


\* What the operators on sequences do to such sequences.
LEMMA SeqLen ==
  ASSUME NEW s, IsSeq(s) PROVE Len(s) \in Nat /\ DOMAIN s = 1..Len(s)
BY DEF IsSeq
LEMMA IsSeqAppend ==
  ASSUME NEW s, IsSeq(s), NEW e
  PROVE  /\ IsSeq(Append(s, e)) /\ Len(Append(s, e)) = Len(s) + 1
         /\ Append(s, e)[Len(s) + 1] = e
         /\ \A n \in 1..Len(s) : Append(s, e)[n] = s[n]
<1> DEFINE S == {s[n] : n \in DOMAIN s} \cup {e}
<1>1. s \in Seq(S)
  BY DEF IsSeq
<1> HIDE DEF S
<1>2. e \in S
  BY DEF S
<1>3. Append(s, e) \in Seq(S)
  BY <1>1, <1>2
<1>4. /\ Len(Append(s, e)) = Len(s) + 1 /\ Append(s, e)[Len(s) + 1] = e
      /\ \A n \in 1..Len(s) : Append(s, e)[n] = s[n]
  BY <1>1, <1>2
<1> QED BY <1>3, <1>4, SeqIsSeq
LEMMA IsSeqCons ==
  ASSUME NEW s, IsSeq(s), NEW e
  PROVE  /\ IsSeq(<<e>> \o s) /\ Len(<<e>> \o s) = Len(s) + 1
         /\ (<<e>> \o s)[1] = e
         /\ Head(<<e>> \o s) = e
         /\ \A n \in 1..Len(s) : (<<e>> \o s)[n + 1] = s[n]
<1> DEFINE S == {s[n] : n \in DOMAIN s} \cup {e}
<1>1. s \in Seq(S)
  BY DEF IsSeq
<1> HIDE DEF S
<1>2. e \in S BY DEF S
<1>3. <<e>> \in Seq(S) /\ Len(<<e>>) = 1
  BY <1>2
<1>4. <<e>> \o s \in Seq(S) /\ Len(<<e>> \o s) = Len(s) + 1
  BY <1>1, <1>3
<1>5. (<<e>> \o s)[1] = e
  BY <1>1, <1>3
<1>6. Head(<<e>> \o s) = e
  BY <1>4, <1>5
<1>7. \A n \in 1..Len(s) : (<<e>> \o s)[n + 1] = s[n]
  BY <1>1, <1>3
<1> QED BY <1>4, <1>5, <1>6, <1>7, SeqIsSeq

LEMMA IsSeqTail ==
  ASSUME NEW s, IsSeq(s), s # <<>>
  PROVE  /\ IsSeq(Tail(s)) /\ Len(Tail(s)) = Len(s) - 1 /\ Len(s) >= 1
         /\ Head(s) = s[1]
         /\ \A n \in 1..Len(s)-1 : Tail(s)[n] = s[n + 1]
<1> DEFINE S == {s[n] : n \in DOMAIN s}
<1>1. s \in Seq(S)
  BY DEF IsSeq
<1> HIDE DEF S
<1>2. Tail(s) \in Seq(S) /\ Len(Tail(s)) = Len(s) - 1 /\ Len(s) >= 1 /\ Head(s) = s[1]
  BY <1>1
<1>3. \A n \in 1..Len(s)-1 : Tail(s)[n] = s[n + 1]
  BY <1>1
<1> QED BY <1>2, <1>3, SeqIsSeq

LEMMA IsSeqSub ==
  ASSUME NEW s, IsSeq(s), NEW m \in 1..Len(s)+1
  PROVE  /\ IsSeq(SubSeq(s, m, Len(s)))
         /\ Len(SubSeq(s, m, Len(s))) = Len(s) - m + 1
         /\ \A n \in 1..Len(s)-m+1 : SubSeq(s, m, Len(s))[n] = s[m + n - 1]
<1> DEFINE S == {s[n] : n \in DOMAIN s}
<1>1. s \in Seq(S)
  BY DEF IsSeq
<1> HIDE DEF S
<1>2. SubSeq(s, m, Len(s)) \in Seq(S) /\ Len(SubSeq(s, m, Len(s))) = Len(s) - m + 1
  BY <1>1
<1>3. \A n \in 1..Len(s)-m+1 : SubSeq(s, m, Len(s))[n] = s[m + n - 1]
  BY <1>1
<1> QED BY <1>2, <1>3, SeqIsSeq

----------------------------------------------------------------------------

\* The functional preimage of MBIC3 substitutes in the label of trans.
Blind == opt.engine = "mbic3" /\ opt.pregen /\ opt.preimage

\* Cubes denote sets of states that the abstraction does not tell apart.
Abstract == opt.engine \in {"ic3ia", "ic3sa"}

\* The system and its options are those of a case.
SetupInv == \E c \in Cases : sys = c[1] /\ opt = c[2]

\* Only refinement adds literals, and only IC3IA has a relation of its own.
LitsInv ==
  /\ FirstLiterals \subseteq lits
  /\ ~Abstract => lits = FirstLiterals
  /\ rel = IF opt.engine = "ic3ia" THEN AbstractTrans(lits) ELSE sys.trans

\* The queries of block_all, those of SygusPdr among them.
Searching == {"queue", "generalize", "raise", "predicates", "terms", "may"}

\* What the program counter says of bounds, frames and goals.
ControlInv ==
  /\ pc \in Searching \cup {"loop", "propagate", "refine", "done"}
  /\ (verdict = "NONE" <=> pc # "done")
  /\ verdict \in {"NONE", "TRUE", "FALSE", "UNKNOWN"}
  /\ IsSeq(frames) /\ frontier >= 1
  /\ reached \in Nat \cup {-1}
  /\ reached < 1 => frames = <<{}>> /\ pc \in {"loop", "refine", "done"}
  /\ reached >= 0 => ~Meets(sys.init, sys.bad)
  /\ reached >= 1 /\ pc # "done" => frontier = reached + (IF pc = "propagate" THEN 1 ELSE 0)
  /\ pc = "propagate" => level \in 1..frontier-1 /\ todo \subseteq frames[level]
  /\ goals # {} => pc \in Searching
  /\ opt.engine # "sygus" => calls = <<>> /\ pc \notin {"predicates", "terms", "may"}

\* Each frame holds what a step leads to from the one before.
StepsInv ==
  /\ sys.init \subseteq Frame(1)
  /\ \A n \in 1..frontier : \A p \in rel : p[1] \in Frame(n-1) => p[2] \in Frame(n)

\* Clauses are made of literals of the abstraction.
ClausesInv == Abstract => \A n \in 1..frontier : \A c \in frames[n] : c \subseteq lits
FrameInv == (reached >= 1 => StepsInv) /\ ClausesInv

\* The cube being generalised: no step leads into it from the frame before and it
\* has no initial state, so that its negation can be added to the frames.
GenInv ==
  pc \in {"generalize", "raise"} =>
   /\ level \in 1..frontier
   /\ ~Meets(Denotes(gen), sys.init)
   /\ RelInd(level, gen) = {}
   /\ opt.engine # "sygus" => Denotes(Target(goal)) \subseteq Denotes(gen)
   /\ Abstract => gen \subseteq lits
   /\ calls = <<>> => level >= goal.idx

\* SygusPdr leaves variables without update out of its cubes: a state may have to
\* be exchanged for one with other values of them.
Swap(s, r) == r = s \/ (opt.engine = "sygus" /\ SameOn(Symbols \ sys.free, r, s))

\* From every state of A, so exchanged, a step leads into B.
Steers(A, B) == \A s \in A : \E r \in A : Swap(s, r) /\ \E t \in B : <<r, t>> \in sys.trans

\* A trace can be followed from any state of its first cube.
Leads(C) == \A n \in 1..Len(C)-1 : Steers(Denotes(C[n]), Denotes(C[n+1]))

\* A proof goal: bad can be reached along its trace, within no less steps than the
\* frames exclude.
IsGoal(g) ==
  /\ g = [idx |-> g.idx, trace |-> g.trace]
  /\ IsSeq(g.trace) /\ Len(g.trace) >= 1
  /\ g.idx \in 0..frontier
  /\ Len(g.trace) + g.idx >= frontier + 1
  /\ Abstract => Target(g) \subseteq lits
  /\ ~Abstract => Leads(Append(g.trace, {sys.bad}))

\* A cube that the search takes for initial; for IC3IA all its states are.
Starts(c) == Meets(Denotes(c), sys.init) /\ (opt.engine = "ic3ia" => Denotes(c) \subseteq sys.init)

\* The assert after rel_ind_check.
Fresh(g) == ~Meets(Denotes(Target(g)), Frame(g.idx - 1))

\* A goal in the queue.
Queued(g) ==
  IsGoal(g) /\ IF g.idx = 0 THEN Starts(Target(g)) ELSE (opt.engine # "sygus" => Fresh(g))
GoalInv ==
  /\ \A g \in goals : Queued(g)
  /\ pc \in Searching \ {"queue"} => IsGoal(goal) /\ goal.idx >= 1

\* A call of SygusPdr's inductive_generalization.
IsCall(c) ==
  /\ c = [idx |-> c.idx, post |-> c.post, may |-> c.may, size |-> c.size, from |-> c.from]
  /\ c.idx \in 1..frontier
  /\ IsSeq(c.may) /\ \A n \in 1..Len(c.may) : c.may[n].idx \in 0..frontier
CallsInv ==
  /\ IsSeq(calls)
  /\ \A n \in 1..Len(calls) : IsCall(calls[n])
  /\ calls # <<>> => pc \in {"predicates", "terms", "may", "raise"} /\ calls[Len(calls)].idx = goal.idx
  /\ pc \in {"predicates", "terms", "may"} => calls # <<>>

\* The trace that refine is given, and the one of an answer of FALSE.
CexInv ==
  pc = "refine" \/ verdict = "FALSE" =>
   /\ IsSeq(cex) /\ Len(cex) >= 1
   /\ cex[Len(cex)] = {sys.bad}
   /\ Len(cex) - 2 >= reached
   /\ IF Len(cex) = 1 THEN Meets(sys.init, sys.bad) ELSE Starts(cex[1])
   /\ ~Abstract => Leads(cex)

\* The invariant that comes with TRUE.
AnswerInv == verdict = "TRUE" => Frames!Inductive(sys, invar)

----------------------------------------------------------------------------
(* Frames.                                                                 *)

LEMMA DenotesShrinks ==
  ASSUME NEW c, NEW d, c \subseteq d
  PROVE  Denotes(d) \subseteq Denotes(c)
BY DEF Denotes

LEMMA FrameGrows ==
  ASSUME IsSeq(frames), StepsInv, NEW n \in 0..frontier, NEW m \in n..frontier
  PROVE  Frame(n) \subseteq Frame(m)
<1>1. frontier \in Nat
  BY SeqLen DEF frontier
<1>2. ASSUME NEW k \in 1..m PROVE Frame(k) \subseteq Frame(m)
  <2>1. m..frontier \subseteq k..frontier /\ k # 0 /\ m # 0
    BY <1>1
  <2> QED BY <2>1 DEF Frame
<1>3. CASE n = 0 /\ m = 0
  BY <1>3
<1>4. CASE n = 0 /\ m # 0
  <2>1. Frame(0) \subseteq Frame(1)
    BY DEF StepsInv, Frame
  <2>2. 1 \in 1..m
    BY <1>1, <1>4
  <2> QED BY <1>2, <1>4, <2>1, <2>2
<1>5. CASE n # 0
  BY <1>1, <1>2, <1>5
<1> QED BY <1>3, <1>4, <1>5

LEMMA LabelsAreFrames ==
  ASSUME StepsInv, NEW n PROVE Labels(n) = Frame(n)
BY DEF StepsInv, Labels, Frame

\* A set left out of the frames up to L.
LeavesOut(X, L) ==
  /\ sys' = sys /\ rel' = rel /\ frontier' = frontier
  /\ \A k \in 1..frontier : (Frame(k))' = IF k <= L THEN Frame(k) \ X ELSE Frame(k)

LEMMA Strengthened ==
  ASSUME IsSeq(frames), StepsInv, NEW X, NEW L \in 1..frontier, LeavesOut(X, L),
         ~Meets(X, sys.init),
         \A p \in rel : p[1] \in Frame(L-1) \ X => p[2] \notin X
  PROVE  StepsInv'
<1>1. frontier \in Nat
  BY SeqLen DEF frontier
<1>2. sys'.init \subseteq (Frame(1))'
  <2>1. (Frame(1))' = Frame(1) \ X
    BY <1>1 DEF LeavesOut
  <2> QED BY <2>1 DEF LeavesOut, StepsInv, Meets
<1>3. (Frame(0))' = Frame(0)
  BY DEF Frame, LeavesOut
<1>4. ASSUME NEW n \in 1..frontier, NEW p \in rel, p[1] \in (Frame(n-1))'
      PROVE  p[2] \in (Frame(n))'
  <2>1. (Frame(n-1))' \subseteq Frame(n-1)
    <3>1. CASE n = 1
      BY <3>1, <1>3
    <3>2. CASE n # 1
      <4>1. n - 1 \in 1..frontier
        BY <1>1, <3>2
      <4> QED BY <4>1 DEF LeavesOut
    <3> QED BY <3>1, <3>2
  <2>2. p[2] \in Frame(n)
    BY <1>4, <2>1 DEF StepsInv
  <2>3. CASE n > L
    <3>1. (Frame(n))' = Frame(n)
      BY <2>3, <1>1 DEF LeavesOut
    <3> QED BY <2>2, <3>1
  <2>4. CASE n <= L
    <3>1. (Frame(n))' = Frame(n) \ X
      BY <2>4, <1>1 DEF LeavesOut
    <3>2. p[1] \notin X
      <4>1. CASE n = 1
        BY <4>1, <1>3, <1>4 DEF Frame, Meets
      <4>2. CASE n # 1
        <5>1. n - 1 \in 1..frontier /\ n - 1 <= L
          BY <1>1, <2>4, <4>2
        <5>2. (Frame(n-1))' = Frame(n-1) \ X
          BY <5>1 DEF LeavesOut
        <5> QED BY <1>4, <5>2
      <4> QED BY <4>1, <4>2
    <3>3. p[1] \in Frame(L-1)
      <4>1. n - 1 \in 0..frontier /\ L - 1 \in n-1..frontier
        BY <1>1, <2>4
      <4> QED BY <1>4, <2>1, <4>1, FrameGrows
    <3> QED BY <2>2, <3>1, <3>2, <3>3
  <2> QED BY <1>1, <2>3, <2>4
<1>5. rel' = rel /\ frontier' = frontier
  BY DEF LeavesOut
<1> QED BY <1>2, <1>4, <1>5 DEF StepsInv

LEMMA FunctionIsSeq ==
  ASSUME NEW N \in Nat, NEW f, f = [m \in 1..N |-> f[m]]
  PROVE  IsSeq(f) /\ Len(f) = N
<1> DEFINE S == {f[m] : m \in 1..N}
<1>1. \A m \in 1..N : f[m] \in S
  OBVIOUS
<1> HIDE DEF S
<1>2. f \in Seq(S) /\ Len(f) = N
  BY <1>1
<1> QED BY <1>2, SeqIsSeq

LEMMA ConstrainLeavesOut ==
  ASSUME IsSeq(frames), NEW n \in 1..frontier, NEW c, frames' = Constrain(n, c),
         sys' = sys, rel' = rel
  PROVE  /\ IsSeq(frames') /\ LeavesOut(Denotes(c), n)
         /\ \A m \in 1..frontier : \A d \in frames'[m] : d \in frames[m] \/ d = c
<1>1. frontier \in Nat /\ DOMAIN frames = 1..frontier
  BY SeqLen DEF frontier
<1>2. \A m \in 1..frontier :
        frames'[m] = IF m > n THEN frames[m]
                     ELSE {d \in frames[m] : ~(c \subseteq d)} \cup (IF m = n THEN {c} ELSE {})
  BY <1>1 DEF Constrain
<1>3. IsSeq(frames') /\ frontier' = frontier
  <2>1. frames' = [m \in 1..frontier |-> frames'[m]]
    BY <1>1 DEF Constrain
  <2> QED BY <1>1, <2>1, FunctionIsSeq DEF frontier
<1>4. \A d : c \subseteq d => Denotes(d) \subseteq Denotes(c)
  BY DenotesShrinks
<1>5. ASSUME NEW k \in 1..frontier
      PROVE  (Frame(k))' = IF k <= n THEN Frame(k) \ Denotes(c) ELSE Frame(k)
  <2>1. (Frame(k))' = {s \in State \ sys.bad :
           \A m \in k..frontier : \A d \in frames'[m] : s \notin Denotes(d)}
    BY <1>1, <1>3 DEF Frame
  <2>2. Frame(k) = {s \in State \ sys.bad :
           \A m \in k..frontier : \A d \in frames[m] : s \notin Denotes(d)}
    BY <1>1 DEF Frame
  <2>3. \A m \in k..frontier : m \in 1..frontier
    BY <1>1
  <2>4. CASE k > n
    <3>1. ASSUME NEW m \in k..frontier PROVE frames'[m] = frames[m]
      <4>1. m \in 1..frontier /\ m > n
        BY <1>1, <2>4
      <4> QED BY <4>1, <1>2
    <3>2. (Frame(k))' = Frame(k)
      BY <2>1, <2>2, <3>1
    <3> QED BY <1>1, <2>4, <3>2
  <2>5. CASE k <= n
    <3>1. n \in k..frontier /\ c \in frames'[n]
      <4>1. n \in k..frontier /\ ~(n > n)
        BY <1>1, <2>5
      <4> QED BY <4>1, <1>2
    <3>2. \A m \in k..frontier : \A d \in frames'[m] : d \in frames[m] \/ d = c
      BY <1>2, <2>3
    <3>3. \A m \in k..frontier : \A d \in frames[m] : d \in frames'[m] \/ c \subseteq d
      BY <1>2, <2>3
    <3>4. (Frame(k))' \subseteq Frame(k) \ Denotes(c)
      BY <2>1, <2>2, <3>1, <3>3, <1>4
    <3>5. Frame(k) \ Denotes(c) \subseteq (Frame(k))'
      BY <2>1, <2>2, <3>2
    <3> QED BY <2>5, <3>4, <3>5
  <2> QED BY <1>1, <2>4, <2>5
<1> QED BY <1>2, <1>3, <1>5 DEF LeavesOut

LEMMA MovedLeavesOut ==
  ASSUME IsSeq(frames), NEW n \in 1..frontier-1, NEW c \in frames[n], NEW G, G \subseteq c,
         frames' = [frames EXCEPT ![n] = @ \ {c}, ![n+1] = @ \cup {G}],
         sys' = sys, rel' = rel
  PROVE  /\ IsSeq(frames') /\ LeavesOut(Denotes(G), n + 1)
         /\ frames'[n] = frames[n] \ {c}
         /\ \A m \in 1..frontier : \A d \in frames'[m] : d \in frames[m] \/ d = G
<1>1. frontier \in Nat /\ DOMAIN frames = 1..frontier /\ n + 1 \in 1..frontier /\ n \in 1..frontier
      /\ n + 1 # n
  BY SeqLen DEF frontier
<1>2. /\ DOMAIN frames' = 1..frontier
      /\ \A m \in 1..frontier :
        frames'[m] = IF m = n THEN frames[m] \ {c} ELSE IF m = n + 1 THEN frames[m] \cup {G} ELSE frames[m]
  BY <1>1
<1>3. IsSeq(frames') /\ frontier' = frontier
  <2>1. frames' = [m \in 1..frontier |-> frames'[m]]
    BY <1>1, <1>2
  <2> QED BY <1>1, <2>1, FunctionIsSeq DEF frontier
<1>4. Denotes(c) \subseteq Denotes(G)
  BY DenotesShrinks
<1>5. ASSUME NEW k \in 1..frontier
      PROVE  (Frame(k))' = IF k <= n + 1 THEN Frame(k) \ Denotes(G) ELSE Frame(k)
  <2>1. (Frame(k))' = {s \in State \ sys.bad :
           \A m \in k..frontier : \A d \in frames'[m] : s \notin Denotes(d)}
    BY <1>1, <1>3 DEF Frame
  <2>2. Frame(k) = {s \in State \ sys.bad :
           \A m \in k..frontier : \A d \in frames[m] : s \notin Denotes(d)}
    BY <1>1 DEF Frame
  <2>3. \A m \in k..frontier : m \in 1..frontier
    BY <1>1
  <2>4. CASE k > n + 1
    <3>1. ASSUME NEW m \in k..frontier PROVE frames'[m] = frames[m]
      <4>1. m \in 1..frontier /\ m # n /\ m # n + 1
        BY <1>1, <2>4
      <4> QED BY <4>1, <1>2
    <3>2. (Frame(k))' = Frame(k)
      BY <2>1, <2>2, <3>1
    <3> QED BY <1>1, <2>4, <3>2
  <2>5. CASE k <= n + 1
    <3>1. n + 1 \in k..frontier /\ G \in frames'[n + 1]
      BY <1>1, <1>2, <2>5
    <3>2. \A m \in k..frontier : \A d \in frames'[m] : d \in frames[m] \/ d = G
      BY <1>2, <2>3
    <3>3. \A m \in k..frontier : \A d \in frames[m] : d \in frames'[m] \/ d = c
      BY <1>2, <2>3
    <3>4. (Frame(k))' \subseteq Frame(k) \ Denotes(G)
      BY <2>1, <2>2, <3>1, <3>3, <1>4
    <3>5. Frame(k) \ Denotes(G) \subseteq (Frame(k))'
      BY <2>1, <2>2, <3>2
    <3> QED BY <2>5, <3>4, <3>5
  <2> QED BY <1>1, <2>4, <2>5
<1> QED BY <1>1, <1>2, <1>3, <1>5 DEF LeavesOut

LEMMA FramesGrowEmpty ==
  ASSUME IsSeq(frames), frames' = Append(frames, {}), sys' = sys
  PROVE  /\ IsSeq(frames') /\ frontier' = frontier + 1
         /\ \A k \in 1..frontier : (Frame(k))' = Frame(k)
         /\ \A k \in Nat : k = frontier + 1 => (Frame(k))' = State \ sys.bad
         /\ frames'[frontier + 1] = {} /\ \A k \in 1..frontier : frames'[k] = frames[k]
<1>1. frontier \in Nat
  BY SeqLen DEF frontier
<1>2. /\ IsSeq(frames') /\ frontier' = frontier + 1
      /\ frames'[frontier + 1] = {} /\ \A k \in 1..frontier : frames'[k] = frames[k]
  BY IsSeqAppend DEF frontier
<1>3. ASSUME NEW k \in 1..frontier PROVE (Frame(k))' = Frame(k)
  <2>1. \A m \in k..frontier + 1 : m = frontier + 1 \/ (m \in k..frontier /\ m \in 1..frontier)
    BY <1>1
  <2>2. (Frame(k))' = {s \in State \ sys.bad :
           \A m \in k..frontier + 1 : \A d \in frames'[m] : s \notin Denotes(d)}
    <3>1. k # 0
      BY <1>1
    <3> QED BY <1>2, <3>1 DEF Frame
  <2>3. Frame(k) = {s \in State \ sys.bad :
           \A m \in k..frontier : \A d \in frames[m] : s \notin Denotes(d)}
    BY <1>1 DEF Frame
  <2>4. \A m \in k..frontier : m \in k..frontier + 1 /\ m \in 1..frontier
    BY <1>1
  <2> QED BY <1>2, <2>1, <2>2, <2>3, <2>4
<1>4. ASSUME NEW k \in Nat, k = frontier + 1 PROVE (Frame(k))' = State \ sys.bad
  <2>1. k # 0 /\ \A m \in k..k : m = k
    BY <1>1, <1>4
  <2>2. (Frame(k))' = {s \in State \ sys.bad : \A m \in k..k : \A d \in frames'[m] : s \notin Denotes(d)}
    BY <1>2, <1>4, <2>1 DEF Frame
  <2> QED BY <1>2, <1>4, <2>1, <2>2
<1> QED BY <1>2, <1>3, <1>4

----------------------------------------------------------------------------
(* Relative induction.                                                     *)

Keeps(n, S) == \A p \in rel : p[1] \in Frame(n-1) \ S => p[2] \notin S

LEMMA RelIndIsKept ==
  ASSUME StepsInv, NEW n, NEW c
  PROVE  RelInd(n, c) = {} <=> Keeps(n, Denotes(c))
<1>1. Labels(n-1) = Frame(n-1)
  BY LabelsAreFrames
<1> QED BY <1>1 DEF RelInd, Keeps

LEMMA CoresKeep ==
  ASSUME StepsInv, NEW n, NEW c, RelInd(n, c) = {}, NEW G \in Cores(n, c),
         opt.core \/ ~Meets(Denotes(c), sys.init)
  PROVE  /\ G \subseteq c /\ Denotes(c) \subseteq Denotes(G)
         /\ ~Meets(Denotes(G), sys.init) /\ RelInd(n, G) = {}
<1>1. CASE ~opt.core
  BY <1>1 DEF Cores
<1>2. CASE opt.core
  <2> DEFINE into == {p[2] : p \in {q \in rel : q[1] \in Labels(n-1) \ Denotes(c)}}
  <2>1. G \subseteq c /\ ~Meets(Denotes(G), into \cup sys.init)
    BY <1>2 DEF Cores
  <2>2. Denotes(c) \subseteq Denotes(G)
    BY <2>1, DenotesShrinks
  <2>3. ASSUME NEW p \in RelInd(n, G) PROVE FALSE
    <3>1. p \in rel /\ p[1] \in Labels(n-1) \ Denotes(G) /\ p[2] \in Denotes(G)
      BY DEF RelInd
    <3>2. p[2] \in into
      BY <2>2, <3>1
    <3> QED BY <2>1, <3>1, <3>2 DEF Meets
  <2>4. ~Meets(Denotes(G), sys.init)
    BY <2>1 DEF Meets
  <2> QED BY <2>1, <2>2, <2>3, <2>4
<1> QED BY <1>1, <1>2

----------------------------------------------------------------------------
(* Systems, options and literals.                                          *)

LEMMA SetupFacts ==
  ASSUME SetupInv
  PROVE  /\ sys \in Systems /\ opt \in OptionType
         /\ sys.init \subseteq State /\ sys.bad \subseteq State
         /\ sys.trans \subseteq State \X State /\ sys.trans = UNION sys.moves
         /\ sys.deterministic => \A m \in sys.moves, t \in State : \E u \in State : <<t, u>> \in m
<1>1. PICK c \in Cases : sys = c[1] /\ opt = c[2]
  BY DEF SetupInv
<1>2. sys \in Systems
  BY <1>1 DEF Systems
<1>3. opt \in OptionType
  BY <1>1, OptionsAssumption
<1>4. /\ {sys.init, sys.bad} \cup sys.atoms \subseteq SUBSET State
      /\ sys.moves \subseteq SUBSET (State \X State) /\ sys.trans = UNION sys.moves
      /\ sys.deterministic => \A m \in sys.moves, t \in State : \E u \in State : <<t, u>> \in m
  BY <1>2, SystemsAssumption
<1>5. sys.init \subseteq State /\ sys.bad \subseteq State
  BY <1>4
<1>6. sys.trans \subseteq State \X State
  BY <1>4
<1> QED BY <1>2, <1>3, <1>4, <1>5, <1>6

LEMMA OptionFacts ==
  ASSUME SetupInv
  PROVE  /\ opt.engine \in {"ic3", "mbic3", "ic3ia", "ic3sa", "sygus"}
         /\ opt.engine = "ic3ia" => ~opt.pregen
         /\ opt.engine # "mbic3" => opt.mode = 0
         /\ opt.engine \in {"ic3sa", "sygus"} => Functional(sys)
         /\ opt.engine = "ic3sa" => /\ opt.initial \in 2..4
                                    /\ DecidedByPart(sys, "init", sys.init)
                                    /\ DecidedByPart(sys, "bad", sys.bad)
         /\ opt.engine = "sygus" => InitIsClosed(sys) /\ opt.pregen
<1>1. PICK c \in Cases : sys = c[1] /\ opt = c[2]
  BY DEF SetupInv
<1>2. opt \in OptionType
  BY SetupFacts
<1>3. opt.engine \in {"ic3", "mbic3", "ic3ia", "ic3sa", "sygus"} /\ opt.initial \in 0..4
  BY <1>2 DEF OptionType
<1>4. /\ opt.engine = "ic3ia" => ~opt.pregen
      /\ opt.engine # "mbic3" => opt.mode = 0
      /\ opt.engine = "ic3sa" => /\ Functional(sys) /\ opt.initial >= 2
                                 /\ DecidedByPart(sys, "init", sys.init)
                                 /\ DecidedByPart(sys, "bad", sys.bad)
      /\ opt.engine = "sygus" => Functional(sys) /\ InitIsClosed(sys) /\ opt.pregen
  BY <1>1, OptionsAssumption
<1> QED BY <1>3, <1>4

LEMMA SignedGrows ==
  ASSUME NEW A, NEW B, A \subseteq B
  PROVE  /\ Signed(A) \subseteq Signed(B) /\ NoValues(A) \subseteq NoValues(B)
         /\ Partition(A) \subseteq Partition(B)
<1>1. \A P, Q : P \subseteq Q => Signed(P) \subseteq Signed(Q) /\ NoValues(P) \subseteq NoValues(Q)
  BY DEF Signed, NoValues
<1> DEFINE Eqs(T) == UNION {{{s \in State : a.val[s] = b.val[s]} : b \in {c \in T : c.sort = a.sort}} : a \in T}
<1>2. Eqs(A) \subseteq Eqs(B)
  OBVIOUS
<1>3. Partition(A) = NoValues(Signed(Eqs(A))) /\ Partition(B) = NoValues(Signed(Eqs(B)))
  BY DEF Partition
<1> HIDE DEF Eqs
<1>4. Partition(A) \subseteq Partition(B)
  BY <1>1, <1>2, <1>3
<1> QED BY <1>1, <1>4

LEMMA PartIsMined ==
  ASSUME opt.engine = "ic3sa", opt.initial \in 2..4, NEW p \in {"init", "bad"}
  PROVE  NoValues(Signed(sys.parts[p].preds)) \cup Partition(sys.parts[p].terms) \subseteq FirstLiterals
<1>1. p \in Mined
  BY DEF Mined
<1>2. sys.parts[p].preds \subseteq FirstPredicates /\ sys.parts[p].terms \subseteq FirstTerms
  BY <1>1 DEF FirstPredicates, FirstTerms
<1>3. FirstLiterals = NoValues(Signed(FirstPredicates)) \cup Partition(FirstTerms)
  BY DEF FirstLiterals
<1>4. Signed(sys.parts[p].preds) \subseteq Signed(FirstPredicates)
  BY <1>2, SignedGrows
<1>5. NoValues(Signed(sys.parts[p].preds)) \subseteq NoValues(Signed(FirstPredicates))
  BY <1>4, SignedGrows
<1>6. Partition(sys.parts[p].terms) \subseteq Partition(FirstTerms)
  BY <1>2, SignedGrows
<1> QED BY <1>3, <1>5, <1>6

\* What the cube of a model leaves open: nothing for the concrete engines, and
\* nothing init and bad depend on for the others.
LEMMA CubeDecides ==
  ASSUME SetupInv, LitsInv, opt.engine # "sygus", NEW s \in State, NEW r \in Denotes(Cube(s))
  PROVE  /\ ~Abstract => r = s
         /\ r \in State
         /\ (s \in sys.init <=> r \in sys.init) /\ (s \in sys.bad <=> r \in sys.bad)
<1>1. r \in State /\ \A l \in lits : s \in l => r \in l
  BY DEF Denotes, Cube
<1>2. sys.init \subseteq State /\ sys.bad \subseteq State
  BY SetupFacts
<1>3. CASE opt.engine = "ic3"
  <2>1. lits = Signed(Bits)
    BY <1>3 DEF LitsInv, Abstract, FirstLiterals
  <2> QED BY <1>1, <2>1, LiteralsAssumption
<1>4. CASE opt.engine = "mbic3"
  <2>1. lits = Equalities
    BY <1>4 DEF LitsInv, Abstract, FirstLiterals
  <2> QED BY <1>1, <2>1, LiteralsAssumption
<1>5. CASE opt.engine = "ic3ia"
  <2>1. Signed({sys.init, sys.bad}) \subseteq lits
    BY <1>5 DEF LitsInv, FirstLiterals
  <2>2. {sys.init, sys.bad, Negated(sys.init), Negated(sys.bad)} \subseteq lits
    BY <2>1 DEF Signed
  <2> QED BY <1>1, <1>2, <1>5, <2>2 DEF Negated, Abstract
<1>6. CASE opt.engine = "ic3sa"
  <2>1. /\ opt.initial \in 2..4
        /\ DecidedByPart(sys, "init", sys.init) /\ DecidedByPart(sys, "bad", sys.bad)
    BY <1>6, OptionFacts
  <2>2. \A p \in {"init", "bad"} :
          NoValues(Signed(sys.parts[p].preds)) \cup Partition(sys.parts[p].terms) \subseteq lits
    BY <1>6, <2>1, PartIsMined DEF LitsInv
  <2>3. s \in sys.init <=> r \in sys.init
    BY <1>1, <2>1, <2>2 DEF DecidedByPart, DecidedBy
  <2>4. s \in sys.bad <=> r \in sys.bad
    BY <1>1, <2>1, <2>2 DEF DecidedByPart, DecidedBy
  <2> QED BY <1>1, <1>6, <2>3, <2>4 DEF Abstract
<1> QED BY <1>3, <1>4, <1>5, <1>6, OptionFacts

LEMMA CubeHoldsModel ==
  ASSUME NEW s \in State PROVE s \in Denotes(Cube(s)) /\ Cube(s) \subseteq lits
BY DEF Denotes, Cube

\* No frame tells a state of the cube from the model.
LEMMA CubeStaysOutside ==
  ASSUME SetupInv, LitsInv, ClausesInv, IsSeq(frames), opt.engine # "sygus",
         NEW s \in State, NEW r \in Denotes(Cube(s)), NEW n \in 0..frontier, r \in Frame(n)
  PROVE  s \in Frame(n)
<1>1. frontier \in Nat
  BY SeqLen DEF frontier
<1>2. /\ ~Abstract => r = s
      /\ (s \in sys.init <=> r \in sys.init) /\ (s \in sys.bad <=> r \in sys.bad)
  BY CubeDecides
<1>3. CASE ~Abstract
  BY <1>2, <1>3
<1>4. CASE Abstract /\ n = 0
  BY <1>2, <1>4 DEF Frame
<1>5. CASE Abstract /\ n # 0
  <2>1. r \notin sys.bad /\ \A m \in n..frontier : \A c \in frames[m] : r \notin Denotes(c)
    BY <1>5 DEF Frame
  <2>2. ASSUME NEW m \in n..frontier, NEW c \in frames[m], s \in Denotes(c) PROVE FALSE
    <3>1. c \subseteq lits
      <4>1. m \in 1..frontier
        BY <1>1, <1>5
      <4> QED BY <4>1, <1>5 DEF ClausesInv
    <3>2. c \subseteq Cube(s)
      BY <2>2, <3>1 DEF Denotes, Cube
    <3>3. r \in Denotes(c)
      BY <3>2, DenotesShrinks
    <3> QED BY <2>1, <3>3
  <2> QED BY <1>2, <1>5, <2>1, <2>2 DEF Frame
<1> QED BY <1>3, <1>4, <1>5

----------------------------------------------------------------------------
(* The predecessors that become goals.                                     *)

LEMMA MovesFacts ==
  ASSUME SetupInv, LitsInv, NEW m \in Moves
  PROVE  /\ m \subseteq State \X State
         /\ rel \subseteq State \X State /\ sys.trans \subseteq rel
         /\ ~Abstract => rel = sys.trans /\ m \subseteq sys.trans
<1>1. sys.trans \subseteq State \X State /\ sys.trans = UNION sys.moves
  BY SetupFacts
<1>2. CASE opt.engine = "ic3ia"
  <2>1. rel = AbstractTrans(lits) /\ m = rel
    BY <1>2 DEF LitsInv, Moves
  <2>2. rel \subseteq State \X State
    <3> SUFFICES ASSUME NEW q \in rel PROVE q \in State \X State
      OBVIOUS
    <3>1. PICK p \in sys.trans : q \in {p[1]} \X {u \in State : \A l \in lits : u \in l <=> p[2] \in l}
      BY <2>1 DEF AbstractTrans
    <3>2. p[1] \in State
      BY <1>1
    <3> QED BY <3>1, <3>2
  <2>3. sys.trans \subseteq rel
    <3> SUFFICES ASSUME NEW q \in sys.trans PROVE q \in rel
      OBVIOUS
    <3>1. q = <<q[1], q[2]>> /\ q[2] \in State
      BY <1>1
    <3>2. q[2] \in {u \in State : \A l \in lits : u \in l <=> q[2] \in l}
      BY <3>1
    <3>3. q \in {q[1]} \X {u \in State : \A l \in lits : u \in l <=> q[2] \in l}
      BY <3>1, <3>2
    <3> QED BY <2>1, <3>3 DEF AbstractTrans
  <2> QED BY <1>2, <2>1, <2>2, <2>3 DEF Abstract
<1>3. CASE opt.engine # "ic3ia"
  <2>1. rel = sys.trans
    BY <1>3 DEF LitsInv
  <2>2. m \subseteq sys.trans
    BY <1>1, <2>1 DEF Moves
  <2> QED BY <1>1, <2>1, <2>2
<1> QED BY <1>2, <1>3

\* Without abstraction and without dropping variables every state of the
\* predecessor leads to the goal.
LEMMA PredecessorLeads ==
  ASSUME SetupInv, LitsInv, ~Blind, opt.engine \in {"ic3", "mbic3"},
         NEW n, NEW C, NEW m \in Moves, NEW p \in m, p[2] \in C,
         NEW c \in Predecessors(n, C, m, p[1], p[2]), NEW u \in Denotes(c)
  PROVE  \E v \in C : <<u, v>> \in sys.trans
<1>1. p \in State \X State /\ m \subseteq sys.trans
  BY MovesFacts DEF Abstract
<1>2. p = <<p[1], p[2]>> /\ p[1] \in State /\ p[2] \in State
  BY <1>1
<1>3. u \in State
  BY DEF Denotes
<1>4. CASE c = Cube(p[1])
  <2>1. u = p[1]
    BY <1>2, <1>4, CubeDecides DEF Abstract
  <2> QED BY <1>1, <1>2, <2>1
<1>5. CASE Denotes(c) \subseteq AlsoPredecessor(n, C, m, p[2]) /\ opt.engine \in {"ic3", "mbic3"}
  <2>1. u \in AlsoPredecessor(n, C, m, p[2])
    BY <1>5
  <2>2. CASE sys.deterministic
    <3>1. m \in sys.moves
      BY DEF Moves
    <3>2. PICK v \in State : <<u, v>> \in m
      BY <1>3, <2>2, <3>1, SetupFacts
    <3>3. v \in C
      BY <2>1, <2>2, <3>2 DEF AlsoPredecessor
    <3> QED BY <1>1, <3>2, <3>3
  <2>3. CASE ~sys.deterministic
    <3>1. <<u, p[2]>> \in m
      BY <2>1, <2>3 DEF AlsoPredecessor
    <3> QED BY <1>1, <3>1
  <2> QED BY <2>2, <2>3
<1> QED BY <1>4, <1>5 DEF Predecessors, Blind

\* Variables without update may take any next value.
LEMMA FreeNext ==
  ASSUME SetupInv, opt.engine \in {"ic3sa", "sygus"},
         NEW s \in State, NEW t \in State, NEW u \in State, <<s, t>> \in sys.trans,
         SameOn(Symbols \ sys.free, t, u)
  PROVE  <<s, u>> \in sys.trans
<1>1. Functional(sys)
  BY OptionFacts
<1>2. PICK v \in State : <<s, v>> \in sys.trans /\ SameOn(sys.free, v, u)
  BY <1>1 DEF Functional
<1>3. SameOn(Symbols \ sys.free, t, v)
  <2> DEFINE p == <<s, t>>
             q == <<s, v>>
  <2>1. p[1] = q[1] /\ p[2] = t /\ q[2] = v
    OBVIOUS
  <2>2. p \in sys.trans /\ q \in sys.trans
    BY <1>2
  <2> HIDE DEF p, q
  <2> QED BY <1>1, <2>1, <2>2 DEF Functional
<1>4. SameOn(Symbols, v, u)
  BY <1>2, <1>3 DEF SameOn
<1> QED BY <1>2, <1>4, SymbolsAssumption

LEMMA PartialModelSteers ==
  ASSUME SetupInv, opt.engine = "sygus",
         NEW R, NEW C, NEW s \in State, NEW t, NEW c \in PartialModels(R, sys.free, C, s, t),
         R = sys.trans
  PROVE  /\ s \in c /\ c \subseteq State
         /\ Steers(c, C)
<1>1. PICK W \in Leading(R, sys.free, C, s, t) : c = AsIn(W \ sys.free, s)
  BY DEF PartialModels
<1>2. s \in c /\ c \subseteq State
  BY <1>1 DEF AsIn, SameOn
<1>3. sys.free \subseteq Symbols /\ W \subseteq Symbols
  BY OptionFacts DEF Functional, Leading
<1>4. ASSUME NEW r \in c
      PROVE  \E q \in c : Swap(r, q) /\ \E u \in C : <<q, u>> \in sys.trans
  <2>1. r \in State
    BY <1>2
  <2>2. PICK q \in State : SameOn(sys.free, q, s) /\ SameOn(Symbols \ sys.free, q, r)
    BY <1>3, <2>1, SymbolsAssumption
  <2>3. SameOn(W \ sys.free, r, s)
    BY <1>1 DEF AsIn
  <2>4. SameOn(W \ sys.free, q, s)
    BY <1>3, <2>2, <2>3 DEF SameOn
  <2>5. SameOn(W, q, s)
    BY <1>3, <2>2, <2>4 DEF SameOn
  <2>6. q \in c
    BY <1>1, <2>4 DEF AsIn
  <2>7. \E u \in C : <<q, u>> \in sys.trans
    BY <2>5 DEF Leading
  <2> QED BY <2>2, <2>6, <2>7 DEF Swap
<1> QED BY <1>2, <1>4 DEF Steers

LEMMA DenotesSet == ASSUME NEW S, S \subseteq State PROVE Denotes({S}) = S
BY DEF Denotes

\* What a goal's predecessor is, in the frame below n.
LEMMA PredecessorFacts ==
  ASSUME SetupInv, LitsInv, ClausesInv, StepsInv, IsSeq(frames), ~Blind,
         NEW n \in 1..frontier+1, NEW C, NEW m \in Moves, NEW p \in m,
         p[1] \in Labels(n-1), p[2] \in C, n > 1 => C \cap Frame(n-1) = {} \/ opt.engine = "sygus",
         NEW c \in Predecessors(n, C, m, p[1], p[2])
  PROVE  /\ n = 1 => Starts(c)
         /\ n > 1 /\ opt.engine # "sygus" => ~Meets(Denotes(c), Frame(n-2))
         /\ Abstract => c \subseteq lits
         /\ ~Abstract => Steers(Denotes(c), C)
<1>1. frontier \in Nat
  BY SeqLen DEF frontier
<1>2. p[1] \in State /\ p[2] \in State /\ p = <<p[1], p[2]>> /\ m \subseteq State \X State
  BY MovesFacts
<1>3. p[1] \in Frame(n-1)
  BY LabelsAreFrames
<1>4. p[1] \in Denotes(Cube(p[1])) /\ Cube(p[1]) \subseteq lits
  BY <1>2, CubeHoldsModel
<1>5. p \in rel
  <2>1. sys.moves \subseteq SUBSET sys.trans /\ sys.trans \subseteq rel
    BY SetupFacts, MovesFacts
  <2> QED BY <2>1 DEF Moves
<1>6. ASSUME n > 1
      PROVE  \A u \in State : u \in Frame(n-2) => \A v \in State : <<u, v>> \in rel => v \in Frame(n-1)
  <2>1. n - 1 \in 1..frontier /\ (n-1)-1 = n-2
    BY <1>1, <1>6
  <2> SUFFICES ASSUME NEW u \in State, u \in Frame(n-2), NEW v \in State, <<u, v>> \in rel
               PROVE  v \in Frame(n-1)
    OBVIOUS
  <2> DEFINE q == <<u, v>>
  <2>2. q \in rel /\ q[1] = u /\ q[2] = v
    OBVIOUS
  <2> HIDE DEF q
  <2> QED BY <2>1, <2>2 DEF StepsInv
\* The cube of the model.
<1>7. ASSUME c = Cube(p[1]), opt.engine # "sygus"
      PROVE  /\ n = 1 => Starts(c)
             /\ n > 1 => ~Meets(Denotes(c), Frame(n-2))
  <2>1. CASE n = 1
    <3>1. p[1] \in sys.init
      BY <1>3, <2>1 DEF Frame
    <3>2. \A r \in Denotes(c) : r \in sys.init
      BY <1>2, <1>7, <3>1, CubeDecides
    <3> QED BY <1>4, <1>7, <2>1, <3>1, <3>2 DEF Starts, Meets
  <2>2. CASE n > 1
    <3> SUFFICES ASSUME NEW r \in Denotes(c), r \in Frame(n-2) PROVE FALSE
      BY <2>2 DEF Meets
    <3>1. n - 2 \in 0..frontier
      BY <1>1, <2>2
    <3>2. p[1] \in Frame(n-2)
      BY <1>2, <1>7, <3>1, CubeStaysOutside
    <3>3. p[2] \in Frame(n-1)
      BY <1>2, <1>5, <1>6, <2>2, <3>2
    <3> QED BY <1>7, <2>2, <3>3
  <2> QED BY <1>1, <2>1, <2>2
<1>8. CASE opt.engine \in {"ic3", "mbic3"}
  <2>1. \A u \in Denotes(c) : \E v \in C : <<u, v>> \in sys.trans
    BY <1>8, PredecessorLeads
  <2>2. Steers(Denotes(c), C)
    BY <2>1 DEF Steers, Swap
  <2>3. CASE n = 1
    <3>1. c = Cube(p[1])
      BY <1>8, <2>3 DEF Predecessors
    <3> QED BY <1>7, <1>8, <2>2, <2>3, <3>1 DEF Abstract
  <2>4. CASE n > 1
    <3> SUFFICES ASSUME NEW u \in Denotes(c), u \in Frame(n-2) PROVE FALSE
      BY <1>8, <2>2, <2>4 DEF Meets, Abstract
    <3>1. PICK v \in C : <<u, v>> \in sys.trans
      BY <2>1
    <3>2. <<u, v>> \in rel /\ <<u, v>> \in State \X State
      BY <3>1, MovesFacts
    <3>3. v \in Frame(n-1)
      BY <1>6, <2>4, <3>2
    <3> QED BY <1>8, <2>4, <3>1, <3>3
  <2> QED BY <1>1, <2>3, <2>4
<1>9. CASE opt.engine = "ic3ia"
  <2>1. c = Cube(p[1])
    BY <1>9, OptionFacts DEF Predecessors
  <2> QED BY <1>4, <1>7, <1>9, <2>1 DEF Abstract
<1>10. CASE opt.engine = "ic3sa"
  <2>1. CASE ~opt.pregen
    <3>1. c = Cube(p[1])
      BY <2>1 DEF Predecessors
    <3> QED BY <1>4, <1>7, <1>10, <3>1 DEF Abstract
  <2>2. CASE opt.pregen
    <3>1. PICK W \in Justifying(rel, sys.free, kept, C, p[1], p[2]) :
            c \in IF n = 1 THEN {In(W, Cube(p[1]))}
                  ELSE Separated(In(W, Cube(p[1])), Cube(p[1]), Frame(n-2))
      BY <1>10, <2>2 DEF Predecessors
    <3>2. In(W, Cube(p[1])) \subseteq Cube(p[1])
      BY DEF In
    <3>3. CASE n = 1
      <4>1. c \subseteq Cube(p[1])
        BY <3>1, <3>2, <3>3
      <4>2. p[1] \in Denotes(c) /\ p[1] \in sys.init
        BY <1>3, <1>4, <3>3, <4>1, DenotesShrinks DEF Frame
      <4> QED BY <1>4, <1>10, <3>3, <4>1, <4>2 DEF Starts, Meets, Abstract
    <3>4. CASE n > 1
      <4>1. c \in Separated(In(W, Cube(p[1])), Cube(p[1]), Frame(n-2))
        BY <3>1, <3>4
      <4>2. PICK K \in SUBSET (Cube(p[1]) \ In(W, Cube(p[1]))) :
              /\ c = In(W, Cube(p[1])) \cup K
              /\ Denotes(In(W, Cube(p[1])) \cup K) \cap Frame(n-2) = {}
        BY <4>1 DEF Separated
      <4>3. c \subseteq Cube(p[1]) /\ Denotes(c) \cap Frame(n-2) = {}
        BY <3>2, <4>2
      <4> QED BY <1>4, <1>10, <3>4, <4>3 DEF Meets, Abstract
    <3> QED BY <1>1, <3>3, <3>4
  <2> QED BY <2>1, <2>2
<1>11. CASE opt.engine = "sygus"
  <2>1. PICK x \in PartialModels(rel, sys.free, C, p[1], p[2]) : c = {x}
    BY <1>11, OptionFacts DEF Predecessors
  <2>2. rel = sys.trans
    BY <1>11 DEF LitsInv
  <2>3. p[1] \in x /\ x \subseteq State /\ Steers(x, C)
    BY <1>2, <1>11, <2>1, <2>2, PartialModelSteers
  <2>4. Denotes(c) = x
    BY <2>1, <2>3, DenotesSet
  <2>5. n = 1 => p[1] \in sys.init
    BY <1>3 DEF Frame
  <2> QED BY <1>11, <2>3, <2>4, <2>5 DEF Starts, Meets, Abstract
<1> QED BY <1>8, <1>9, <1>10, <1>11, OptionFacts

----------------------------------------------------------------------------
(* What depends on which variables.                                        *)

LEMMA SameSetup ==
  ASSUME UNCHANGED setup
  PROVE  /\ sys' = sys /\ opt' = opt
         /\ SetupInv => SetupInv'
         /\ Abstract' <=> Abstract
         /\ Blind' <=> Blind
         /\ \A c : Starts(c)' <=> Starts(c)
         /\ \A A, B : Steers(A, B)' <=> Steers(A, B)
         /\ \A C : Leads(C)' <=> Leads(C)
<1>1. sys' = sys /\ opt' = opt
  BY DEF setup
<1>2. \A c : Starts(c)' <=> Starts(c)
  BY <1>1 DEF Starts
<1>3. \A A, B : Steers(A, B)' <=> Steers(A, B)
  BY <1>1 DEF Steers, Swap
<1>4. \A C : Leads(C)' <=> Leads(C)
  BY <1>3 DEF Leads
<1>5. Abstract' <=> Abstract
  BY <1>1 DEF Abstract
<1>6. Blind' <=> Blind
  BY <1>1 DEF Blind
<1>7. SetupInv => SetupInv'
  BY <1>1 DEF SetupInv
<1> QED BY <1>1, <1>2, <1>3, <1>4, <1>5, <1>6, <1>7

LEMMA SameAbstraction ==
  ASSUME UNCHANGED <<setup, abstraction>>
  PROVE  /\ sys' = sys /\ opt' = opt /\ lits' = lits /\ rel' = rel
         /\ LitsInv => LitsInv'
<1>1. sys' = sys /\ opt' = opt /\ lits' = lits /\ rel' = rel
  BY DEF setup, abstraction
<1>2. FirstLiterals' = FirstLiterals
  BY <1>1 DEF FirstLiterals, FirstPredicates, FirstTerms, Mined
<1>3. (AbstractTrans(lits))' = AbstractTrans(lits)
  BY <1>1 DEF AbstractTrans
<1>4. Abstract' <=> Abstract
  BY <1>1 DEF Abstract
<1> QED BY <1>1, <1>2, <1>3, <1>4 DEF LitsInv

\* Goals and calls only depend on how many frames there are.
LEMMA SameFrontier ==
  ASSUME UNCHANGED <<setup, abstraction>>, frontier' = frontier
  PROVE  /\ \A g : IsGoal(g)' <=> IsGoal(g)
         /\ \A c : IsCall(c)' <=> IsCall(c)
<1>1. UNCHANGED setup /\ lits' = lits
  BY DEF setup, abstraction
<1>2. sys' = sys /\ (Abstract' <=> Abstract) /\ \A C : Leads(C)' <=> Leads(C)
  BY <1>1, SameSetup
<1>3. \A g : IsGoal(g)' <=> IsGoal(g)
  BY <1>1, <1>2 DEF IsGoal
<1>4. \A c : IsCall(c)' <=> IsCall(c)
  BY DEF IsCall
<1> QED BY <1>3, <1>4

LEMMA SameFrames ==
  ASSUME UNCHANGED <<setup, abstraction, frames>>
  PROVE  /\ frontier' = frontier
         /\ \A n : (Frame(n))' = Frame(n)
         /\ \A n, c : RelInd(n, c)' = RelInd(n, c)
         /\ StepsInv => StepsInv'
         /\ ClausesInv => ClausesInv'
         /\ \A g : IsGoal(g)' <=> IsGoal(g)
         /\ \A g : Queued(g)' <=> Queued(g)
         /\ \A c : IsCall(c)' <=> IsCall(c)
<1>1. UNCHANGED <<setup, abstraction>> /\ frontier' = frontier /\ frames' = frames
  BY DEF frontier
<1>2. sys' = sys /\ lits' = lits /\ rel' = rel
  BY <1>1, SameAbstraction
<1>3. \A n : (Frame(n))' = Frame(n)
  BY <1>1, <1>2 DEF Frame
<1>4. \A n, c : RelInd(n, c)' = RelInd(n, c)
  BY <1>2, <1>3 DEF RelInd, Labels
<1>5. StepsInv => StepsInv'
  BY <1>1, <1>2, <1>3 DEF StepsInv
<1>6. ClausesInv => ClausesInv'
  <2>1. UNCHANGED setup
    BY <1>1
  <2>2. Abstract' <=> Abstract
    BY <2>1, SameSetup
  <2> QED BY <1>1, <1>2, <2>2 DEF ClausesInv
<1>7. \A g : Fresh(g)' <=> Fresh(g)
  BY <1>3 DEF Fresh, Meets
<1>9. \A c : Starts(c)' <=> Starts(c)
  <2>1. UNCHANGED setup
    BY <1>1
  <2> QED BY <2>1, SameSetup
<1>8. /\ \A g : IsGoal(g)' <=> IsGoal(g)
      /\ \A c : IsCall(c)' <=> IsCall(c)
  BY <1>1, SameFrontier
<1>10. \A g : Queued(g)' <=> Queued(g)
  <2>1. opt' = opt
    BY DEF setup
  <2> QED BY <1>7, <1>8, <1>9, <2>1 DEF Queued
<1> QED BY <1>1, <1>3, <1>4, <1>5, <1>6, <1>8, <1>10

----------------------------------------------------------------------------
(* The steps of check_until, step and step_01.                             *)

IInv ==
  /\ SetupInv /\ ~Blind /\ LitsInv
  /\ ControlInv /\ FrameInv /\ GenInv /\ GoalInv /\ CallsInv /\ CexInv

Resting == {"loop", "propagate", "refine", "done"}

LEMMA RestFacts ==
  ASSUME IInv, pc \in Resting
  PROVE  goals = {} /\ calls = <<>> /\ IsSeq(frames)
BY DEF IInv, ControlInv, CallsInv, Resting, Searching

LEMMA RestKeeps ==
  ASSUME pc' \in Resting, goals' = {}, calls' = <<>>
  PROVE  GenInv' /\ GoalInv' /\ CallsInv'
<1>1. GenInv'
  BY DEF GenInv, Resting
<1>2. GoalInv'
  BY DEF GoalInv, Resting, Searching
<1>3. CallsInv'
  <2>1. IsSeq(calls') /\ Len(calls') = 0
    BY EmptyIsSeq
  <2> QED BY <2>1 DEF CallsInv, Resting
<1> QED BY <1>1, <1>2, <1>3

LEMMA NoCex == ASSUME pc' # "refine", verdict' # "FALSE" PROVE CexInv'
BY DEF CexInv

LEMMA FrameInvKeeps ==
  ASSUME FrameInv, UNCHANGED <<setup, abstraction, frames>>, reached' >= 1 => reached >= 1
  PROVE  FrameInv'
<1>1. (StepsInv => StepsInv') /\ (ClausesInv => ClausesInv')
  BY SameFrames
<1> QED BY <1>1 DEF FrameInv

LEMMA SetupKeeps ==
  ASSUME IInv, UNCHANGED <<setup, abstraction>>
  PROVE  SetupInv' /\ ~Blind' /\ LitsInv' /\ sys' = sys /\ opt' = opt /\ lits' = lits /\ rel' = rel
<1>1. UNCHANGED setup
  OBVIOUS
<1>2. SetupInv' /\ ~Blind'
  BY <1>1, SameSetup DEF IInv
<1> QED BY <1>2, SameAbstraction DEF IInv

LEMMA GiveUpKeeps ==
  ASSUME IInv, GiveUp, UNCHANGED sygus PROVE IInv'
<1>1. UNCHANGED <<setup, abstraction, frames>> /\ calls' = calls /\ goals' = goals
  BY DEF GiveUp, sygus
<1>2. SetupInv' /\ ~Blind' /\ LitsInv' /\ opt' = opt /\ sys' = sys
  BY <1>1, SetupKeeps
<1>3. goals = {} /\ calls = <<>>
  BY RestFacts DEF GiveUp, Resting
<1>4. GenInv' /\ GoalInv' /\ CallsInv'
  BY <1>1, <1>3, RestKeeps DEF GiveUp, Resting
<1>5. FrameInv'
  BY <1>1, FrameInvKeeps DEF IInv, GiveUp
<1>6. CexInv'
  BY NoCex DEF GiveUp
<1>7. ControlInv'
  BY <1>1, <1>2, <1>3 DEF GiveUp, IInv, ControlInv, Searching, frontier
<1> QED BY <1>2, <1>4, <1>5, <1>6, <1>7 DEF IInv

LEMMA SkipKeeps ==
  ASSUME IInv, Skip, UNCHANGED sygus PROVE IInv'
<1>1. UNCHANGED <<setup, abstraction, frames>> /\ calls' = calls /\ goals' = goals
  BY DEF Skip, sygus
<1>2. SetupInv' /\ ~Blind' /\ LitsInv' /\ opt' = opt /\ sys' = sys
  BY <1>1, SetupKeeps
<1>3. goals = {} /\ calls = <<>>
  BY RestFacts DEF Skip, Resting
<1>4. GenInv' /\ GoalInv' /\ CallsInv'
  BY <1>1, <1>3, RestKeeps DEF Skip, Resting
<1>5. FrameInv'
  BY <1>1, FrameInvKeeps DEF IInv, Skip
<1>6. CexInv'
  BY NoCex DEF Skip, IInv, ControlInv, answer
<1>7. ControlInv'
  BY <1>1, <1>2, <1>3 DEF Skip, IInv, ControlInv, Searching, frontier, answer
<1> QED BY <1>2, <1>4, <1>5, <1>6, <1>7 DEF IInv

\* The trace of one state.
LEMMA InitialBadKeeps ==
  ASSUME IInv, InitialBad, UNCHANGED sygus PROVE IInv'
<1>1. UNCHANGED <<setup, abstraction, frames>> /\ calls' = calls /\ goals' = goals
  BY DEF InitialBad, sygus
<1>2. SetupInv' /\ ~Blind' /\ LitsInv' /\ opt' = opt /\ sys' = sys
  BY <1>1, SetupKeeps
<1>3. goals = {} /\ calls = <<>> /\ pc = "loop" /\ pc' = "refine" /\ reached' = reached
      /\ reached = -1 /\ verdict' = verdict /\ Meets(sys.init, sys.bad) /\ cex' = <<{sys.bad}>>
  BY RestFacts DEF InitialBad, Resting, AtStep, Trace, answer
<1>4. GenInv' /\ GoalInv' /\ CallsInv'
  BY <1>1, <1>3, RestKeeps DEF Resting
<1>5. FrameInv'
  BY <1>1, <1>3, FrameInvKeeps DEF IInv
<1>6. CexInv'
  <2>1. IsSeq(cex') /\ Len(cex') = 1 /\ cex'[1] = {sys.bad}
    <3>1. cex' \in Seq({{sys.bad}}) /\ Len(cex') = 1 /\ cex'[1] = {sys.bad}
      BY <1>3
    <3> QED BY <3>1, SeqIsSeq
  <2>2. Leads(cex')
    BY <2>1 DEF Leads
  <2>3. Leads(cex)'
    BY <1>1, <2>2, SameSetup
  <2>4. Len(cex') - 2 >= reached' /\ cex'[Len(cex')] = {sys'.bad} /\ Meets(sys.init, sys.bad)'
    BY <1>2, <1>3, <2>1 DEF Meets
  <2> QED BY <2>1, <2>3, <2>4 DEF CexInv
<1>7. ControlInv'
  BY <1>1, <1>2, <1>3 DEF IInv, ControlInv, Searching, frontier
<1> QED BY <1>2, <1>4, <1>5, <1>6, <1>7 DEF IInv

LEMMA CubeSteers ==
  ASSUME SetupInv, LitsInv, ~Abstract, NEW p \in rel, NEW C, p[2] \in C
  PROVE  Steers(Denotes(Cube(p[1])), C)
<1>1. rel = sys.trans /\ p \in State \X State
  BY SetupFacts DEF LitsInv, Abstract
<1>2. \A r \in Denotes(Cube(p[1])) : r = p[1]
  <2>1. CASE opt.engine # "sygus"
    BY <1>1, <2>1, CubeDecides
  <2>2. CASE opt.engine = "sygus"
    <3>1. lits = {{s} : s \in State}
      BY <2>2 DEF LitsInv, FirstLiterals, Abstract
    <3>2. {p[1]} \in Cube(p[1])
      BY <1>1, <3>1 DEF Cube
    <3> QED BY <3>2 DEF Denotes
  <2> QED BY <2>1, <2>2
<1>3. p = <<p[1], p[2]>>
  BY <1>1
<1> QED BY <1>1, <1>2, <1>3 DEF Steers, Swap

LEMMA CubeStarts ==
  ASSUME SetupInv, LitsInv, NEW s \in sys.init
  PROVE  Starts(Cube(s))
<1>1. s \in State
  BY SetupFacts
<1>2. s \in Denotes(Cube(s))
  BY <1>1, CubeHoldsModel
<1>3. opt.engine = "ic3ia" => Denotes(Cube(s)) \subseteq sys.init
  BY <1>1, CubeDecides
<1> QED BY <1>2, <1>3 DEF Starts, Meets

LEMMA OneStepBadKeeps ==
  ASSUME IInv, OneStepBad, UNCHANGED sygus PROVE IInv'
<1>1. UNCHANGED <<setup, abstraction, frames>> /\ calls' = calls /\ goals' = goals
  BY DEF OneStepBad, sygus
<1>2. SetupInv' /\ ~Blind' /\ LitsInv' /\ opt' = opt /\ sys' = sys
  BY <1>1, SetupKeeps
<1>3. goals = {} /\ calls = <<>> /\ pc = "loop" /\ pc' = "refine" /\ reached' = 0
      /\ reached < 1 /\ verdict' = verdict /\ (reached = -1 => ~Meets(sys.init, sys.bad))
  BY RestFacts DEF OneStepBad, Resting, AtStep, Trace, answer
<1>4. GenInv' /\ GoalInv' /\ CallsInv'
  BY <1>1, <1>3, RestKeeps DEF Resting
<1>5. FrameInv'
  BY <1>1, <1>3, FrameInvKeeps DEF IInv
<1>6. CexInv'
  <2>1. PICK p \in rel : p[1] \in sys.init /\ p[2] \in sys.bad /\ cex' = <<Cube(p[1]), {sys.bad}>>
    BY DEF OneStepBad, Trace
  <2>2. IsSeq(cex') /\ Len(cex') = 2 /\ cex'[1] = Cube(p[1]) /\ cex'[2] = {sys.bad}
    <3>1. cex' \in Seq({Cube(p[1]), {sys.bad}}) /\ Len(cex') = 2 /\ cex'[1] = Cube(p[1])
          /\ cex'[2] = {sys.bad}
      BY <2>1
    <3> QED BY <3>1, SeqIsSeq
  <2>3. ~Abstract => Leads(cex')
    <3> SUFFICES ASSUME ~Abstract PROVE Leads(cex')
      OBVIOUS
    <3>1. Steers(Denotes(Cube(p[1])), sys.bad)
      BY <2>1, CubeSteers DEF IInv
    <3>2. Denotes({sys.bad}) = sys.bad
      BY SetupFacts, DenotesSet DEF IInv
    <3>3. \A n \in 1..Len(cex')-1 : n = 1
      BY <2>2
    <3> QED BY <2>2, <3>1, <3>2, <3>3 DEF Leads
  <2>4. Starts(Cube(p[1]))
    BY <2>1, CubeStarts DEF IInv
  <2>5. (~Abstract => Leads(cex))' /\ Starts(cex[1])'
    BY <1>1, <2>2, <2>3, <2>4, SameSetup
  <2> QED BY <1>2, <1>3, <2>2, <2>5 DEF CexInv
<1>7. ControlInv'
  BY <1>1, <1>2, <1>3 DEF IInv, ControlInv, Searching, frontier, Meets
<1> QED BY <1>2, <1>4, <1>5, <1>6, <1>7 DEF IInv

LEMMA NoBadWithinOneStepKeeps ==
  ASSUME IInv, NoBadWithinOneStep, UNCHANGED sygus PROVE IInv'
<1>1. UNCHANGED <<setup, abstraction, frames>> /\ calls' = calls /\ goals' = goals
  BY DEF NoBadWithinOneStep, sygus
<1>2. SetupInv' /\ ~Blind' /\ LitsInv' /\ opt' = opt /\ sys' = sys
  BY <1>1, SetupKeeps
<1>3. goals = {} /\ calls = <<>> /\ pc = "loop" /\ pc' = pc /\ reached' = 1
      /\ reached < 1 /\ verdict' = verdict /\ (reached = -1 => ~Meets(sys.init, sys.bad))
      /\ \A p \in rel : ~(p[1] \in sys.init /\ p[2] \in sys.bad)
  BY RestFacts DEF NoBadWithinOneStep, Resting, AtStep, answer
<1>4. GenInv' /\ GoalInv' /\ CallsInv'
  BY <1>1, <1>3, RestKeeps DEF Resting
<1>8. frames = <<{}>> /\ ~Meets(sys.init, sys.bad) /\ frontier = 1 /\ frames[1] = {}
  BY <1>3 DEF IInv, ControlInv, frontier
<1>5. FrameInv'
  <2>1. Frame(0) = sys.init
    BY DEF Frame
  <2>2. Frame(1) = State \ sys.bad
    BY <1>8 DEF Frame
  <2>3. rel \subseteq State \X State
    <3>1. rel = sys.trans \/ opt.engine = "ic3ia"
      BY DEF IInv, LitsInv
    <3>2. opt.engine = "ic3ia" => rel \in Moves
      BY DEF Moves
    <3> QED BY <3>1, <3>2, SetupFacts, MovesFacts DEF IInv
  <2>4. sys.init \subseteq State
    BY SetupFacts DEF IInv
  <2>5. StepsInv
    <3>1. sys.init \subseteq Frame(1)
      BY <1>8, <2>2, <2>4 DEF Meets
    <3>2. ASSUME NEW n \in 1..frontier, NEW p \in rel, p[1] \in Frame(n-1) PROVE p[2] \in Frame(n)
      <4>1. n = 1 /\ n - 1 = 0
        BY <1>8
      <4>2. p[2] \in State
        BY <2>3
      <4> QED BY <1>3, <2>1, <2>2, <3>2, <4>1, <4>2
    <3> QED BY <3>1, <3>2 DEF StepsInv
  <2>6. StepsInv'
    BY <1>1, <2>5, SameFrames
  <2>7. ClausesInv'
    BY <1>1, SameFrames DEF IInv, FrameInv
  <2> QED BY <2>6, <2>7 DEF FrameInv
<1>6. CexInv'
  BY <1>3, NoCex DEF IInv, ControlInv
<1>7. ControlInv'
  BY <1>1, <1>2, <1>3, <1>8 DEF IInv, ControlInv, Searching, frontier, Meets
<1> QED BY <1>2, <1>4, <1>5, <1>6, <1>7 DEF IInv

LEMMA RelFacts ==
  ASSUME SetupInv, LitsInv PROVE rel \subseteq State \X State /\ sys.trans \subseteq rel
<1>1. rel = sys.trans \/ opt.engine = "ic3ia"
  BY DEF LitsInv
<1>2. opt.engine = "ic3ia" => rel \in Moves
  BY DEF Moves
<1> QED BY <1>1, <1>2, SetupFacts, MovesFacts

LEMMA StepFacts ==
  ASSUME IInv, AtStep, reached >= 1
  PROVE  /\ goals = {} /\ calls = <<>> /\ pc = "loop" /\ verdict = "NONE"
         /\ IsSeq(frames) /\ frontier \in Nat /\ frontier >= 1 /\ frontier = reached
         /\ StepsInv /\ ClausesInv
<1>1. pc = "loop"
  BY DEF AtStep
<1>2. goals = {} /\ calls = <<>> /\ IsSeq(frames)
  BY <1>1, RestFacts DEF Resting
<1>3. frontier \in Nat
  BY <1>2, SeqLen DEF frontier
<1> QED BY <1>1, <1>2, <1>3 DEF IInv, ControlInv, FrameInv

\* A goal of one cube.
LEMMA FirstGoal ==
  ASSUME IsSeq(frames), NEW c, frontier \in Nat, sys.bad \subseteq State,
         Abstract => c \subseteq lits,
         ~Abstract => Steers(Denotes(c), sys.bad)
  PROVE  IsGoal([idx |-> frontier, trace |-> <<c>>])
<1> DEFINE g == [idx |-> frontier, trace |-> <<c>>]
           C == <<c>>
           D == Append(C, {sys.bad})
<1>1. g.idx = frontier /\ g.trace = C /\ g = [idx |-> g.idx, trace |-> g.trace]
  OBVIOUS
<1>2. IsSeq(C) /\ Len(C) = 1 /\ C[1] = c /\ Head(C) = c
  <2>1. C \in Seq({c}) /\ Len(C) = 1 /\ C[1] = c
    OBVIOUS
  <2> HIDE DEF C
  <2>2. Head(C) = c
    BY <2>1
  <2> QED BY <2>1, <2>2, SeqIsSeq
<1>3. ~Abstract => Leads(D)
  <2> SUFFICES ASSUME ~Abstract PROVE Leads(D)
    OBVIOUS
  <2> HIDE DEF C
  <2>1. Len(D) = 2 /\ D[1] = c /\ D[2] = {sys.bad}
    <3>1. D = Append(C, {sys.bad})
      OBVIOUS
    <3> HIDE DEF D
    <3>2. /\ Len(Append(C, {sys.bad})) = Len(C) + 1
          /\ Append(C, {sys.bad})[Len(C) + 1] = {sys.bad}
          /\ \A n \in 1..Len(C) : Append(C, {sys.bad})[n] = C[n]
      <4>1. IsSeq(C)
        BY <1>2
      <4> QED BY ONLY <4>1, IsSeqAppend
    <3>3. Len(C) = 1 /\ C[1] = c
      BY <1>2
    <3> QED BY ONLY <3>1, <3>2, <3>3
  <2>2. Denotes({sys.bad}) = sys.bad
    BY DenotesSet
  <2>3. \A n \in 1..Len(D)-1 : n = 1
    BY <2>1
  <2> HIDE DEF D
  <2> QED BY <2>1, <2>2, <2>3 DEF Leads
<1> HIDE DEF g, C
<1> QED BY <1>1, <1>2, <1>3 DEF IsGoal, Target, g

LEMMA FindGoalKeeps ==
  ASSUME IInv, FindGoal, UNCHANGED sygus PROVE IInv'
<1>1. UNCHANGED <<setup, abstraction, frames>> /\ calls' = calls /\ goal' = goal
      /\ pc' = "queue" /\ verdict' = verdict /\ reached' = reached
  BY DEF FindGoal, sygus, work, answer
<1>2. SetupInv' /\ ~Blind' /\ LitsInv' /\ opt' = opt /\ sys' = sys
  BY <1>1, SetupKeeps
<1>3. /\ goals = {} /\ calls = <<>> /\ pc = "loop" /\ verdict = "NONE"
      /\ IsSeq(frames) /\ frontier \in Nat /\ frontier >= 1 /\ frontier = reached
      /\ StepsInv /\ ClausesInv
  BY StepFacts DEF FindGoal
<1>4. PICK p \in ReachesBad : \E m \in Moves :
         /\ p \in m
         /\ \E c \in Predecessors(frontier + 1, sys.bad, m, p[1], p[2]) :
              goals' = {[idx |-> frontier, trace |-> <<c>>]}
  BY DEF FindGoal
<1>5. PICK m \in Moves :
         /\ p \in m
         /\ \E c \in Predecessors(frontier + 1, sys.bad, m, p[1], p[2]) :
              goals' = {[idx |-> frontier, trace |-> <<c>>]}
  BY <1>4
<1>6. PICK c \in Predecessors(frontier + 1, sys.bad, m, p[1], p[2]) :
         goals' = {[idx |-> frontier, trace |-> <<c>>]}
  BY <1>5
<1>7. /\ opt.engine # "sygus" => ~Meets(Denotes(c), Frame(frontier-1))
      /\ Abstract => c \subseteq lits
      /\ ~Abstract => Steers(Denotes(c), sys.bad)
  <2> DEFINE n == frontier + 1
  <2>1. n \in 1..frontier+1 /\ n > 1 /\ n - 1 = frontier /\ n - 2 = frontier - 1
    BY <1>3
  <2>2. p[1] \in Labels(n-1) /\ p[2] \in sys.bad
    BY <2>1 DEF ReachesBad
  <2>3. sys.bad \cap Frame(n-1) = {}
    BY <1>3, <2>1 DEF Frame
  <2>4. c \in Predecessors(n, sys.bad, m, p[1], p[2])
    OBVIOUS
  <2> HIDE DEF n
  <2> QED BY <1>3, <1>5, <2>1, <2>2, <2>3, <2>4, PredecessorFacts DEF IInv
<1>8. PICK g : g = [idx |-> frontier, trace |-> <<c>>]
  OBVIOUS
<1>9. goals' = {g} /\ g.idx = frontier /\ Target(g) = c /\ IsGoal(g)
  <2>1. goals' = {g} /\ g.idx = frontier
    BY <1>6, <1>8
  <2>2. Target(g) = c
    BY <1>8 DEF Target
  <2>3. IsGoal(g)
    BY <1>3, <1>7, <1>8, SetupFacts, FirstGoal DEF IInv
  <2> QED BY <2>1, <2>2, <2>3
<1>10. Queued(g)
  <2>1. g.idx # 0
    BY <1>3, <1>9
  <2> QED BY <1>7, <1>9, <2>1 DEF Queued, Fresh
<1>11. GoalInv'
  <2>1. Queued(g)'
    BY <1>1, <1>10, SameFrames
  <2> QED BY <1>1, <1>9, <2>1 DEF GoalInv
<1>12. FrameInv'
  BY <1>1, FrameInvKeeps DEF IInv
<1>13. GenInv' /\ CexInv'
  BY <1>1, <1>3 DEF GenInv, CexInv
<1>14. CallsInv'
  <2>1. IsSeq(<<>>) /\ Len(<<>>) = 0
    BY EmptyIsSeq
  <2> QED BY <1>1, <1>3, <2>1 DEF CallsInv
<1>15. ControlInv'
  BY <1>1, <1>2, <1>3 DEF IInv, ControlInv, Searching, frontier, Meets
<1> QED BY <1>2, <1>11, <1>12, <1>13, <1>14, <1>15 DEF IInv

LEMMA NoGoalKeeps ==
  ASSUME IInv, NoGoal, UNCHANGED sygus PROVE IInv'
<1>1. UNCHANGED <<setup, abstraction>> /\ calls' = calls /\ goals' = goals /\ frames' = Append(frames, {})
      /\ pc' = "propagate" /\ verdict' = verdict /\ reached' = reached /\ level' = 1 /\ todo' = frames[1]
      /\ ReachesBad = {}
  BY DEF NoGoal, sygus, answer
<1>2. SetupInv' /\ ~Blind' /\ LitsInv' /\ opt' = opt /\ sys' = sys /\ lits' = lits /\ rel' = rel
  BY <1>1, SetupKeeps
<1>3. /\ goals = {} /\ calls = <<>> /\ pc = "loop" /\ verdict = "NONE"
      /\ IsSeq(frames) /\ frontier \in Nat /\ frontier >= 1 /\ frontier = reached
      /\ StepsInv /\ ClausesInv
  BY StepFacts DEF NoGoal
<1>4. GenInv' /\ GoalInv' /\ CallsInv'
  BY <1>1, <1>3, RestKeeps DEF Resting
<1>5. CexInv'
  BY <1>1, <1>3, NoCex
<1>6. /\ IsSeq(frames') /\ frontier' = frontier + 1
      /\ \A k \in 1..frontier : (Frame(k))' = Frame(k)
      /\ \A k \in Nat : k = frontier + 1 => (Frame(k))' = State \ sys.bad
      /\ frames'[frontier + 1] = {} /\ \A k \in 1..frontier : frames'[k] = frames[k]
  BY <1>1, <1>2, <1>3, FramesGrowEmpty
<1>7. StepsInv'
  <2>1. (Frame(0))' = Frame(0)
    BY <1>2 DEF Frame
  <2>2. sys'.init \subseteq (Frame(1))'
    BY <1>2, <1>3, <1>6 DEF StepsInv
  <2>3. ASSUME NEW n \in 1..frontier+1, NEW p \in rel, p[1] \in (Frame(n-1))' PROVE p[2] \in (Frame(n))'
    <3>1. p[1] \in Frame(n-1)
      <4>1. n - 1 = 0 \/ n - 1 \in 1..frontier
        BY <1>3
      <4> QED BY <1>6, <2>1, <2>3, <4>1
    <3>2. CASE n \in 1..frontier
      BY <1>3, <1>6, <3>1, <3>2 DEF StepsInv
    <3>3. CASE n = frontier + 1
      <4>1. Labels(frontier) = Frame(frontier)
        BY <1>3, LabelsAreFrames
      <4>2. p[2] \notin sys.bad
        BY <1>1, <1>3, <3>1, <3>3, <4>1 DEF ReachesBad
      <4>3. p[2] \in State
        BY RelFacts DEF IInv
      <4> QED BY <1>3, <1>6, <3>3, <4>2, <4>3
    <3> QED BY <1>3, <3>2, <3>3
  <2> QED BY <1>2, <1>6, <2>2, <2>3 DEF StepsInv
<1>8. ClausesInv'
  <2>1. Abstract' <=> Abstract
    BY <1>2 DEF Abstract
  <2>2. \A n \in 1..frontier+1 : n = frontier + 1 \/ n \in 1..frontier
    BY <1>3
  <2> QED BY <1>2, <1>3, <1>6, <2>1, <2>2 DEF ClausesInv
<1>9. ControlInv'
  <2>1. 1 \in 1..frontier'-1 /\ frontier' >= 1
    BY <1>3, <1>6
  <2>2. todo' \subseteq frames'[1]
    BY <1>1, <1>3, <1>6
  <2> QED BY <1>1, <1>2, <1>3, <1>6, <2>1, <2>2 DEF IInv, ControlInv, Searching, Meets
<1> QED BY <1>2, <1>4, <1>5, <1>7, <1>8, <1>9 DEF IInv, FrameInv

----------------------------------------------------------------------------
(* The steps of block_all.                                                 *)

LEMMA QueueFacts ==
  ASSUME IInv, pc \in Searching
  PROVE  /\ verdict = "NONE" /\ IsSeq(frames) /\ frontier \in Nat /\ frontier >= 1
         /\ frontier = reached /\ reached >= 1 /\ StepsInv /\ ClausesInv
         /\ pc = "queue" => calls = <<>>
         /\ pc # "queue" => IsGoal(goal) /\ goal.idx >= 1
<1>1. verdict = "NONE" /\ IsSeq(frames) /\ frontier >= 1 /\ reached >= 1 /\ frontier = reached
  BY DEF IInv, ControlInv, Searching
<1>2. frontier \in Nat
  BY <1>1, SeqLen DEF frontier
<1>3. pc = "queue" => calls = <<>>
  BY DEF IInv, CallsInv
<1> QED BY <1>1, <1>2, <1>3 DEF IInv, FrameInv, GoalInv

LEMMA GoalFacts ==
  ASSUME NEW g, IsGoal(g)
  PROVE  /\ Len(g.trace) \in Nat /\ Len(g.trace) >= 1 /\ Target(g) = g.trace[1] /\ g.idx \in 0..frontier
<1>1. IsSeq(g.trace) /\ Len(g.trace) >= 1 /\ g.idx \in 0..frontier
  BY DEF IsGoal
<1>2. g.trace # <<>>
  BY <1>1, EmptyIsSeq
<1> QED BY <1>1, <1>2, SeqLen, IsSeqTail DEF Target

LEMMA ReachInitKeeps ==
  ASSUME IInv, ReachInit, UNCHANGED sygus PROVE IInv'
<1>1. UNCHANGED <<setup, abstraction, frames>> /\ calls' = calls /\ goals' = {} /\ pc = "queue"
      /\ pc' = "refine" /\ verdict' = verdict /\ reached' = reached
  BY DEF ReachInit, sygus, answer, Trace
<1>2. SetupInv' /\ ~Blind' /\ LitsInv' /\ opt' = opt /\ sys' = sys
  BY <1>1, SetupKeeps
<1>3. /\ verdict = "NONE" /\ IsSeq(frames) /\ frontier \in Nat /\ frontier >= 1
      /\ frontier = reached /\ reached >= 1 /\ calls = <<>>
  BY <1>1, QueueFacts DEF Searching
<1>4. GenInv' /\ GoalInv' /\ CallsInv'
  BY <1>1, <1>3, RestKeeps DEF Resting
<1>5. FrameInv'
  BY <1>1, FrameInvKeeps DEF IInv
<1>6. PICK g \in goals : g.idx = 0 /\ cex' = Append(g.trace, {sys.bad})
  BY DEF ReachInit, Lowest, Trace
<1>7. IsGoal(g) /\ Starts(Target(g))
  BY <1>6 DEF IInv, GoalInv, Queued
<1>8. CexInv'
  <2>1. /\ Len(g.trace) \in Nat /\ Len(g.trace) >= frontier + 1 /\ Target(g) = g.trace[1]
        /\ IsSeq(g.trace)
    <3>1. /\ Len(g.trace) \in Nat /\ Target(g) = g.trace[1] /\ IsSeq(g.trace)
          /\ Len(g.trace) + g.idx >= frontier + 1
      BY <1>7, GoalFacts DEF IsGoal
    <3> QED BY <1>3, <1>6, <3>1
  <2>2. /\ IsSeq(cex') /\ Len(cex') = Len(g.trace) + 1 /\ cex'[Len(g.trace) + 1] = {sys.bad}
        /\ cex'[1] = g.trace[1]
    <3>1. 1 \in 1..Len(g.trace)
      BY <1>3, <2>1
    <3> QED BY <1>6, <2>1, <3>1, IsSeqAppend
  <2>3. ~Abstract => Leads(cex')
    BY <1>6, <1>7 DEF IsGoal
  <2>4. (~Abstract => Leads(cex))' /\ Starts(cex[1])'
    BY <1>1, <1>7, <2>1, <2>2, <2>3, SameSetup
  <2>5. Len(cex') - 2 >= reached' /\ cex'[Len(cex')] = {sys'.bad} /\ Len(cex') # 1 /\ Len(cex') >= 1
    BY <1>1, <1>2, <1>3, <2>1, <2>2
  <2> QED BY <2>2, <2>4, <2>5 DEF CexInv
<1>9. ControlInv'
  BY <1>1, <1>2, <1>3 DEF IInv, ControlInv, Searching, frontier, Meets
<1> QED BY <1>2, <1>4, <1>5, <1>8, <1>9 DEF IInv

LEMMA PopBlockedKeeps ==
  ASSUME IInv, PopBlocked, UNCHANGED sygus PROVE IInv'
<1>1. UNCHANGED <<setup, abstraction, frames>> /\ calls' = calls /\ goals' \subseteq goals /\ pc = "queue"
      /\ pc' = (IF goals' = {} THEN "loop" ELSE "queue") /\ verdict' = verdict /\ reached' = reached
  BY DEF PopBlocked, sygus, answer, Continue
<1>2. SetupInv' /\ ~Blind' /\ LitsInv' /\ opt' = opt /\ sys' = sys
  BY <1>1, SetupKeeps
<1>3. /\ verdict = "NONE" /\ IsSeq(frames) /\ frontier \in Nat /\ frontier >= 1
      /\ frontier = reached /\ reached >= 1 /\ calls = <<>>
  BY <1>1, QueueFacts DEF Searching
<1>4. GenInv' /\ CexInv'
  BY <1>1, <1>3 DEF GenInv, CexInv
<1>5. FrameInv'
  BY <1>1, FrameInvKeeps DEF IInv
<1>6. CallsInv'
  BY <1>1, <1>3, EmptyIsSeq DEF CallsInv
<1>7. GoalInv'
  <2>1. \A g : Queued(g)' <=> Queued(g)
    BY <1>1, SameFrames
  <2>2. pc' \notin Searching \ {"queue"}
    BY <1>1 DEF Searching
  <2> QED BY <1>1, <2>1, <2>2 DEF IInv, GoalInv
<1>8. ControlInv'
  BY <1>1, <1>2, <1>3 DEF IInv, ControlInv, Searching, frontier, Meets
<1> QED BY <1>2, <1>4, <1>5, <1>6, <1>7, <1>8 DEF IInv

\* A goal with its predecessor in front.
LEMMA NextGoal ==
  ASSUME frontier \in Nat, NEW g, IsGoal(g), g.idx > 0, NEW c,
         Abstract => c \subseteq lits,
         ~Abstract => Steers(Denotes(c), Denotes(Target(g)))
  PROVE  IsGoal([idx |-> g.idx - 1, trace |-> <<c>> \o g.trace])
<1> DEFINE h == [idx |-> g.idx - 1, trace |-> <<c>> \o g.trace]
<1>1. h.idx = g.idx - 1 /\ h.trace = <<c>> \o g.trace /\ h = [idx |-> h.idx, trace |-> h.trace]
  OBVIOUS
<1>2. /\ IsSeq(g.trace) /\ g.idx \in 0..frontier /\ Len(g.trace) + g.idx >= frontier + 1
      /\ Len(g.trace) \in Nat /\ Len(g.trace) >= 1 /\ Target(g) = g.trace[1]
      /\ ~Abstract => Leads(Append(g.trace, {sys.bad}))
  BY GoalFacts DEF IsGoal
<1> HIDE DEF h
<1>3. /\ IsSeq(h.trace) /\ Len(h.trace) = Len(g.trace) + 1 /\ h.trace[1] = c /\ Head(h.trace) = c
      /\ \A n \in 1..Len(g.trace) : h.trace[n + 1] = g.trace[n]
  <2>1. IsSeq(g.trace)
    BY <1>2
  <2>2. /\ IsSeq(<<c>> \o g.trace) /\ Len(<<c>> \o g.trace) = Len(g.trace) + 1
        /\ (<<c>> \o g.trace)[1] = c /\ Head(<<c>> \o g.trace) = c
        /\ \A n \in 1..Len(g.trace) : (<<c>> \o g.trace)[n + 1] = g.trace[n]
    BY ONLY <2>1, IsSeqCons
  <2>3. h.trace = <<c>> \o g.trace
    BY <1>1
  <2> QED BY ONLY <2>2, <2>3
<1>4. ~Abstract => Leads(Append(h.trace, {sys.bad}))
  <2> SUFFICES ASSUME ~Abstract PROVE Leads(Append(h.trace, {sys.bad}))
    OBVIOUS
  <2> DEFINE C == Append(g.trace, {sys.bad})
             D == Append(h.trace, {sys.bad})
             k == Len(g.trace)
  <2>1. k \in Nat /\ k >= 1
    BY <1>2
  <2>2. Len(C) = k + 1 /\ C[k + 1] = {sys.bad} /\ \A n \in 1..k : C[n] = g.trace[n]
    BY <1>2, IsSeqAppend
  <2>3. Len(D) = k + 1 + 1 /\ D[k + 1 + 1] = {sys.bad} /\ \A n \in 1..k+1 : D[n] = h.trace[n]
    BY <1>3, IsSeqAppend
  <2> HIDE DEF C, D
  <2>4. D[1] = c /\ \A n \in 1..k+1 : D[n + 1] = C[n]
    <3>1. D[1] = c
      BY <1>3, <2>1, <2>3
    <3>2. ASSUME NEW n \in 1..k PROVE D[n + 1] = C[n]
      <4>1. n + 1 \in 1..k+1
        BY <2>1
      <4> QED BY <1>3, <2>2, <2>3, <4>1
    <3>3. \A n \in 1..k+1 : n = k + 1 \/ n \in 1..k
      BY <2>1
    <3> QED BY <2>2, <2>3, <3>1, <3>2, <3>3
  <2>5. Leads(C)
    BY <1>2 DEF C
  <2>6. ASSUME NEW n \in 1..Len(D)-1 PROVE Steers(Denotes(D[n]), Denotes(D[n+1]))
    <3>1. CASE n = 1
      <4>1. D[2] = Target(g)
        <5>1. 1 \in 1..k /\ 1 \in 1..k+1 /\ 1 + 1 = 2
          BY <2>1
        <5> QED BY <1>2, <2>2, <2>4, <5>1
      <4> QED BY <2>4, <3>1, <4>1
    <3>2. CASE n # 1
      <4>1. n - 1 \in 1..k /\ n - 1 \in 1..k+1 /\ n \in 1..k+1 /\ (n - 1) + 1 = n /\ n - 1 \in 1..Len(C)-1
        BY <2>1, <2>2, <2>3, <3>2
      <4>2. D[n] = C[n-1] /\ D[n+1] = C[n]
        BY <2>4, <4>1
      <4>3. Steers(Denotes(C[n-1]), Denotes(C[(n-1)+1]))
        BY <2>5, <4>1 DEF Leads
      <4> QED BY <4>1, <4>2, <4>3
    <3> QED BY <3>1, <3>2
  <2>7. Leads(D)
    BY <2>6 DEF Leads
  <2> QED BY <2>7 DEF D
<1>5. h.idx \in 0..frontier /\ Len(h.trace) + h.idx >= frontier + 1 /\ Len(h.trace) >= 1
  BY <1>1, <1>2, <1>3
<1>6. IsGoal(h)
  BY <1>1, <1>3, <1>4, <1>5 DEF IsGoal, Target
<1> QED BY <1>6 DEF h

LEMMA FindPredecessorKeeps ==
  ASSUME IInv, FindPredecessor, UNCHANGED sygus PROVE IInv'
<1>1. UNCHANGED <<setup, abstraction, frames>> /\ calls' = calls /\ pc = "queue" /\ pc' = pc
      /\ verdict' = verdict /\ reached' = reached
  BY DEF FindPredecessor, sygus, answer
<1>2. SetupInv' /\ ~Blind' /\ LitsInv' /\ opt' = opt /\ sys' = sys
  BY <1>1, SetupKeeps
<1>3. /\ verdict = "NONE" /\ IsSeq(frames) /\ frontier \in Nat /\ frontier >= 1
      /\ frontier = reached /\ reached >= 1 /\ calls = <<>> /\ StepsInv /\ ClausesInv
  BY <1>1, QueueFacts DEF Searching
<1>4. GenInv' /\ CexInv'
  BY <1>1, <1>3 DEF GenInv, CexInv
<1>5. FrameInv'
  BY <1>1, FrameInvKeeps DEF IInv
<1>6. CallsInv'
  BY <1>1, <1>3, EmptyIsSeq DEF CallsInv
<1>7. PICK g \in goals : g.idx > 0 /\
        \E p \in RelInd(g.idx, Target(g)) : \E m \in Moves :
            /\ p \in m
            /\ \E c \in Predecessors(g.idx, Denotes(Target(g)), m, p[1], p[2]) :
                 goals' = goals \cup {[idx |-> g.idx - 1, trace |-> <<c>> \o g.trace]}
  BY DEF FindPredecessor, Lowest
<1>8. PICK p \in RelInd(g.idx, Target(g)), m \in Moves :
            /\ p \in m
            /\ \E c \in Predecessors(g.idx, Denotes(Target(g)), m, p[1], p[2]) :
                 goals' = goals \cup {[idx |-> g.idx - 1, trace |-> <<c>> \o g.trace]}
  BY <1>7
<1>9. PICK c \in Predecessors(g.idx, Denotes(Target(g)), m, p[1], p[2]) :
                 goals' = goals \cup {[idx |-> g.idx - 1, trace |-> <<c>> \o g.trace]}
  BY <1>8
<1>10. PICK h : h = [idx |-> g.idx - 1, trace |-> <<c>> \o g.trace]
  OBVIOUS
<1>11. Queued(g) /\ IsGoal(g) /\ g.idx \in 1..frontier
  <2>1. Queued(g) /\ IsGoal(g)
    BY <1>7 DEF IInv, GoalInv, Queued
  <2> QED BY <1>3, <1>7, <2>1, GoalFacts
<1>12. /\ g.idx = 1 => Starts(c)
       /\ g.idx > 1 /\ opt.engine # "sygus" => ~Meets(Denotes(c), Frame(g.idx-2))
       /\ Abstract => c \subseteq lits
       /\ ~Abstract => Steers(Denotes(c), Denotes(Target(g)))
  <2>1. p[1] \in Labels(g.idx-1) /\ p[2] \in Denotes(Target(g))
    BY DEF RelInd
  <2>2. opt.engine # "sygus" => Denotes(Target(g)) \cap Frame(g.idx-1) = {}
    BY <1>7, <1>11 DEF Queued, Fresh, Meets
  <2>3. g.idx \in 1..frontier+1
    BY <1>3, <1>11
  <2> QED BY <1>3, <1>8, <2>1, <2>2, <2>3, PredecessorFacts DEF IInv
<1>13. Queued(h)
  <2>1. h.idx = g.idx - 1 /\ h.trace = <<c>> \o g.trace /\ Target(h) = c
    <3>1. h.idx = g.idx - 1 /\ h.trace = <<c>> \o g.trace
      BY <1>10
    <3>2. Head(h.trace) = c
      BY <1>11, <3>1, IsSeqCons DEF IsGoal
    <3> QED BY <3>1, <3>2 DEF Target
  <2>2. IsGoal(h)
    BY <1>3, <1>7, <1>10, <1>11, <1>12, NextGoal
  <2>3. CASE g.idx = 1
    BY <1>12, <2>1, <2>2, <2>3 DEF Queued
  <2>4. CASE g.idx > 1
    <3>1. h.idx # 0 /\ h.idx - 1 = g.idx - 2
      BY <1>11, <2>1, <2>4
    <3>2. opt.engine # "sygus" => Fresh(h)
      BY <1>12, <2>1, <2>4, <3>1 DEF Fresh
    <3> QED BY <2>2, <3>1, <3>2 DEF Queued
  <2> QED BY <1>11, <2>3, <2>4
<1>14. GoalInv'
  <2>1. \A x : Queued(x)' <=> Queued(x)
    BY <1>1, SameFrames
  <2>2. pc' \notin Searching \ {"queue"}
    BY <1>1 DEF Searching
  <2>3. goals' = goals \cup {h}
    BY <1>9, <1>10
  <2> QED BY <1>13, <2>1, <2>2, <2>3 DEF IInv, GoalInv
<1>15. ControlInv'
  BY <1>1, <1>2, <1>3 DEF IInv, ControlInv, Searching, frontier, Meets
<1> QED BY <1>2, <1>4, <1>5, <1>6, <1>14, <1>15 DEF IInv

\* Among the steps of the search nothing but its own state changes.
LEMMA SearchControl ==
  ASSUME IInv, pc \in Searching, pc' \in Searching \cup {"loop"}, UNCHANGED setup,
         frontier' = frontier, IsSeq(frames'), reached' = reached, verdict' = verdict,
         goals' # {} => pc' \in Searching,
         opt.engine # "sygus" => calls' = calls /\ pc' \notin {"predicates", "terms", "may"}
  PROVE  ControlInv' /\ CexInv'
<1>1. /\ verdict = "NONE" /\ frontier >= 1 /\ reached >= 1 /\ frontier = reached
      /\ ~Meets(sys.init, sys.bad) /\ reached \in Nat
      /\ (opt.engine # "sygus" => calls = <<>>)
  BY DEF IInv, ControlInv, Searching
<1>2. sys' = sys /\ opt' = opt
  BY DEF setup
<1>3. pc' # "refine" /\ pc' # "done" /\ pc' # "propagate"
  BY DEF Searching
<1>4. CexInv'
  BY <1>1, <1>3 DEF CexInv
<1>5. ControlInv'
  BY <1>1, <1>2, <1>3 DEF ControlInv, Meets
<1> QED BY <1>4, <1>5

\* The modes that generalise at once.
LEMMA AtOnceKeeps ==
  ASSUME SetupInv, StepsInv, opt.engine = "mbic3", opt.mode > 0,
         NEW n, NEW c, NEW G \in AtOnce(n, c)
  PROVE  /\ Denotes(c) \subseteq Denotes(G)
         /\ ~Meets(Denotes(G), sys.init) /\ RelInd(n, G) = {}
<1> DEFINE into == sys.init \cup {p[2] : p \in {q \in rel : q[1] \in Frame(n-1) \ Denotes(c)}}
<1>1. ~Meets(Denotes(G), into)
  BY DEF AtOnce
<1>2. Denotes(c) \subseteq Denotes(G)
  <2>1. CASE opt.mode = 1
    <3>1. G \subseteq SplitCube(c)
      BY <2>1 DEF AtOnce
    <3>2. ASSUME NEW l \in SplitCube(c) PROVE Denotes(c) \subseteq l
      <4>1. PICK e \in c : l \in IF e \in Equalities THEN Split[e] ELSE {e}
        BY DEF SplitCube
      <4>2. e \subseteq l
        BY <4>1, LiteralsAssumption
      <4> QED BY <4>2 DEF Denotes
    <3> QED BY <3>1, <3>2 DEF Denotes
  <2>2. CASE opt.mode # 1
    <3>1. \A l \in G : Denotes(c) \subseteq l
      BY <2>2 DEF AtOnce
    <3> QED BY <3>1 DEF Denotes
  <2> QED BY <2>1, <2>2
<1>3. ~Meets(Denotes(G), sys.init)
  BY <1>1 DEF Meets
<1>4. Labels(n-1) = Frame(n-1)
  BY LabelsAreFrames
<1>5. ASSUME NEW p \in RelInd(n, G) PROVE FALSE
  <2>1. p \in rel /\ p[1] \in Frame(n-1) \ Denotes(c) /\ p[2] \in Denotes(G)
    BY <1>2, <1>4 DEF RelInd
  <2>2. p[2] \in into
    BY <2>1
  <2> QED BY <1>1, <2>1, <2>2 DEF Meets
<1> QED BY <1>2, <1>3, <1>5

\* The states of a goal are not initial unless its frame is.
LEMMA FreshAvoidsInit ==
  ASSUME IsSeq(frames), StepsInv, NEW g, Fresh(g), g.idx \in 1..frontier
  PROVE  ~Meets(Denotes(Target(g)), sys.init)
<1>1. frontier \in Nat
  BY SeqLen DEF frontier
<1>2. Frame(0) \subseteq Frame(g.idx - 1)
  <2> DEFINE m == g.idx - 1
  <2>1. m \in 0..frontier /\ 0 \in 0..frontier
    BY <1>1
  <2> HIDE DEF m
  <2>2. Frame(0) \subseteq Frame(m)
    BY <2>1, FrameGrows
  <2> QED BY <2>2 DEF m
<1> QED BY <1>2 DEF Fresh, Meets, Frame

LEMMA RefuseKeeps ==
  ASSUME IInv, Refuse, UNCHANGED sygus PROVE IInv'
<1>1. UNCHANGED <<setup, abstraction, frames>> /\ calls' = calls /\ pc = "queue"
      /\ pc' \in {"generalize", "raise"} /\ verdict' = verdict /\ reached' = reached
      /\ opt.engine # "sygus"
  BY DEF Refuse, sygus, answer
<1>2. SetupInv' /\ ~Blind' /\ LitsInv' /\ opt' = opt /\ sys' = sys /\ lits' = lits
  BY <1>1, SetupKeeps
<1>3. /\ verdict = "NONE" /\ IsSeq(frames) /\ frontier \in Nat /\ frontier >= 1
      /\ frontier = reached /\ reached >= 1 /\ calls = <<>> /\ StepsInv /\ ClausesInv
  BY <1>1, QueueFacts DEF Searching
<1>4. PICK g \in goals :
        /\ g.idx > 0 /\ RelInd(g.idx, Target(g)) = {}
        /\ goals' = goals \ {g} /\ goal' = g /\ level' = g.idx
        /\ \E c \in Cores(g.idx, Target(g)) :
            IF opt.indgen /\ opt.mode > 0
            THEN gen' \in AtOnce(g.idx, c)
            ELSE gen' = c
  BY DEF Refuse, Blockable, Lowest
<1>5. PICK c \in Cores(g.idx, Target(g)) :
        IF opt.indgen /\ opt.mode > 0
        THEN gen' \in AtOnce(g.idx, c)
        ELSE gen' = c
  BY <1>4
<1>6. IsGoal(g) /\ Fresh(g) /\ g.idx \in 1..frontier
  <2>1. IsGoal(g) /\ Fresh(g)
    BY <1>1, <1>4 DEF IInv, GoalInv, Queued
  <2> QED BY <1>3, <1>4, <2>1, GoalFacts
<1>7. /\ c \subseteq Target(g) /\ Denotes(Target(g)) \subseteq Denotes(c)
      /\ ~Meets(Denotes(c), sys.init) /\ RelInd(g.idx, c) = {}
  BY <1>3, <1>4, <1>6, FreshAvoidsInit, CoresKeep
<1>8. /\ Denotes(Target(g)) \subseteq Denotes(gen')
      /\ ~Meets(Denotes(gen'), sys.init) /\ RelInd(g.idx, gen') = {}
      /\ Abstract => gen' \subseteq lits
  <2>1. CASE opt.mode > 0 /\ opt.indgen
    <3>1. opt.engine = "mbic3"
      BY <2>1, OptionFacts DEF IInv
    <3>2. gen' \in AtOnce(g.idx, c)
      BY <1>5, <2>1
    <3>3. /\ Denotes(c) \subseteq Denotes(gen')
          /\ ~Meets(Denotes(gen'), sys.init) /\ RelInd(g.idx, gen') = {}
      BY <1>3, <2>1, <3>1, <3>2, AtOnceKeeps DEF IInv
    <3> QED BY <1>7, <3>1, <3>3 DEF Abstract
  <2>2. CASE ~(opt.mode > 0 /\ opt.indgen)
    <3>1. gen' = c
      BY <1>5, <2>2
    <3>2. Abstract => Target(g) \subseteq lits
      BY <1>6 DEF IsGoal
    <3> QED BY <1>7, <3>1, <3>2
  <2> QED BY <2>1, <2>2
<1>9. GenInv'
  <2>1. frontier' = frontier /\ (Abstract' <=> Abstract)
    BY <1>1, <1>2 DEF frontier, Abstract
  <2>2. RelInd(level, gen)' = {}
    BY <1>1, <1>4, <1>8, SameFrames
  <2>3. ~Meets(Denotes(gen), sys.init)'
    BY <1>2, <1>8 DEF Meets
  <2>4. level' \in 1..frontier' /\ level' >= goal'.idx
    BY <1>4, <1>6, <2>1
  <2> QED BY <1>2, <1>4, <1>8, <2>1, <2>2, <2>3, <2>4 DEF GenInv
<1>10. GoalInv'
  <2>1. \A x : Queued(x)' <=> Queued(x)
    BY <1>1, SameFrames
  <2>2. IsGoal(goal)' /\ goal'.idx >= 1
    BY <1>1, <1>4, <1>6, SameFrames
  <2> QED BY <1>4, <2>1, <2>2 DEF IInv, GoalInv
<1>11. CallsInv'
  BY <1>1, <1>3, EmptyIsSeq DEF CallsInv
<1>12. ControlInv' /\ CexInv'
  <2>1. frontier' = frontier /\ frames' = frames
    BY <1>1 DEF frontier
  <2> QED BY <1>1, <1>2, <1>3, <2>1, SearchControl DEF Searching
<1>13. FrameInv'
  BY <1>1, FrameInvKeeps DEF IInv
<1> QED BY <1>2, <1>9, <1>10, <1>11, <1>12, <1>13 DEF IInv

----------------------------------------------------------------------------
(* Generalisation.                                                         *)

\* A cube that replaces the one being generalised.
LEMMA GenKeeps ==
  ASSUME IInv, pc \in {"generalize", "raise"}, pc' = pc \/ pc' = "raise",
         UNCHANGED <<setup, abstraction, frames>>, goals' = goals, goal' = goal, calls' = calls,
         verdict' = verdict, reached' = reached,
         level' \in level..frontier, Denotes(gen) \subseteq Denotes(gen'),
         ~Meets(Denotes(gen'), sys.init), RelInd(level', gen') = {}, Abstract => gen' \subseteq lits
  PROVE  IInv'
<1>1. SetupInv' /\ ~Blind' /\ LitsInv' /\ opt' = opt /\ sys' = sys /\ lits' = lits
  BY SetupKeeps
<1>2. /\ verdict = "NONE" /\ IsSeq(frames) /\ frontier \in Nat /\ frontier >= 1
      /\ frontier = reached /\ reached >= 1 /\ StepsInv /\ ClausesInv
      /\ IsGoal(goal) /\ goal.idx >= 1 /\ goal.idx \in 0..frontier
  BY QueueFacts, GoalFacts DEF Searching
<1>3. frontier' = frontier /\ frames' = frames /\ (Abstract' <=> Abstract)
  BY <1>1 DEF frontier, Abstract
<1>4. level \in 1..frontier /\ (calls = <<>> => level >= goal.idx)
      /\ (opt.engine # "sygus" => Denotes(Target(goal)) \subseteq Denotes(gen))
  BY DEF IInv, GenInv
<1>5. GenInv'
  <2>1. RelInd(level, gen)' = {}
    BY SameFrames
  <2>2. ~Meets(Denotes(gen), sys.init)'
    BY <1>1 DEF Meets
  <2>3. level' \in 1..frontier' /\ (calls' = <<>> => level' >= goal'.idx)
    BY <1>2, <1>3, <1>4
  <2>4. opt.engine # "sygus" => Denotes(Target(goal)) \subseteq Denotes(gen')
    BY <1>4
  <2>5. Target(goal)' = Target(goal)
    BY DEF Target
  <2> QED BY <1>1, <1>3, <2>1, <2>2, <2>3, <2>4, <2>5 DEF GenInv
<1>6. GoalInv'
  <2>1. \A x : Queued(x)' <=> Queued(x)
    BY SameFrames
  <2>2. IsGoal(goal)' /\ goal'.idx >= 1
    BY <1>2, SameFrames
  <2> QED BY <2>1, <2>2 DEF IInv, GoalInv
<1>7. CallsInv'
  <2>1. \A c : IsCall(c)' <=> IsCall(c)
    BY SameFrames
  <2>2. calls # <<>> => pc = "raise"
    BY DEF IInv, CallsInv
  <2> QED BY <2>1, <2>2 DEF IInv, CallsInv
<1>8. ControlInv' /\ CexInv'
  BY <1>2, <1>3, SearchControl DEF IInv, ControlInv, Searching
<1>9. FrameInv'
  BY FrameInvKeeps DEF IInv
<1> QED BY <1>1, <1>5, <1>6, <1>7, <1>8, <1>9 DEF IInv

LEMMA GenFacts ==
  ASSUME IInv, pc \in {"generalize", "raise"}
  PROVE  /\ IsSeq(frames) /\ frontier \in Nat /\ level \in 1..frontier
         /\ ~Meets(Denotes(gen), sys.init) /\ RelInd(level, gen) = {}
         /\ (Abstract => gen \subseteq lits) /\ StepsInv /\ ClausesInv
BY QueueFacts DEF IInv, GenInv, Searching

LEMMA DropLiteralKeeps ==
  ASSUME IInv, DropLiteral, UNCHANGED sygus PROVE IInv'
<1>1. /\ UNCHANGED <<setup, abstraction, frames>> /\ calls' = calls /\ pc = "generalize" /\ pc' = pc
      /\ verdict' = verdict /\ reached' = reached /\ goals' = goals /\ goal' = goal /\ level' = level
  BY DEF DropLiteral, sygus, answer
<1>2. PICK l \in Undecided : Droppable(l) /\ gen' \in Cores(level, gen \ {l})
  BY DEF DropLiteral
<1>3. /\ IsSeq(frames) /\ frontier \in Nat /\ level \in 1..frontier /\ StepsInv
      /\ (Abstract => gen \subseteq lits)
  BY <1>1, GenFacts
<1>4. ~Meets(Denotes(gen \ {l}), sys.init) /\ RelInd(level, gen \ {l}) = {}
  BY <1>2 DEF Droppable
<1>5. /\ gen' \subseteq gen \ {l} /\ Denotes(gen \ {l}) \subseteq Denotes(gen')
      /\ ~Meets(Denotes(gen'), sys.init) /\ RelInd(level, gen') = {}
  <2>1. gen' \in Cores(level, gen \ {l}) /\ StepsInv
    BY <1>2, <1>3
  <2> DEFINE c == gen \ {l}
             H == gen'
  <2>2. RelInd(level, c) = {} /\ ~Meets(Denotes(c), sys.init) /\ H \in Cores(level, c)
    BY <1>4, <2>1
  <2> HIDE DEF c, H
  <2>3. H \subseteq c /\ Denotes(c) \subseteq Denotes(H) /\ ~Meets(Denotes(H), sys.init) /\ RelInd(level, H) = {}
    BY ONLY <2>1, <2>2, CoresKeep
  <2> QED BY <2>3 DEF c, H
<1>6. Denotes(gen) \subseteq Denotes(gen')
  BY <1>5, DenotesShrinks
<1>7. level' \in level..frontier
  BY <1>1, <1>3
<1> QED BY <1>1, <1>3, <1>5, <1>6, <1>7, GenKeeps

LEMMA KeepLiteralKeeps ==
  ASSUME IInv, KeepLiteral, UNCHANGED sygus PROVE IInv'
<1>1. /\ UNCHANGED <<setup, abstraction, frames>> /\ calls' = calls /\ pc = "generalize" /\ pc' = pc
      /\ verdict' = verdict /\ reached' = reached /\ goals' = goals /\ goal' = goal /\ level' = level
      /\ gen' = gen
  BY DEF KeepLiteral, sygus, answer
<1>2. /\ frontier \in Nat /\ level \in 1..frontier
      /\ ~Meets(Denotes(gen), sys.init) /\ RelInd(level, gen) = {}
      /\ (Abstract => gen \subseteq lits)
  BY <1>1, GenFacts
<1>3. level' \in level..frontier
  BY <1>1, <1>2
<1> QED BY <1>1, <1>2, <1>3, GenKeeps

LEMMA GeneralizedKeeps ==
  ASSUME IInv, Generalized, UNCHANGED sygus PROVE IInv'
<1>1. /\ UNCHANGED <<setup, abstraction, frames>> /\ calls' = calls /\ pc = "generalize" /\ pc' = "raise"
      /\ verdict' = verdict /\ reached' = reached /\ goals' = goals /\ goal' = goal /\ level' = level
      /\ gen' = gen
  BY DEF Generalized, sygus, answer, work
<1>2. /\ frontier \in Nat /\ level \in 1..frontier
      /\ ~Meets(Denotes(gen), sys.init) /\ RelInd(level, gen) = {}
      /\ (Abstract => gen \subseteq lits)
  BY <1>1, GenFacts
<1>3. level' \in level..frontier
  BY <1>1, <1>2
<1> QED BY <1>1, <1>2, <1>3, GenKeeps

LEMMA RaiseKeeps ==
  ASSUME IInv, Raise, UNCHANGED sygus PROVE IInv'
<1>1. /\ UNCHANGED <<setup, abstraction, frames>> /\ calls' = calls /\ pc = "raise" /\ pc' = pc
      /\ verdict' = verdict /\ reached' = reached /\ goals' = goals /\ goal' = goal
      /\ level' = level + 1 /\ level < frontier /\ RelInd(level + 1, gen) = {}
      /\ gen' \in Cores(level + 1, gen)
  BY DEF Raise, CanRaise, sygus, answer
<1>2. /\ IsSeq(frames) /\ frontier \in Nat /\ level \in 1..frontier /\ StepsInv
      /\ ~Meets(Denotes(gen), sys.init) /\ (Abstract => gen \subseteq lits)
  BY <1>1, GenFacts
<1>3. /\ gen' \subseteq gen /\ Denotes(gen) \subseteq Denotes(gen')
      /\ ~Meets(Denotes(gen'), sys.init) /\ RelInd(level + 1, gen') = {}
  BY <1>1, <1>2, CoresKeep
<1>4. level' \in level..frontier
  BY <1>1, <1>2
<1> QED BY <1>1, <1>2, <1>3, <1>4, GenKeeps

\* The frames with the generalised cube left out.
LEMMA BlockedFrames ==
  ASSUME IInv, pc = "raise", UNCHANGED <<setup, abstraction>>, frames' = Constrain(level, gen),
         reached' = reached
  PROVE  /\ IsSeq(frames') /\ frontier' = frontier /\ FrameInv'
         /\ \A k \in 0..frontier : (Frame(k))' \subseteq Frame(k)
         /\ \A k \in 1..level : (Frame(k))' \cap Denotes(gen) = {}
<1>1. sys' = sys /\ opt' = opt /\ lits' = lits /\ rel' = rel /\ (Abstract' <=> Abstract)
  BY SetupKeeps DEF Abstract
<1>2. /\ IsSeq(frames) /\ frontier \in Nat /\ level \in 1..frontier
      /\ ~Meets(Denotes(gen), sys.init) /\ RelInd(level, gen) = {}
      /\ (Abstract => gen \subseteq lits) /\ StepsInv /\ ClausesInv
  BY GenFacts
<1>3. /\ IsSeq(frames') /\ LeavesOut(Denotes(gen), level)
      /\ \A m \in 1..frontier : \A d \in frames'[m] : d \in frames[m] \/ d = gen
  BY <1>1, <1>2, ConstrainLeavesOut
<1>4. frontier' = frontier
  BY <1>3 DEF LeavesOut
<1>5. Keeps(level, Denotes(gen))
  BY <1>2, RelIndIsKept
<1>6. StepsInv'
  <2>1. \A p \in rel : p[1] \in Frame(level-1) \ Denotes(gen) => p[2] \notin Denotes(gen)
    BY <1>5 DEF Keeps
  <2> QED BY <1>2, <1>3, <2>1, Strengthened
<1>7. ClausesInv'
  BY <1>1, <1>2, <1>3, <1>4 DEF ClausesInv
<1>8. \A k \in 0..frontier : (Frame(k))' \subseteq Frame(k)
  <2>1. (Frame(0))' = Frame(0)
    BY <1>1 DEF Frame
  <2>2. \A k \in 0..frontier : k = 0 \/ k \in 1..frontier
    BY <1>2
  <2> QED BY <1>3, <2>1, <2>2 DEF LeavesOut
<1>9. \A k \in 1..level : (Frame(k))' \cap Denotes(gen) = {}
  <2>1. \A k \in 1..level : k \in 1..frontier /\ k <= level
    BY <1>2
  <2> QED BY <1>3, <2>1 DEF LeavesOut
<1> QED BY <1>3, <1>4, <1>6, <1>7, <1>8, <1>9 DEF FrameInv

\* Goals stay as they are when frames shrink.
LEMMA GoalsStay ==
  ASSUME UNCHANGED <<setup, abstraction>>, frontier' = frontier, frontier \in Nat,
         \A k \in 0..frontier : (Frame(k))' \subseteq Frame(k),
         NEW g, Queued(g)
  PROVE  Queued(g)'
<1>1. UNCHANGED setup /\ opt' = opt
  BY DEF setup
<1>2. IsGoal(g)' /\ (Starts(Target(g))' <=> Starts(Target(g)))
  BY <1>1, SameFrontier, SameSetup DEF Queued
<1>3. g.idx \in 0..frontier
  BY GoalFacts DEF Queued
<1>4. g.idx # 0 => (Fresh(g) => Fresh(g)')
  <2> SUFFICES ASSUME g.idx # 0, Fresh(g) PROVE Fresh(g)'
    OBVIOUS
  <2>1. g.idx - 1 \in 0..frontier
    BY <1>3
  <2> QED BY <2>1 DEF Fresh, Meets
<1> QED BY <1>1, <1>2, <1>4 DEF Queued

LEMMA BlockKeeps ==
  ASSUME IInv, Block, calls = <<>>, UNCHANGED sygus PROVE IInv'
<1>1. /\ UNCHANGED <<setup, abstraction>> /\ calls' = calls /\ pc = "raise" /\ pc' \in {"loop", "queue"}
      /\ verdict' = verdict /\ reached' = reached /\ (goals' # {} => pc' = "queue")
      /\ frames' = Constrain(level, gen)
      /\ goals' = goals \cup IF level < frontier THEN {[goal EXCEPT !.idx = level + 1]} ELSE {}
  BY DEF Block, Continue, sygus, answer
<1>2. SetupInv' /\ ~Blind' /\ LitsInv' /\ opt' = opt /\ sys' = sys /\ lits' = lits
  BY <1>1, SetupKeeps
<1>3. /\ IsSeq(frames') /\ frontier' = frontier /\ FrameInv'
      /\ \A k \in 0..frontier : (Frame(k))' \subseteq Frame(k)
      /\ \A k \in 1..level : (Frame(k))' \cap Denotes(gen) = {}
  BY <1>1, BlockedFrames
<1>4. /\ frontier \in Nat /\ level \in 1..frontier /\ IsGoal(goal) /\ goal.idx >= 1 /\ level >= goal.idx
      /\ (opt.engine # "sygus" => Denotes(Target(goal)) \subseteq Denotes(gen))
  BY <1>1, GenFacts, QueueFacts DEF IInv, GenInv, Searching
<1>5. PICK h : h = [goal EXCEPT !.idx = level + 1]
  OBVIOUS
<1>6. h.idx = level + 1 /\ h.trace = goal.trace /\ h = [idx |-> h.idx, trace |-> h.trace]
      /\ Target(h) = Target(goal)
  <2>1. goal = [idx |-> goal.idx, trace |-> goal.trace]
    BY <1>4 DEF IsGoal
  <2>2. h = [idx |-> level + 1, trace |-> goal.trace]
    BY <1>5, <2>1
  <2>3. h.idx = level + 1 /\ h.trace = goal.trace
    BY <2>2
  <2> QED BY <2>2, <2>3 DEF Target
<1>7. level < frontier => Queued(h)'
  <2> SUFFICES ASSUME level < frontier PROVE Queued(h)'
    OBVIOUS
  <2>1. IsGoal(h)
    <3>1. h.idx \in 0..frontier
      BY <1>4, <1>6
    <3>2. Len(h.trace) + h.idx >= frontier + 1
      <4>1. Len(goal.trace) \in Nat /\ Len(goal.trace) + goal.idx >= frontier + 1 /\ goal.idx \in Int
        BY <1>4, GoalFacts DEF IsGoal
      <4> QED BY <1>4, <1>6, <4>1
    <3> QED BY <1>4, <1>6, <3>1, <3>2 DEF IsGoal
  <2>2. IsGoal(h)'
    BY <1>1, <1>3, <2>1, SameFrontier
  <2>3. opt.engine # "sygus" => Fresh(h)'
    <3> SUFFICES ASSUME opt.engine # "sygus" PROVE Fresh(h)'
      OBVIOUS
    <3>1. PICK k : k = level
      OBVIOUS
    <3>2. (Frame(k))' \cap Denotes(gen) = {}
      BY <1>3, <1>4, <3>1
    <3>3. h.idx - 1 = k
      BY <1>4, <1>6, <3>1
    <3>4. Denotes(Target(h)) \subseteq Denotes(gen)
      BY <1>4, <1>6
    <3> QED BY <3>2, <3>3, <3>4 DEF Fresh, Meets
  <2>4. h.idx # 0
    BY <1>4, <1>6
  <2> QED BY <1>2, <2>2, <2>3, <2>4 DEF Queued
<1>8. GoalInv'
  <2>1. \A g \in goals : Queued(g)'
    BY <1>1, <1>3, <1>4, GoalsStay DEF IInv, GoalInv
  <2>2. \A g \in goals' : g \in goals \/ (level < frontier /\ g = h)
    BY <1>1, <1>5
  <2>3. pc' \notin Searching \ {"queue"}
    BY <1>1 DEF Searching
  <2> QED BY <1>7, <2>1, <2>2, <2>3 DEF GoalInv
<1>9. GenInv'
  BY <1>1 DEF GenInv
<1>10. CallsInv'
  BY <1>1, EmptyIsSeq DEF CallsInv
<1>11. ControlInv' /\ CexInv'
  BY <1>1, <1>3, SearchControl DEF Searching
<1> QED BY <1>2, <1>3, <1>8, <1>9, <1>10, <1>11 DEF IInv

----------------------------------------------------------------------------
(* Propagation.                                                            *)

LEMMA PropagateFacts ==
  ASSUME IInv, pc = "propagate"
  PROVE  /\ goals = {} /\ calls = <<>> /\ verdict = "NONE" /\ IsSeq(frames) /\ frontier \in Nat
         /\ reached >= 1 /\ reached \in Nat /\ frontier = reached + 1 /\ level \in 1..frontier-1
         /\ todo \subseteq frames[level] /\ StepsInv /\ ClausesInv
<1>1. goals = {} /\ calls = <<>> /\ IsSeq(frames)
  BY RestFacts DEF Resting
<1>2. frontier \in Nat
  BY <1>1, SeqLen DEF frontier
<1>3. reached >= 1
  BY DEF IInv, ControlInv
<1> QED BY <1>1, <1>2, <1>3 DEF IInv, ControlInv, FrameInv

LEMMA PropagateKeeps ==
  ASSUME IInv, Propagate, UNCHANGED sygus PROVE IInv'
<1>1. /\ UNCHANGED <<setup, abstraction>> /\ calls' = calls /\ goals' = goals /\ pc = "propagate" /\ pc' = pc
      /\ verdict' = verdict /\ reached' = reached /\ level' = level
  BY DEF Propagate, sygus, answer
<1>2. /\ SetupInv' /\ ~Blind' /\ LitsInv' /\ opt' = opt /\ sys' = sys /\ lits' = lits /\ rel' = rel
      /\ (Abstract' <=> Abstract)
  BY <1>1, SetupKeeps DEF Abstract
<1>3. /\ goals = {} /\ calls = <<>> /\ verdict = "NONE" /\ IsSeq(frames) /\ frontier \in Nat
      /\ reached >= 1 /\ reached \in Nat /\ frontier = reached + 1 /\ level \in 1..frontier-1
      /\ todo \subseteq frames[level] /\ StepsInv /\ ClausesInv
  BY <1>1, PropagateFacts
<1>4. PICK c \in todo :
       /\ RelInd(level + 1, c) = {}
       /\ \E G \in Cores(level + 1, c) :
            frames' = [frames EXCEPT ![level] = @ \ {c}, ![level+1] = @ \cup {G}]
       /\ todo' = todo \ {c}
  BY DEF Propagate
<1>5. PICK G \in Cores(level + 1, c) :
        frames' = [frames EXCEPT ![level] = @ \ {c}, ![level+1] = @ \cup {G}]
  BY <1>4
<1>6. c \in frames[level] /\ level \in 1..frontier /\ level + 1 \in 1..frontier
  BY <1>3, <1>4
<1>7. ~Meets(Denotes(c), sys.init)
  <2>1. sys.init \subseteq Frame(level)
    <3>1. 0 \in 0..frontier /\ level \in 0..frontier
      BY <1>3
    <3>2. Frame(0) \subseteq Frame(level)
      BY <1>3, <3>1, FrameGrows
    <3> QED BY <3>2 DEF Frame
  <2>2. Frame(level) \cap Denotes(c) = {}
    <3>1. level # 0 /\ level \in level..frontier
      BY <1>3
    <3> QED BY <1>6, <3>1 DEF Frame
  <2> QED BY <2>1, <2>2 DEF Meets
<1>8. G \subseteq c /\ ~Meets(Denotes(G), sys.init) /\ RelInd(level + 1, G) = {}
  BY <1>3, <1>4, <1>7, CoresKeep
<1>9. /\ IsSeq(frames') /\ LeavesOut(Denotes(G), level + 1)
      /\ frames'[level] = frames[level] \ {c}
      /\ \A m \in 1..frontier : \A d \in frames'[m] : d \in frames[m] \/ d = G
  BY <1>2, <1>3, <1>5, <1>6, <1>8, MovedLeavesOut
<1>10. StepsInv'
  <2>1. (level + 1) - 1 = level
    BY <1>3
  <2>2. \A p \in rel : p[1] \in Frame((level + 1) - 1) \ Denotes(G) => p[2] \notin Denotes(G)
    BY <1>3, <1>8, RelIndIsKept DEF Keeps
  <2> QED BY <1>3, <1>6, <1>8, <1>9, <2>2, Strengthened
<1>11. frontier' = frontier
  BY <1>9 DEF LeavesOut
<1>12. ClausesInv'
  <2>1. Abstract => c \subseteq lits
    BY <1>3, <1>6 DEF ClausesInv
  <2> QED BY <1>2, <1>3, <1>8, <1>9, <1>11, <2>1 DEF ClausesInv
<1>13. GenInv' /\ GoalInv' /\ CallsInv'
  BY <1>1, <1>3, RestKeeps DEF Resting
<1>14. CexInv'
  BY <1>1, <1>3, NoCex
<1>15. ControlInv'
  <2>1. todo' \subseteq frames'[level']
    BY <1>1, <1>3, <1>4, <1>9
  <2> QED BY <1>1, <1>2, <1>3, <1>9, <1>11, <2>1 DEF IInv, ControlInv, Searching, Meets
<1> QED BY <1>2, <1>10, <1>12, <1>13, <1>14, <1>15 DEF IInv, FrameInv

LEMMA StayKeeps ==
  ASSUME IInv, Stay, UNCHANGED sygus PROVE IInv'
<1>1. /\ UNCHANGED <<setup, abstraction, frames>> /\ calls' = calls /\ goals' = goals /\ pc = "propagate"
      /\ pc' = pc /\ verdict' = verdict /\ reached' = reached /\ level' = level /\ todo' \subseteq todo
  BY DEF Stay, sygus, answer
<1>2. SetupInv' /\ ~Blind' /\ LitsInv' /\ opt' = opt /\ sys' = sys
  BY <1>1, SetupKeeps
<1>3. goals = {} /\ calls = <<>> /\ verdict = "NONE" /\ todo \subseteq frames[level]
  BY <1>1, PropagateFacts
<1>4. GenInv' /\ GoalInv' /\ CallsInv'
  BY <1>1, <1>3, RestKeeps DEF Resting
<1>5. FrameInv'
  BY <1>1, FrameInvKeeps DEF IInv
<1>6. CexInv'
  BY <1>1, <1>3, NoCex
<1>7. ControlInv'
  BY <1>1, <1>2, <1>3 DEF IInv, ControlInv, Searching, frontier, Meets
<1> QED BY <1>2, <1>4, <1>5, <1>6, <1>7 DEF IInv

LEMMA ProvedKeeps ==
  ASSUME IInv, Proved, UNCHANGED sygus PROVE IInv'
<1>1. /\ UNCHANGED <<setup, abstraction, frames>> /\ calls' = calls /\ goals' = goals /\ pc = "propagate"
      /\ pc' = "done" /\ verdict' = "TRUE" /\ reached' = reached
  BY DEF Proved, sygus
<1>2. SetupInv' /\ ~Blind' /\ LitsInv' /\ opt' = opt /\ sys' = sys
  BY <1>1, SetupKeeps
<1>3. goals = {} /\ calls = <<>> /\ reached >= 1
  BY <1>1, PropagateFacts
<1>4. GenInv' /\ GoalInv' /\ CallsInv'
  BY <1>1, <1>3, RestKeeps DEF Resting
<1>5. FrameInv'
  BY <1>1, FrameInvKeeps DEF IInv
<1>6. CexInv'
  BY <1>1, NoCex
<1>7. ControlInv'
  BY <1>1, <1>2, <1>3 DEF IInv, ControlInv, Searching, frontier, Meets
<1> QED BY <1>2, <1>4, <1>5, <1>6, <1>7 DEF IInv

LEMMA NextLevelKeeps ==
  ASSUME IInv, NextLevel, UNCHANGED sygus PROVE IInv'
<1>1. /\ UNCHANGED <<setup, abstraction, frames>> /\ calls' = calls /\ goals' = goals /\ pc = "propagate"
      /\ verdict' = verdict
      /\ IF level + 1 < frontier
         THEN level' = level + 1 /\ todo' = frames[level + 1] /\ pc' = pc /\ reached' = reached
         ELSE reached' = reached + 1 /\ pc' = "loop"
  BY DEF NextLevel, sygus, answer
<1>2. SetupInv' /\ ~Blind' /\ LitsInv' /\ opt' = opt /\ sys' = sys
  BY <1>1, SetupKeeps
<1>3. /\ goals = {} /\ calls = <<>> /\ verdict = "NONE" /\ reached >= 1 /\ reached \in Nat /\ frontier = reached + 1
      /\ level \in 1..frontier-1 /\ IsSeq(frames)
  BY <1>1, PropagateFacts
<1>4. GenInv' /\ GoalInv' /\ CallsInv'
  BY <1>1, <1>3, RestKeeps DEF Resting
<1>5. FrameInv'
  BY <1>1, <1>3, FrameInvKeeps DEF IInv
<1>6. CexInv'
  BY <1>1, <1>3, NoCex
<1>7. ControlInv'
  <2>1. frontier' = frontier /\ frames' = frames
    BY <1>1 DEF frontier
  <2>2. CASE level + 1 < frontier
    BY <1>1, <1>2, <1>3, <2>1, <2>2 DEF IInv, ControlInv, Searching, Meets
  <2>3. CASE ~(level + 1 < frontier)
    BY <1>1, <1>2, <1>3, <2>1, <2>3 DEF IInv, ControlInv, Searching, Meets
  <2> QED BY <2>2, <2>3
<1> QED BY <1>2, <1>4, <1>5, <1>6, <1>7 DEF IInv

----------------------------------------------------------------------------
(* Refinement.                                                             *)

LEMMA RefuteKeeps ==
  ASSUME IInv, Refute, UNCHANGED sygus PROVE IInv'
<1>1. /\ UNCHANGED <<setup, abstraction, frames>> /\ calls' = calls /\ goals' = goals /\ pc = "refine"
      /\ pc' = "done" /\ verdict' = "FALSE" /\ reached' = reached /\ cex' = cex
  BY DEF Refute, sygus
<1>2. SetupInv' /\ ~Blind' /\ LitsInv' /\ opt' = opt /\ sys' = sys
  BY <1>1, SetupKeeps
<1>3. goals = {} /\ calls = <<>>
  BY <1>1, RestFacts DEF Resting
<1>4. GenInv' /\ GoalInv' /\ CallsInv'
  BY <1>1, <1>3, RestKeeps DEF Resting
<1>5. FrameInv'
  BY <1>1, FrameInvKeeps DEF IInv
<1>6. CexInv'
  <2>1. UNCHANGED setup
    BY <1>1
  <2>2. (Abstract' <=> Abstract) /\ (Leads(cex') => Leads(cex)')
        /\ (Starts(cex[1]) => Starts(cex[1])') /\ (Leads(cex) => Leads(cex'))
    BY <1>1, <2>1, SameSetup
  <2> QED BY <1>1, <1>2, <2>2 DEF IInv, CexInv, Meets
<1>7. ControlInv'
  BY <1>1, <1>2, <1>3 DEF IInv, ControlInv, Searching, frontier, Meets
<1> QED BY <1>2, <1>4, <1>5, <1>6, <1>7 DEF IInv

\* What a refined abstraction keeps.
LEMMA RefinedKeeps ==
  ASSUME IInv, pc = "refine", pc' = "loop", UNCHANGED <<setup, frames, goals, reached, verdict, calls>>,
         lits \subseteq lits', rel' \subseteq rel, LitsInv'
  PROVE  IInv'
<1>1. UNCHANGED setup /\ sys' = sys /\ opt' = opt
  BY DEF setup
<1>2. SetupInv' /\ ~Blind' /\ (Abstract' <=> Abstract)
  BY <1>1, SameSetup DEF IInv
<1>3. goals = {} /\ calls = <<>> /\ verdict = "NONE"
  BY RestFacts DEF Resting, IInv, ControlInv
<1>4. GenInv' /\ GoalInv' /\ CallsInv'
  BY <1>3, RestKeeps DEF Resting
<1>5. frontier' = frontier /\ \A n : (Frame(n))' = Frame(n)
  BY <1>1 DEF Frame, frontier
<1>6. FrameInv'
  <2>1. StepsInv => StepsInv'
    BY <1>1, <1>5 DEF StepsInv
  <2>2. ClausesInv => ClausesInv'
    BY <1>2, <1>5 DEF ClausesInv
  <2> QED BY <2>1, <2>2 DEF IInv, FrameInv
<1>7. CexInv'
  BY <1>3, NoCex
<1>8. ControlInv'
  BY <1>1, <1>3, <1>5 DEF IInv, ControlInv, Searching, Meets
<1> QED BY <1>2, <1>4, <1>6, <1>7, <1>8 DEF IInv

LEMMA AbstractTransShrinks ==
  ASSUME NEW L, NEW M, L \subseteq M
  PROVE  AbstractTrans(M) \subseteq AbstractTrans(L)
<1> SUFFICES ASSUME NEW q \in AbstractTrans(M) PROVE q \in AbstractTrans(L)
  OBVIOUS
<1>1. PICK p \in sys.trans : q \in {p[1]} \X {u \in State : \A l \in M : u \in l <=> p[2] \in l}
  BY DEF AbstractTrans
<1>2. {u \in State : \A l \in M : u \in l <=> p[2] \in l} \subseteq {u \in State : \A l \in L : u \in l <=> p[2] \in l}
  OBVIOUS
<1>3. q \in {p[1]} \X {u \in State : \A l \in L : u \in l <=> p[2] \in l}
  BY <1>1, <1>2
<1> QED BY <1>3 DEF AbstractTrans

LEMMA RefineKeeps ==
  ASSUME IInv, Refine, UNCHANGED sygus PROVE IInv'
<1>1. /\ UNCHANGED <<setup, frames, goals, reached, calls>> /\ pc = "refine" /\ opt.engine = "ic3ia"
      /\ cex' = cex
  BY DEF Refine, sygus
<1>2. \/ verdict' = "UNKNOWN" /\ pc' = "done" /\ UNCHANGED abstraction
      \/ /\ \E R : lits' = lits \cup Signed(R)
         /\ rel' = AbstractTrans(lits') /\ pc' = "loop" /\ verdict' = verdict
  BY DEF Refine
<1>3. CASE verdict' = "UNKNOWN" /\ pc' = "done" /\ UNCHANGED abstraction
  <2>1. UNCHANGED <<setup, abstraction, frames>> /\ calls' = calls /\ goals' = goals
    BY <1>1, <1>3
  <2>2. SetupInv' /\ ~Blind' /\ LitsInv' /\ opt' = opt /\ sys' = sys
    BY <2>1, SetupKeeps
  <2>3. goals = {} /\ calls = <<>>
    BY <1>1, RestFacts DEF Resting
  <2>4. GenInv' /\ GoalInv' /\ CallsInv'
    BY <1>3, <2>1, <2>3, RestKeeps DEF Resting
  <2>5. FrameInv'
    BY <1>1, <2>1, FrameInvKeeps DEF IInv
  <2>6. CexInv'
    BY <1>3, NoCex
  <2>7. ControlInv'
    BY <1>1, <1>3, <2>1, <2>2, <2>3 DEF IInv, ControlInv, Searching, frontier, Meets
  <2> QED BY <2>2, <2>4, <2>5, <2>6, <2>7 DEF IInv
<1>4. CASE /\ \E R : lits' = lits \cup Signed(R)
           /\ rel' = AbstractTrans(lits') /\ pc' = "loop" /\ verdict' = verdict
  <2>1. sys' = sys /\ opt' = opt
    BY <1>1 DEF setup
  <2>2. lits \subseteq lits'
    BY <1>4
  <2>3. rel = AbstractTrans(lits) /\ FirstLiterals \subseteq lits
    BY <1>1 DEF IInv, LitsInv
  <2>4. rel' \subseteq rel
    BY <1>4, <2>2, <2>3, AbstractTransShrinks
  <2>5. (AbstractTrans(lits))' = AbstractTrans(lits')
    BY <2>1 DEF AbstractTrans
  <2>6. FirstLiterals' = FirstLiterals
    BY <2>1 DEF FirstLiterals, FirstPredicates, FirstTerms, Mined
  <2>7. LitsInv'
    BY <1>1, <1>4, <2>1, <2>2, <2>3, <2>5, <2>6 DEF LitsInv, Abstract
  <2> QED BY <1>1, <1>4, <2>2, <2>4, <2>7, RefinedKeeps
<1> QED BY <1>2, <1>3, <1>4

----------------------------------------------------------------------------
(* Functions defined by recursion over the steps of a trace.               *)

Steppers(U) == [Nat \X U -> U]
Recursive(f, U, A, G, N) ==
  /\ f \in [1..N -> U]
  /\ \A n \in 1..N : f[n] = IF n = 1 THEN A ELSE G[<<n, f[n-1]>>]

LEMMA RecursionExists ==
  ASSUME NEW U, NEW A \in U, NEW G \in Steppers(U), NEW N \in Nat
  PROVE  \E f : Recursive(f, U, A, G, N)
<1>0. G \in [Nat \X U -> U]
  BY DEF Steppers
<1> DEFINE Good(m) == \E f \in [1..m -> U] : \A n \in 1..m : f[n] = IF n = 1 THEN A ELSE G[<<n, f[n-1]>>]
           T == {m \in Nat : Good(m)}
<1>1. 0 \in T
  <2>1. [n \in 1..0 |-> A] \in [1..0 -> U]
    OBVIOUS
  <2>2. \A n \in 1..0 : FALSE
    OBVIOUS
  <2>3. Good(0)
    BY <2>1, <2>2
  <2> QED BY <2>3
<1>2. ASSUME NEW m \in T PROVE m + 1 \in T
  <2>1. PICK f \in [1..m -> U] : \A n \in 1..m : f[n] = IF n = 1 THEN A ELSE G[<<n, f[n-1]>>]
    OBVIOUS
  <2> DEFINE last == IF m = 0 THEN A ELSE G[<<m + 1, f[m]>>]
             g == [n \in 1..m+1 |-> IF n = m + 1 THEN last ELSE f[n]]
  <2>2. last \in U
    <3>1. CASE m = 0
      BY <3>1
    <3>2. CASE m # 0
      <4>1. m \in 1..m /\ m + 1 \in Nat
        BY <3>2
      <4> QED BY <1>0, <2>1, <3>2, <4>1
    <3> QED BY <3>1, <3>2
  <2>3. m \in Nat
    OBVIOUS
  <2> HIDE DEF T
  <2>4. g \in [1..m+1 -> U]
    <3> HIDE DEF last
    <3>1. \A n \in 1..m+1 : n = m + 1 \/ n \in 1..m
      BY <2>3
    <3> QED BY <2>1, <2>2, <3>1
  <2>5. \A n \in 1..m : g[n] = f[n]
    BY <2>3
  <2>6. g[m + 1] = last
    BY <2>3
  <2>7. ASSUME NEW n \in 1..m+1 PROVE g[n] = IF n = 1 THEN A ELSE G[<<n, g[n-1]>>]
    <3> HIDE DEF g
    <3>1. CASE n = m + 1 /\ m = 0
      BY <2>6, <3>1
    <3>2. CASE n = m + 1 /\ m # 0
      <4>1. n # 1 /\ n - 1 = m /\ m \in 1..m
        BY <2>3, <3>2
      <4>2. g[n] = G[<<m + 1, f[m]>>] /\ g[n-1] = f[m]
        BY <2>5, <2>6, <3>2, <4>1
      <4> QED BY <3>2, <4>1, <4>2
    <3>3. CASE n # m + 1
      <4>1. n \in 1..m /\ (n # 1 => n - 1 \in 1..m)
        BY <2>3, <3>3
      <4> QED BY <2>1, <2>5, <4>1
    <3> QED BY <3>1, <3>2, <3>3
  <2> HIDE DEF g
  <2>8. Good(m + 1)
    BY <2>4, <2>7
  <2> QED BY <2>3, <2>8 DEF T
<1>3. T = Nat
  <2> HIDE DEF Good
  <2>1. T \in SUBSET Nat
    OBVIOUS
  <2> HIDE DEF T
  <2> QED BY <1>1, <1>2, <2>1, NatSetInduction
<1>4. N \in T
  BY <1>3
<1> QED BY <1>4 DEF Recursive

\* A sequence of states, step by step in the sets of D.
IsPath(R, S, D, p) ==
  /\ p \in Seq(State) /\ Len(p) >= 1 /\ p[1] \in S
  /\ \A k \in 1..Len(p) : p[k] \in D[k]
  /\ \A k \in 1..Len(p)-1 : <<p[k], p[k+1]>> \in R

NextPaths(R, D, k, X) == UNION {{Append(p, u) : u \in {v \in D[k] : <<p[k-1], v>> \in R}} : p \in X}

\* f has the paths of each length up to n.
PathSets(f, R, S, D, n) ==
  \A k \in 1..n : f[k] = IF k = 1 THEN {<<s>> : s \in S \cap D[1]} ELSE NextPaths(R, D, k, f[k-1])

LEMMA PathExtends ==
  ASSUME NEW R, NEW S, NEW D, NEW k \in Nat, k > 1, D[k] \subseteq State
  PROVE  NextPaths(R, D, k, {p \in Seq(State) : Len(p) = k - 1 /\ IsPath(R, S, D, p)})
           = {p \in Seq(State) : Len(p) = k /\ IsPath(R, S, D, p)}
<1> DEFINE X == {p \in Seq(State) : Len(p) = k - 1 /\ IsPath(R, S, D, p)}
<1>1. ASSUME NEW p \in X, NEW u \in D[k], <<p[k-1], u>> \in R
      PROVE  Append(p, u) \in Seq(State) /\ Len(Append(p, u)) = k /\ IsPath(R, S, D, Append(p, u))
  <2> DEFINE q == Append(p, u)
  <2>1. u \in State /\ p \in Seq(State) /\ Len(p) = k - 1 /\ IsPath(R, S, D, p)
    OBVIOUS
  <2>2. q \in Seq(State) /\ Len(q) = k /\ q[k] = u /\ \A j \in 1..k-1 : q[j] = p[j]
    BY <2>1
  <2> HIDE DEF q, X
  <2>3. p[1] \in S /\ (\A j \in 1..k-1 : p[j] \in D[j]) /\ \A j \in 1..k-2 : <<p[j], p[j+1]>> \in R
    BY <2>1 DEF IsPath
  <2>4. q[1] \in S
    BY <2>2, <2>3
  <2>5. \A j \in 1..k : q[j] \in D[j]
    BY <2>2, <2>3
  <2>6. \A j \in 1..k-1 : <<q[j], q[j+1]>> \in R
    <3> TAKE j \in 1..k-1
    <3>1. CASE j = k - 1
      BY <1>1, <2>2, <3>1
    <3>2. CASE j # k - 1
      <4>1. j \in 1..k-2 /\ j \in 1..k-1 /\ j + 1 \in 1..k-1
        BY <3>2
      <4> QED BY <2>2, <2>3, <4>1
    <3> QED BY <3>1, <3>2
  <2>7. IsPath(R, S, D, q)
    BY <2>2, <2>4, <2>5, <2>6 DEF IsPath
  <2> QED BY <2>2, <2>7 DEF q
<1>2. ASSUME NEW q \in Seq(State), Len(q) = k, IsPath(R, S, D, q)
      PROVE  \E p \in X : \E u \in D[k] : <<p[k-1], u>> \in R /\ q = Append(p, u)
  <2> DEFINE p == [j \in 1..k-1 |-> q[j]]
  <2>1. \A j \in 1..k : q[j] \in State
    BY <1>2
  <2>2. p \in Seq(State) /\ Len(p) = k - 1 /\ \A j \in 1..k-1 : p[j] = q[j]
    <3>1. \A j \in 1..k-1 : q[j] \in State
      BY <2>1
    <3> QED BY <3>1
  <2> HIDE DEF p
  <2>3. q[1] \in S /\ (\A j \in 1..k : q[j] \in D[j]) /\ \A j \in 1..k-1 : <<q[j], q[j+1]>> \in R
    BY <1>2 DEF IsPath
  <2>4. IsPath(R, S, D, p)
    <3>1. p[1] \in S
      BY <2>2, <2>3
    <3>2. \A j \in 1..k-1 : p[j] \in D[j]
      BY <2>2, <2>3
    <3>3. \A j \in 1..k-2 : <<p[j], p[j+1]>> \in R
      BY <2>2, <2>3
    <3> QED BY <2>2, <3>1, <3>2, <3>3 DEF IsPath
  <2>5. q[k] \in State /\ q[k] \in D[k] /\ <<p[k-1], q[k]>> \in R
    BY <2>1, <2>2, <2>3
  <2>6. q = Append(p, q[k])
    <3> DEFINE r == Append(p, q[k])
    <3>1. r \in Seq(State) /\ Len(r) = k /\ r[k] = q[k] /\ \A j \in 1..k-1 : r[j] = p[j]
      BY <2>2, <2>5
    <3> HIDE DEF r
    <3>2. \A j \in 1..k : r[j] = q[j]
      BY <2>2, <3>1
    <3>3. r = q
      BY <1>2, <3>1, <3>2
    <3> QED BY <3>3 DEF r
  <2> QED BY <2>2, <2>4, <2>5, <2>6
<1> HIDE DEF X
<1>3. NextPaths(R, D, k, X) \subseteq {p \in Seq(State) : Len(p) = k /\ IsPath(R, S, D, p)}
  <2> SUFFICES ASSUME NEW q \in NextPaths(R, D, k, X)
               PROVE  q \in Seq(State) /\ Len(q) = k /\ IsPath(R, S, D, q)
    OBVIOUS
  <2>1. PICK p \in X : q \in {Append(p, u) : u \in {v \in D[k] : <<p[k-1], v>> \in R}}
    BY DEF NextPaths
  <2>2. PICK u \in D[k] : <<p[k-1], u>> \in R /\ q = Append(p, u)
    BY <2>1
  <2> QED BY <1>1, <2>2
<1>4. ASSUME NEW q \in Seq(State), Len(q) = k, IsPath(R, S, D, q)
      PROVE  q \in NextPaths(R, D, k, X)
  <2>1. PICK p \in X : \E u \in D[k] : <<p[k-1], u>> \in R /\ q = Append(p, u)
    BY <1>2, <1>4
  <2>2. PICK u \in D[k] : <<p[k-1], u>> \in R /\ q = Append(p, u)
    BY <2>1
  <2>3. q \in {Append(p, v) : v \in {w \in D[k] : <<p[k-1], w>> \in R}}
    BY <2>2
  <2> QED BY <2>3 DEF NextPaths
<1> QED BY <1>3, <1>4 DEF X

LEMMA PathsAre ==
  ASSUME NEW R, NEW S, NEW D, NEW n \in Nat, n >= 1, \A k \in 1..n : D[k] \subseteq State,
         NEW f, PathSets(f, R, S, D, n)
  PROVE  f[n] = {p \in Seq(State) : Len(p) = n /\ IsPath(R, S, D, p)}
<1>0. \A k \in 1..n : f[k] = IF k = 1 THEN {<<s>> : s \in S \cap D[1]} ELSE NextPaths(R, D, k, f[k-1])
  BY DEF PathSets
<1> DEFINE P(k) == {p \in Seq(State) : Len(p) = k /\ IsPath(R, S, D, p)}
           T == {k \in Nat : k + 1 <= n => f[k+1] = P(k+1)}
<1>1. f[1] = P(1)
  <2>1. f[1] = {<<s>> : s \in S \cap D[1]} /\ D[1] \subseteq State
    <3>1. 1 \in 1..n
      OBVIOUS
    <3> QED BY <1>0, <3>1
  <2>2. ASSUME NEW s \in S \cap D[1] PROVE <<s>> \in P(1)
    <3>1. s \in State
      BY <2>1
    <3>2. <<s>> \in Seq(State) /\ Len(<<s>>) = 1 /\ <<s>>[1] = s
      BY <3>1
    <3>3. \A k \in 1..1 : k = 1
      OBVIOUS
    <3>4. \A k \in 1..0 : FALSE
      OBVIOUS
    <3>5. IsPath(R, S, D, <<s>>)
      BY <3>2, <3>3, <3>4 DEF IsPath
    <3> QED BY <3>2, <3>5
  <2>3. ASSUME NEW p \in P(1) PROVE \E s \in S \cap D[1] : p = <<s>>
    <3>1. p \in Seq(State) /\ Len(p) = 1 /\ p[1] \in S /\ p[1] \in D[1]
      BY DEF IsPath
    <3>2. p = <<p[1]>>
      BY <3>1
    <3> QED BY <3>1, <3>2
  <2> HIDE DEF P
  <2> QED BY <2>1, <2>2, <2>3
<1>2. 0 \in T
  <2> HIDE DEF P
  <2> QED BY <1>1
<1>3. ASSUME NEW k \in T PROVE k + 1 \in T
  <2> SUFFICES ASSUME (k+1)+1 <= n PROVE f[(k+1)+1] = P((k+1)+1)
    OBVIOUS
  <2> DEFINE m == (k+1)+1
  <2>1. m \in 1..n /\ m # 1 /\ m > 1 /\ m - 1 = k + 1 /\ m \in Nat
    OBVIOUS
  <2> HIDE DEF P
  <2>2. f[k+1] = P(k+1)
    OBVIOUS
  <2> HIDE DEF T, m
  <2>3. f[m] = NextPaths(R, D, m, P(m-1))
    BY <1>0, <2>1, <2>2
  <2>4. NextPaths(R, D, m, P(m-1)) = P(m)
    <3>1. D[m] \subseteq State
      BY <2>1
    <3>2. P(m-1) = {p \in Seq(State) : Len(p) = m - 1 /\ IsPath(R, S, D, p)}
      BY DEF P
    <3>3. P(m) = {p \in Seq(State) : Len(p) = m /\ IsPath(R, S, D, p)}
      BY DEF P
    <3>4. NextPaths(R, D, m, {p \in Seq(State) : Len(p) = m - 1 /\ IsPath(R, S, D, p)})
          = {p \in Seq(State) : Len(p) = m /\ IsPath(R, S, D, p)}
      BY ONLY <2>1, <3>1, PathExtends
    <3> QED BY ONLY <3>2, <3>3, <3>4
  <2> QED BY <2>3, <2>4 DEF m
<1>4. T = Nat
  <2> HIDE DEF P
  <2>1. T \in SUBSET Nat
    OBVIOUS
  <2> HIDE DEF T
  <2> QED BY <1>2, <1>3, <2>1, NatSetInduction
<1> HIDE DEF P
<1>5. n - 1 \in T
  <2> HIDE DEF T
  <2> QED BY <1>4
<1>6. f[n] = P(n)
  BY <1>5
<1> QED BY <1>6 DEF P

\* There is such a function.
LEMMA PathsExist ==
  ASSUME NEW R, NEW S, NEW D, NEW n \in Nat, \A k \in 1..n : D[k] \subseteq State
  PROVE  \E f : f = [k \in 1..n |-> f[k]] /\ PathSets(f, R, S, D, n)
<1> DEFINE U == SUBSET Seq(State)
           A == {<<s>> : s \in S \cap State \cap D[1]}
           E(k) == D[k] \cap State
           Longer(k, X) == UNION {{Append(p, u) : u \in {v \in E(k) : <<p[k-1], v>> \in R}} : p \in X}
           G == [x \in Nat \X U |-> Longer(x[1], x[2])]
<1>1. A \in U
  <2>1. \A s \in State : <<s>> \in Seq(State)
    OBVIOUS
  <2> QED BY <2>1
<1>2. G \in [Nat \X U -> U]
  <2>1. ASSUME NEW x \in Nat \X U PROVE G[x] \in U
    <3> DEFINE Of(p) == {Append(p, u) : u \in {v \in E(x[1]) : <<p[x[1]-1], v>> \in R}}
    <3>1. x[2] \subseteq Seq(State)
      OBVIOUS
    <3>2. ASSUME NEW p \in x[2], NEW q \in Of(p) PROVE q \in Seq(State)
      <4>1. PICK u \in E(x[1]) : q = Append(p, u)
        OBVIOUS
      <4>2. p \in Seq(State) /\ u \in State
        BY <3>1
      <4> QED BY <4>1, <4>2
    <3>3. Longer(x[1], x[2]) = UNION {Of(p) : p \in x[2]}
      OBVIOUS
    <3> HIDE DEF Of, Longer
    <3>4. G[x] = Longer(x[1], x[2])
      OBVIOUS
    <3> HIDE DEF G
    <3> QED BY <3>2, <3>3, <3>4
  <2>2. G = [x \in Nat \X U |-> G[x]]
    OBVIOUS
  <2> HIDE DEF G, U
  <2> QED BY <2>1, <2>2
<1>3. PICK f \in [1..n -> U] : \A k \in 1..n : f[k] = IF k = 1 THEN A ELSE G[<<k, f[k-1]>>]
  <2> HIDE DEF U, A, G
  <2>1. G \in Steppers(U)
    BY <1>2 DEF Steppers
  <2>2. \E f : Recursive(f, U, A, G, n)
    BY <1>1, <2>1, RecursionExists
  <2> QED BY <2>2 DEF Recursive
<1>4. ASSUME NEW k \in 1..n, k # 1 PROVE G[<<k, f[k-1]>>] = NextPaths(R, D, k, f[k-1])
  <2>1. k - 1 \in 1..n /\ f[k-1] \in U /\ k \in Nat
    BY <1>4
  <2>2. <<k, f[k-1]>> \in Nat \X U
    BY <2>1
  <2>3. E(k) = D[k]
    OBVIOUS
  <2> HIDE DEF Longer
  <2>4. G[<<k, f[k-1]>>] = Longer(k, f[k-1])
    BY <2>2
  <2> HIDE DEF G, E
  <2> QED BY <2>3, <2>4 DEF NextPaths, Longer
<1>5. n >= 1 => A = {<<s>> : s \in S \cap D[1]}
  OBVIOUS
<1>6. \A k \in 1..n : n >= 1
  OBVIOUS
<1> HIDE DEF A, G, U
<1>7. \A k \in 1..n : f[k] = IF k = 1 THEN {<<s>> : s \in S \cap D[1]} ELSE NextPaths(R, D, k, f[k-1])
  BY <1>3, <1>4, <1>5, <1>6
<1> QED BY <1>3, <1>7 DEF PathSets

Times(C, K, n) == [k \in 1..n |-> IF k \in K THEN Denotes(C[k]) ELSE State]

\* Those of n states.
Paths(R, S, D, n) == {p \in Seq(State) : Len(p) = n /\ IsPath(R, S, D, p)}

LEMMA FollowsAre ==
  ASSUME NEW R, NEW S, NEW C, NEW K, NEW n \in Nat, n >= 1
  PROVE  Follows(R, S, C, K, n) = {p \in Seq(State) : Len(p) = n /\ IsPath(R, S, Times(C, K, n), p)}
<1> DEFINE at(k) == IF k \in K THEN Denotes(C[k]) ELSE State
           Body(f) == [k \in 1..n |->
             IF k = 1 THEN {<<s>> : s \in S \cap at(1)}
             ELSE UNION {{Append(p, u) : u \in {v \in at(k) : <<p[k-1], v>> \in R}} : p \in f[k-1]}]
           prefix == CHOOSE f : f = Body(f)
           D == Times(C, K, n)
<1>1. Follows(R, S, C, K, n) = prefix[n]
  BY DEF Follows
<1>2. \A k \in 1..n : D[k] = at(k) /\ D[k] \subseteq State
  BY DEF Times, Denotes
<1>3. 1 \in 1..n
  OBVIOUS
<1> HIDE DEF D, at
<1>4. PICK f : f = [k \in 1..n |-> f[k]] /\ PathSets(f, R, S, D, n)
  BY <1>2, PathsExist
<1>5. f = Body(f)
  <2>1. \A k \in 1..n : f[k] = IF k = 1 THEN {<<s>> : s \in S \cap at(1)}
             ELSE UNION {{Append(p, u) : u \in {v \in at(k) : <<p[k-1], v>> \in R}} : p \in f[k-1]}
    <3> TAKE k \in 1..n
    <3>1. f[k] = IF k = 1 THEN {<<s>> : s \in S \cap D[1]} ELSE NextPaths(R, D, k, f[k-1])
      BY <1>4 DEF PathSets
    <3>2. D[1] = at(1) /\ D[k] = at(k)
      BY <1>2, <1>3
    <3> QED BY <3>1, <3>2 DEF NextPaths
  <2> QED BY <1>4, <2>1
<1>6. prefix = Body(prefix)
  <2> HIDE DEF Body
  <2> QED BY <1>5
<1> HIDE DEF prefix
<1>7. PathSets(prefix, R, S, D, n)
  <2> SUFFICES ASSUME NEW k \in 1..n
               PROVE  prefix[k] = IF k = 1 THEN {<<s>> : s \in S \cap D[1]} ELSE NextPaths(R, D, k, prefix[k-1])
    BY DEF PathSets
  <2>1. prefix[k] = IF k = 1 THEN {<<s>> : s \in S \cap at(1)}
                    ELSE UNION {{Append(p, u) : u \in {v \in at(k) : <<p[k-1], v>> \in R}} : p \in prefix[k-1]}
    BY <1>6
  <2>2. D[1] = at(1) /\ D[k] = at(k)
    BY <1>2, <1>3
  <2> HIDE DEF Body
  <2> QED BY <2>1, <2>2 DEF NextPaths
<1>8. prefix[n] = {p \in Seq(State) : Len(p) = n /\ IsPath(R, S, D, p)}
  <2> HIDE DEF Body
  <2> QED BY <1>2, <1>7, PathsAre
<1> QED BY <1>1, <1>8 DEF D

LEMMA ExecutionsAre ==
  ASSUME NEW n \in Nat, n >= 1, NEW C, Len(C) = n, \A k \in 1..n : C[k] \subseteq State
  PROVE  Executions(C) = {p \in Seq(State) : /\ Len(p) = n /\ IsPath(sys.trans, sys.init, C, p)
                                             /\ p[n] \in sys.bad}
<1> DEFINE Body(f) == [k \in 1..Len(C) |->
             IF k = 1 THEN {<<s>> : s \in C[1] \cap sys.init}
             ELSE UNION {{Append(p, s) : s \in {t \in C[k] : <<p[k-1], t>> \in sys.trans}} : p \in f[k-1]}]
           prefix == CHOOSE f : f = Body(f)
<1>1. Executions(C) = {p \in prefix[Len(C)] : p[Len(C)] \in sys.bad}
  BY DEF Executions
<1>2. C[1] \cap sys.init = sys.init \cap C[1]
  OBVIOUS
<1>4. PICK f : f = [k \in 1..n |-> f[k]] /\ PathSets(f, sys.trans, sys.init, C, n)
  BY PathsExist
<1>5. f = Body(f)
  <2>1. \A k \in 1..n : f[k] = IF k = 1 THEN {<<s>> : s \in C[1] \cap sys.init}
             ELSE UNION {{Append(p, s) : s \in {t \in C[k] : <<p[k-1], t>> \in sys.trans}} : p \in f[k-1]}
    BY <1>2, <1>4 DEF NextPaths, PathSets
  <2> QED BY <1>4, <2>1
<1>6. prefix = Body(prefix)
  <2> HIDE DEF Body
  <2> QED BY <1>5
<1> HIDE DEF prefix
<1>7. PathSets(prefix, sys.trans, sys.init, C, n)
  <2>1. \A k \in 1..n : prefix[k] = IF k = 1 THEN {<<s>> : s \in C[1] \cap sys.init}
             ELSE UNION {{Append(p, s) : s \in {t \in C[k] : <<p[k-1], t>> \in sys.trans}} : p \in prefix[k-1]}
    BY <1>6
  <2> HIDE DEF Body
  <2> QED BY <1>2, <2>1 DEF NextPaths, PathSets
<1>8. prefix[n] = {p \in Seq(State) : Len(p) = n /\ IsPath(sys.trans, sys.init, C, p)}
  <2> HIDE DEF Body
  <2> QED BY <1>7, PathsAre
<1> QED BY <1>1, <1>8
LEMMA FollowsPaths ==
  ASSUME NEW R, NEW S, NEW C, NEW K, NEW n \in Nat, n >= 1
  PROVE  Follows(R, S, C, K, n) = Paths(R, S, Times(C, K, n), n)
BY FollowsAre DEF Paths


----------------------------------------------------------------------------
(* What IC3SA learns rules out no transition.                              *)

LEMMA WithFacts ==
  ASSUME NEW F, F \subseteq Symbols, NEW s \in State, NEW t \in State
  PROVE  /\ With(F, s, t) \in State
         /\ SameOn(F, With(F, s, t), t) /\ SameOn(Symbols \ F, With(F, s, t), s)
<1>1. \E r \in State : SameOn(F, r, t) /\ SameOn(Symbols \ F, r, s)
  BY SymbolsAssumption
<1> QED BY <1>1 DEF With

LEMMA WithItself ==
  ASSUME NEW F, F \subseteq Symbols, NEW s \in State
  PROVE  With(F, s, s) = s
<1>1. With(F, s, s) \in State /\ SameOn(F, With(F, s, s), s) /\ SameOn(Symbols \ F, With(F, s, s), s)
  BY WithFacts
<1>2. SameOn(Symbols, With(F, s, s), s)
  BY <1>1 DEF SameOn
<1> QED BY <1>1, <1>2, SymbolsAssumption

LEMMA StepIs ==
  ASSUME Functional(sys), NEW s \in State, NEW t \in State
  PROVE  /\ Step(sys.trans, sys.free, s, t) \in State
         /\ <<s, Step(sys.trans, sys.free, s, t)>> \in sys.trans
         /\ SameOn(sys.free, Step(sys.trans, sys.free, s, t), t)
<1>1. \E u \in State : <<s, u>> \in sys.trans /\ SameOn(sys.free, u, t)
  BY DEF Functional
<1> QED BY <1>1 DEF Step

LEMMA UnrolledIs ==
  ASSUME Functional(sys), NEW n \in Nat, n >= 1, NEW w, w = [k \in 1..n |-> w[k]],
         \A k \in 1..n : w[k] \in State, NEW s \in State
  PROVE  \E u \in [1..n -> State] :
           /\ Unrolled(sys.trans, sys.free, s, w) = u
           /\ \A k \in 1..n-1 : <<u[k], u[k+1]>> \in sys.trans
<1> DEFINE first == With(sys.free, s, w[1])
           Body(f) == [k \in 1..Len(w) |-> IF k = 1 THEN first ELSE Step(sys.trans, sys.free, f[k-1], w[k])]
           G == [x \in Nat \X State |-> IF x[1] \in 1..n THEN Step(sys.trans, sys.free, x[2], w[x[1]]) ELSE x[2]]
<1>1. Len(w) = n /\ 1 \in 1..n
  BY FunctionIsSeq
<1>2. sys.free \subseteq Symbols
  BY DEF Functional
<1>3. first \in State
  BY <1>1, <1>2, WithFacts
<1>4. G \in Steppers(State)
  <2>1. ASSUME NEW x \in Nat \X State PROVE G[x] \in State
    <3>1. x[1] \in Nat /\ x[2] \in State
      OBVIOUS
    <3>2. CASE x[1] \in 1..n
      <4>1. Step(sys.trans, sys.free, x[2], w[x[1]]) \in State
        BY <3>1, <3>2, StepIs
      <4> QED BY <3>2, <4>1
    <3>3. CASE x[1] \notin 1..n
      BY <3>1, <3>3
    <3> QED BY <3>2, <3>3
  <2>2. G = [x \in Nat \X State |-> G[x]]
    OBVIOUS
  <2> HIDE DEF G
  <2> QED BY <2>1, <2>2 DEF Steppers
<1>5. PICK f : Recursive(f, State, first, G, n)
  <2> HIDE DEF first, G
  <2> QED BY <1>3, <1>4, RecursionExists
<1>6. f \in [1..n -> State] /\ \A k \in 1..n : f[k] = IF k = 1 THEN first ELSE G[<<k, f[k-1]>>]
  <2> HIDE DEF first, G
  <2> QED BY <1>5 DEF Recursive
<1> HIDE DEF first
<1>7. f = Body(f)
  <2>1. ASSUME NEW k \in 1..n PROVE f[k] = IF k = 1 THEN first ELSE Step(sys.trans, sys.free, f[k-1], w[k])
    <3>1. CASE k = 1
      BY <1>6, <3>1
    <3>2. CASE k # 1
      <4>1. k - 1 \in 1..n /\ f[k-1] \in State /\ k \in Nat
        BY <1>6, <3>2
      <4>2. G[<<k, f[k-1]>>] = Step(sys.trans, sys.free, f[k-1], w[k])
        BY <4>1
      <4> HIDE DEF G
      <4> QED BY <1>6, <3>2, <4>2
    <3> QED BY <3>1, <3>2
  <2> HIDE DEF G
  <2> QED BY <1>1, <1>6, <2>1
<1> HIDE DEF G
<1> DEFINE state == CHOOSE f_1 : f_1 = Body(f_1)
<1>8. state = Body(state)
  <2> HIDE DEF Body
  <2> QED BY <1>7
<1>9. Unrolled(sys.trans, sys.free, s, w) = state
  BY DEF Unrolled, first
<1> HIDE DEF state
<1>10. state = [k \in 1..n |-> state[k]]
       /\ \A k \in 1..n : state[k] = IF k = 1 THEN first ELSE Step(sys.trans, sys.free, state[k-1], w[k])
  BY <1>1, <1>8
<1> HIDE DEF Body
<1>11. \A k \in 1..n : state[k] \in State
  <2> DEFINE T == {k \in Nat : k + 1 <= n => state[k+1] \in State}
  <2>1. 0 \in T
    <3>1. state[1] = IF 1 = 1 THEN first ELSE Step(sys.trans, sys.free, state[1-1], w[1])
      BY <1>1, <1>10
    <3>2. 0 + 1 = 1 /\ state[1] \in State
      BY <1>3, <3>1
    <3> QED BY <3>2
  <2>2. ASSUME NEW k \in T PROVE k + 1 \in T
    <3> SUFFICES ASSUME (k + 1) + 1 <= n PROVE state[(k+1)+1] \in State
      OBVIOUS
    <3>1. state[k+1] \in State /\ (k+1)+1 \in 1..n /\ (k+1)+1 # 1 /\ ((k+1)+1)-1 = k+1
      OBVIOUS
    <3>2. state[(k+1)+1] = Step(sys.trans, sys.free, state[k+1], w[(k+1)+1])
      BY <1>10, <3>1
    <3> QED BY <3>1, <3>2, StepIs
  <2>3. T = Nat
    <3>1. T \in SUBSET Nat
      OBVIOUS
    <3> HIDE DEF T
    <3> QED BY <2>1, <2>2, <3>1, NatSetInduction
  <2>4. ASSUME NEW k \in 1..n PROVE state[k] \in State
    <3>1. k - 1 \in Nat /\ (k-1)+1 = k /\ k <= n
      OBVIOUS
    <3> QED BY <2>3, <3>1
  <2> QED BY <2>4
<1>12. ASSUME NEW k \in 1..n-1 PROVE <<state[k], state[k+1]>> \in sys.trans
  <2>1. k \in 1..n /\ k + 1 \in 1..n /\ k + 1 # 1 /\ (k+1)-1 = k
    OBVIOUS
  <2>2. state[k+1] = Step(sys.trans, sys.free, state[k], w[k+1])
    BY <1>10, <2>1
  <2> QED BY <1>11, <2>1, <2>2, StepIs
<1> QED BY <1>9, <1>10, <1>11, <1>12

LEMMA PredicatesHold ==
  ASSUME NEW S, NEW C, NEW c, NEW run, NEW s \in State, s \in Denotes(PredicatesAt(S, C, c, run))
  PROVE  /\ 0 \in c => run[s][1] \in S
         /\ \A k \in c \ {0} : \A l \in C[k] : run[s][k] \in l
<1> DEFINE P == PredicatesAt(S, C, c, run)
           Held(k) == {{r \in State : run[r][k] \in l} : l \in C[k]}
           Starting == {r \in State : run[r][1] \in S}
<1>1. P = (UNION {Held(k) : k \in c \ {0}}) \cup IF 0 \in c THEN {Starting} ELSE {}
  BY DEF PredicatesAt
<1>2. \A l \in P : s \in l
  BY DEF Denotes
<1> HIDE DEF P
<1>3. ASSUME 0 \in c PROVE run[s][1] \in S
  <2>1. Starting \in P
    <3> HIDE DEF Starting, Held
    <3> QED BY <1>1, <1>3
  <2> QED BY <1>2, <2>1
<1>4. ASSUME NEW k \in c \ {0}, NEW l \in C[k] PROVE run[s][k] \in l
  <2>1. {r \in State : run[r][k] \in l} \in Held(k)
    OBVIOUS
  <2>2. {r \in State : run[r][k] \in l} \in P
    <3> HIDE DEF Held
    <3> QED BY <1>1, <2>1
  <2> QED BY <1>2, <2>2
<1> QED BY <1>3, <1>4

\* A functional lemma holds of no state: a state of which it did would have an
\* unrolling that satisfies the cubes of its core.
LEMMA FunctionalLost ==
  ASSUME Functional(sys), NEW S, S \subseteq State, NEW C, IsSeq(C), Len(C) >= 1, Meets(Denotes(C[1]), S),
         NEW L \in FunctionalLemmas(sys.trans, sys.free, S, C), sys.trans \subseteq State \X State
  PROVE  L.lost = {}
<1> DEFINE R == sys.trans
           F == sys.free
           n == Shortest(R, S, C)
           cores == {K \in SUBSET (0..n) : Follows(R, IF 0 \in K THEN S ELSE State, C, K, n) = {}}
           any == CHOOSE s \in State : TRUE
           inputs == {[k \in 1..n-2 |-> With(F, any, q[k])] : q \in Follows(R, S, C, 1..n-1, n-1)}
           runs == {[s \in State |-> Unrolled(R, F, s, Inputs(w, s, n))] : w \in inputs}
           Of(c, run) == {Lemma(P, TermsAt(C, c, run), {t \in R : t[1] \in Denotes(P)}) :
                            P \in {PredicatesAt(S, C, c, run)}}
<1>0. Len(C) \in Nat /\ DOMAIN C = 1..Len(C)
  BY SeqLen
<1>1. Spurious(R, S, C) /\ L \in UNION {UNION {Of(p[1], p[2]) : p \in {c} \X runs} : c \in cores}
  <2>1. CASE Spurious(R, S, C)
    BY <2>1 DEF FunctionalLemmas
  <2>2. CASE ~Spurious(R, S, C)
    BY <2>2 DEF FunctionalLemmas
  <2> QED BY <2>1, <2>2
<1>2. PICK c \in cores, run \in runs : L \in Of(c, run)
  <2> HIDE DEF cores, runs, Of
  <2>1. PICK c \in cores : L \in UNION {Of(p[1], p[2]) : p \in {c} \X runs}
    BY <1>1
  <2>2. PICK p \in {c} \X runs : L \in Of(p[1], p[2])
    BY <2>1
  <2>3. p[1] = c /\ p[2] \in runs
    OBVIOUS
  <2> QED BY <2>2, <2>3
<1>3. n \in 1..Len(C) /\ n > 1
  <2> DEFINE T == {m \in Nat : m >= 1 /\ m <= Len(C) /\ Follows(R, S, C, 1..m, m) = {}}
  <2>1. Len(C) \in T
    BY <1>0, <1>1 DEF Spurious
  <2>2. PICK m \in T : \A k \in T : m <= k
    <3>1. T \in SUBSET Nat /\ T # {}
      BY <2>1
    <3> HIDE DEF T
    <3> QED BY <3>1, LeastNat
  <2>3. m > 1 => Follows(R, S, C, 1..m-1, m-1) # {}
    <3> SUFFICES ASSUME m > 1, Follows(R, S, C, 1..m-1, m-1) = {} PROVE FALSE
      OBVIOUS
    <3>1. m - 1 \in T
      OBVIOUS
    <3>2. m <= m - 1
      BY <2>2, <3>1
    <3> QED BY <3>2
  <2>4. m \in DOMAIN C /\ Follows(R, S, C, 1..m, m) = {}
    BY <1>0
  <2>5. n \in DOMAIN C /\ Follows(R, S, C, 1..n, n) = {}
    BY <2>3, <2>4 DEF Shortest
  <2>6. n # 1
    <3> SUFFICES ASSUME n = 1 PROVE FALSE
      OBVIOUS
    <3>1. PICK s : s \in Denotes(C[1]) /\ s \in S
      BY DEF Meets
    <3>2. s \in State
      BY <3>1
    <3>3. n \in Nat /\ n >= 1 /\ 1..n = {1} /\ 1..n-1 = {}
      OBVIOUS
    <3>4. <<s>> \in Seq(State) /\ Len(<<s>>) = n /\ <<s>>[1] = s
      BY <3>2
    <3> HIDE DEF n
    <3>5. Times(C, 1..n, n)[1] = Denotes(C[1])
      BY <3>3 DEF Times
    <3>6. IsPath(R, S, Times(C, 1..n, n), <<s>>)
      BY <3>1, <3>3, <3>4, <3>5 DEF IsPath
    <3>7. Follows(R, S, C, 1..n, n) = Paths(R, S, Times(C, 1..n, n), n)
      BY <3>3, FollowsPaths
    <3>8. <<s>> \in Follows(R, S, C, 1..n, n)
      BY <3>4, <3>6, <3>7 DEF Paths
    <3> QED BY <2>5, <3>8
  <2> QED BY <1>0, <2>5, <2>6
<1> SUFFICES ASSUME NEW t \in L.lost PROVE FALSE
  OBVIOUS
<1> DEFINE P == PredicatesAt(S, C, c, run)
<1>4. t \in R /\ t[1] \in Denotes(P)
  BY <1>2 DEF Lemma
<1>5. PICK s \in State : s \in Denotes(P)
  BY <1>4 DEF Denotes
<1>6. PICK q \in Follows(R, S, C, 1..n-1, n-1) :
        run = [r \in State |-> Unrolled(R, F, r, Inputs([k \in 1..n-2 |-> With(F, any, q[k])], r, n))]
  <2> HIDE DEF n, any, inputs, Of, cores, P
  <2>1. run \in runs
    BY <1>2
  <2>2. PICK w \in inputs : run = [r \in State |-> Unrolled(R, F, r, Inputs(w, r, n))]
    BY <2>1
  <2>3. PICK q \in Follows(R, S, C, 1..n-1, n-1) : w = [k \in 1..n-2 |-> With(F, any, q[k])]
    BY <2>2 DEF inputs
  <2> QED BY <2>2, <2>3
<1> HIDE DEF n, inputs, runs, Of
<1>7. \A k \in 1..n-1 : q[k] \in State
  <2>1. n - 1 \in Nat /\ n - 1 >= 1
    BY <1>3
  <2>2. q \in Seq(State) /\ Len(q) = n - 1
    BY <2>1, FollowsAre
  <2> QED BY <2>2
<1>8. any \in State
  BY <1>5
<1> HIDE DEF any
<1> DEFINE v == [k \in 1..n-2 |-> With(F, any, q[k])]
           w == Inputs(v, s, n)
<1>9. w = [k \in 1..n |-> w[k]] /\ \A k \in 1..n : w[k] \in State
  <2>1. w = [k \in 1..n |-> IF k <= n - 2 THEN v[k] ELSE s]
    BY DEF Inputs
  <2>2. \A k \in 1..n-2 : v[k] = With(F, any, q[k]) /\ With(F, any, q[k]) \in State
    <3>1. \A k \in 1..n-2 : k \in 1..n-1
      BY <1>3
    <3>2. F \subseteq Symbols
      BY DEF Functional
    <3> QED BY <1>7, <1>8, <3>1, <3>2, WithFacts
  <2> HIDE DEF v, w
  <2>3. \A k \in 1..n : k <= n - 2 => k \in 1..n-2
    BY <1>3
  <2> QED BY <1>3, <2>1, <2>2, <2>3
<1>10. PICK u \in [1..n -> State] : Unrolled(R, F, s, w) = u /\ \A k \in 1..n-1 : <<u[k], u[k+1]>> \in R
  <2>1. n \in Nat /\ n >= 1
    BY <1>3
  <2> HIDE DEF w
  <2> QED BY <1>9, <2>1, UnrolledIs
<1>11. run[s] = u
  BY <1>6, <1>10
<1>12. u \in Seq(State) /\ Len(u) = n
  BY <1>3, <1>10
<1> DEFINE S0 == IF 0 \in c THEN S ELSE State
<1>13. /\ 0 \in c => run[s][1] \in S
       /\ \A k \in c \ {0} : \A l \in C[k] : run[s][k] \in l
  BY <1>5, PredicatesHold
<1> HIDE DEF P
<1>14. u[1] \in S0
  <2>1. u[1] \in State
    BY <1>3, <1>10
  <2> QED BY <1>11, <1>13, <2>1
<1>15. \A k \in 1..n : u[k] \in Times(C, c, n)[k]
  <2> TAKE k \in 1..n
  <2>1. u[k] \in State
    BY <1>10
  <2>2. CASE k \in c
    <3>1. k \in c \ {0}
      BY <2>2
    <3> QED BY <1>11, <1>13, <2>1, <2>2, <3>1 DEF Times, Denotes
  <2>3. CASE k \notin c
    BY <2>1, <2>3 DEF Times
  <2> QED BY <2>2, <2>3
<1>16. u \in Follows(R, S0, C, c, n)
  <2>1. n \in Nat /\ n >= 1
    BY <1>3
  <2>2. IsPath(R, S0, Times(C, c, n), u)
    BY <1>10, <1>12, <1>14, <1>15, <2>1 DEF IsPath
  <2> HIDE DEF S0
  <2> QED BY <1>12, <2>1, <2>2, FollowsAre
<1>17. Follows(R, S0, C, c, n) = {}
  OBVIOUS
<1> QED BY <1>16, <1>17

\* What a stuck path of values teaches rules out nothing: the values that were
\* to come next are among those the step can have.
LEMMA ValueLost ==
  ASSUME Functional(sys), NEW C, NEW p \in Seq(State), Len(p) >= 1,
         NEW L \in ValueLemmas(sys.trans, sys.free, C, p)
  PROVE  L.lost = {}
<1> DEFINE R == sys.trans
           F == sys.free
           n == Len(p) + 1
           s == p[n - 1]
           lost(X, K, u) ==
             {q \in R : /\ SameOn(X, q[1], u)
                        /\ n \in K => q[1] \in Denotes(C[n])
                        /\ n + 1 \in K => q[2] \in Denotes(C[n+1])}
           all == Images(R, F, s)
           cores == {c \in (SUBSET (Symbols \ F)) \X (SUBSET {n, n+1}) : \A u \in all : lost(c[1], c[2], u) = {}}
           next == Step(R, F, s, s)
<1>1. \E c \in cores : L.lost = lost(c[1], c[2], next)
  BY DEF ValueLemmas, Lemma
<1>2. s \in State /\ F \subseteq Symbols
  <2>1. n - 1 \in 1..Len(p)
    OBVIOUS
  <2> QED BY <2>1 DEF Functional
<1>3. next \in all
  <2>1. With(F, s, s) = s
    BY <1>2, WithItself
  <2>2. next = Step(R, F, With(F, s, s), s)
    BY <2>1
  <2> HIDE DEF next, s
  <2> QED BY <1>2, <2>2 DEF Images
<1> HIDE DEF next, all, lost
<1> QED BY <1>1, <1>3

\* The states of C[k] from which a step leads into C[k+1].
Onward(R, C, k) == {r \in Denotes(C[k]) : \E u \in Denotes(C[k+1]) : <<r, u>> \in R}

\* A trace followed by values as far as that goes.
IsValuePath(R, F, S, C, q) ==
  /\ q \in Seq(State) /\ Len(q) >= 1 /\ q[1] \in S
  /\ \A k \in 1..Len(q) : q[k] \in Onward(R, C, k)
  /\ \A k \in 1..Len(q)-1 : q[k+1] \in Among(F, Images(R, F, q[k]))

NextValues(R, F, C, k, p) == Among(F, Images(R, F, p[k-1])) \cap Onward(R, C, k)
LongerValues(R, F, C, k, p) ==
  IF Len(p) < k - 1 \/ NextValues(R, F, C, k, p) = {} THEN {p}
  ELSE {Append(p, r) : r \in NextValues(R, F, C, k, p)}

LEMMA ValuesExtend ==
  ASSUME NEW R, NEW F, NEW S, NEW C, NEW k \in Nat, k >= 2, NEW p, IsValuePath(R, F, S, C, p), Len(p) <= k - 1,
         NEW q \in LongerValues(R, F, C, k, p)
  PROVE  IsValuePath(R, F, S, C, q) /\ Len(q) <= k
<1>1. p \in Seq(State) /\ Len(p) \in Nat
  BY DEF IsValuePath
<1>2. CASE q = p
  BY <1>1, <1>2
<1>3. CASE q # p
  <2>1. Len(p) = k - 1 /\ \E r \in NextValues(R, F, C, k, p) : q = Append(p, r)
    BY <1>1, <1>3 DEF LongerValues
  <2>2. PICK r \in NextValues(R, F, C, k, p) : q = Append(p, r)
    BY <2>1
  <2>3. r \in Among(F, Images(R, F, p[k-1])) /\ r \in Onward(R, C, k) /\ r \in State
    BY DEF NextValues, Among
  <2>4. q \in Seq(State) /\ Len(q) = k /\ q[k] = r /\ \A j \in 1..k-1 : q[j] = p[j]
    BY <1>1, <2>1, <2>2, <2>3
  <2>5. /\ p[1] \in S /\ \A j \in 1..k-1 : p[j] \in Onward(R, C, j)
        /\ \A j \in 1..k-2 : p[j+1] \in Among(F, Images(R, F, p[j]))
    BY <2>1 DEF IsValuePath
  <2>6. \A j \in 1..k : q[j] \in Onward(R, C, j)
    BY <2>3, <2>4, <2>5
  <2>7. \A j \in 1..k-1 : q[j+1] \in Among(F, Images(R, F, q[j]))
    <3> TAKE j \in 1..k-1
    <3>1. CASE j = k - 1
      BY <2>3, <2>4, <3>1
    <3>2. CASE j # k - 1
      <4>1. j \in 1..k-2 /\ j + 1 \in 1..k-1
        BY <3>2
      <4> QED BY <2>4, <2>5, <4>1
    <3> QED BY <3>1, <3>2
  <2>8. q[1] \in S
    BY <2>4, <2>5
  <2> QED BY <2>4, <2>6, <2>7, <2>8 DEF IsValuePath
<1> QED BY <1>2, <1>3

LEMMA ValuePathsAre ==
  ASSUME NEW R, NEW F, NEW S, S \subseteq State, NEW C, NEW n \in Nat, n >= 1, Len(C) - 1 = n,
         NEW q \in ValuePaths(R, F, S, C)
  PROVE  IsValuePath(R, F, S, C, q) /\ Len(q) <= n
<1> DEFINE U == SUBSET Seq(State)
           A == {<<s>> : s \in S \cap Onward(R, C, 1)}
           G == [x \in Nat \X U |-> UNION {LongerValues(R, F, C, x[1], p) : p \in x[2]}]
           Body(f) == [k \in 1..Len(C)-1 |->
             IF k = 1 THEN A ELSE UNION {LongerValues(R, F, C, k, p) : p \in f[k-1]}]
           path == CHOOSE f : f = Body(f)
<1>1. ValuePaths(R, F, S, C) = path[n]
  BY DEF ValuePaths, LongerValues, NextValues, Onward
<1>2. A \in U
  <2>1. \A s \in State : <<s>> \in Seq(State)
    OBVIOUS
  <2> QED BY <2>1
<1>3. G \in Steppers(U)
  <2>1. ASSUME NEW x \in Nat \X U PROVE G[x] \in U
    <3>1. x[2] \subseteq Seq(State)
      OBVIOUS
    <3>2. ASSUME NEW p \in x[2] PROVE LongerValues(R, F, C, x[1], p) \subseteq Seq(State)
      <4>1. NextValues(R, F, C, x[1], p) \subseteq State
        BY DEF NextValues, Among
      <4>2. p \in Seq(State)
        BY <3>1
      <4>3. \A r \in NextValues(R, F, C, x[1], p) : Append(p, r) \in Seq(State)
        BY <4>1, <4>2
      <4>4. {Append(p, r) : r \in NextValues(R, F, C, x[1], p)} \subseteq Seq(State)
        BY <4>3
      <4> QED BY <4>2, <4>4 DEF LongerValues
    <3>3. G[x] = UNION {LongerValues(R, F, C, x[1], p) : p \in x[2]}
      OBVIOUS
    <3> HIDE DEF G
    <3> QED BY <3>2, <3>3
  <2>2. G = [x \in Nat \X U |-> G[x]]
    OBVIOUS
  <2> HIDE DEF G, U
  <2> QED BY <2>1, <2>2 DEF Steppers
<1>4. PICK f : Recursive(f, U, A, G, n)
  <2> HIDE DEF A, G, U
  <2> QED BY <1>2, <1>3, RecursionExists
<1>5. f \in [1..n -> U] /\ \A k \in 1..n : f[k] = IF k = 1 THEN A ELSE G[<<k, f[k-1]>>]
  <2> HIDE DEF A, G, U
  <2> QED BY <1>4 DEF Recursive
<1>6. f = Body(f)
  <2>1. ASSUME NEW k \in 1..n
        PROVE  f[k] = IF k = 1 THEN A ELSE UNION {LongerValues(R, F, C, k, p) : p \in f[k-1]}
    <3>1. CASE k = 1
      BY <1>5, <3>1
    <3>2. CASE k # 1
      <4>1. k - 1 \in 1..n /\ f[k-1] \in U /\ k \in Nat
        BY <1>5, <3>2
      <4>2. <<k, f[k-1]>> \in Nat \X U
        BY <4>1
      <4>3. G[<<k, f[k-1]>>] = UNION {LongerValues(R, F, C, k, p) : p \in f[k-1]}
        BY <4>2
      <4> HIDE DEF G
      <4> QED BY <1>5, <3>2, <4>3
    <3> QED BY <3>1, <3>2
  <2> HIDE DEF G, A, U
  <2> QED BY <1>5, <2>1
<1>7. path = Body(path)
  <2> HIDE DEF Body
  <2> QED BY <1>6
<1> HIDE DEF path, G, U, A
<1>8. \A k \in 1..n : path[k] = IF k = 1 THEN A ELSE UNION {LongerValues(R, F, C, k, p) : p \in path[k-1]}
  BY <1>7
<1> HIDE DEF Body
<1> DEFINE Good(k, p) == IsValuePath(R, F, S, C, p) /\ Len(p) <= k
           T == {k \in Nat : k + 1 <= n => \A p \in path[k+1] : Good(k + 1, p)}
<1>9. 0 \in T
  <2>1. path[1] = A
    <3>1. 1 \in 1..n
      OBVIOUS
    <3> HIDE DEF Good
    <3> QED BY <1>8, <3>1
  <2>2. ASSUME NEW p \in A PROVE Good(1, p)
    <3>1. PICK s \in S \cap Onward(R, C, 1) : p = <<s>>
      BY DEF A
    <3>2. <<s>> \in Seq(State) /\ Len(<<s>>) = 1 /\ <<s>>[1] = s
      OBVIOUS
    <3>3. p \in Seq(State) /\ Len(p) = 1 /\ p[1] = s
      BY <3>1, <3>2
    <3>4. \A k \in 1..Len(p) : k = 1
      BY <3>3
    <3>5. \A k \in 1..Len(p)-1 : FALSE
      BY <3>3
    <3> QED BY <3>3, <3>4, <3>5 DEF IsValuePath
  <2> HIDE DEF Good
  <2>3. 0 + 1 = 1
    OBVIOUS
  <2> QED BY <2>1, <2>2, <2>3
<1>10. ASSUME NEW k \in T PROVE k + 1 \in T
  <2> SUFFICES ASSUME (k+1)+1 <= n, NEW r \in path[(k+1)+1] PROVE Good((k+1)+1, r)
    OBVIOUS
  <2> DEFINE m == (k+1)+1
  <2>1. m \in 1..n /\ m # 1 /\ m - 1 = k + 1 /\ m \in Nat /\ m >= 2
    OBVIOUS
  <2>2. \A p \in path[m-1] : Good(m-1, p)
    <3> HIDE DEF Good
    <3> QED OBVIOUS
  <2> HIDE DEF m, T
  <2>3. PICK p \in path[m-1] : r \in LongerValues(R, F, C, m, p)
    <3>1. r \in path[m]
      BY DEF m
    <3>2. path[m] = UNION {LongerValues(R, F, C, m, p) : p \in path[m-1]}
      BY <1>8, <2>1
    <3> QED BY <3>1, <3>2
  <2>4. Good(m-1, p)
    BY <2>2
  <2>5. Good(m, r)
    BY <2>1, <2>3, <2>4, ValuesExtend
  <2> QED BY <2>5 DEF m
<1>11. T = Nat
  <2>1. T \in SUBSET Nat
    OBVIOUS
  <2> HIDE DEF T
  <2> QED BY <1>9, <1>10, <2>1, NatSetInduction
<1>12. n - 1 \in Nat /\ (n - 1) + 1 = n
  OBVIOUS
<1>13. \A p \in path[n] : Good(n, p)
  <2> HIDE DEF Good
  <2>1. n - 1 \in T
    BY <1>11, <1>12
  <2> QED BY <1>12, <2>1
<1> QED BY <1>1, <1>13

LEMMA LearnKeeps ==
  ASSUME IInv, Learn, UNCHANGED sygus PROVE IInv'
<1>1. /\ UNCHANGED <<setup, frames, goals, reached, verdict, calls>> /\ pc = "refine" /\ pc' = "loop"
      /\ opt.engine = "ic3sa" /\ Len(cex) > 1
  BY DEF Learn, sygus, answer
<1>2. PICK L \in Lemmas, A \in FromInterpolants :
        /\ rel' = rel \ L.lost
        /\ lits' = lits \cup NoValues(Signed(L.preds \cup A)) \cup Partition(terms')
  BY DEF Learn
<1>3. Functional(sys) /\ sys.trans \subseteq State \X State /\ sys.init \subseteq State
  BY <1>1, OptionFacts, SetupFacts DEF IInv
<1>4. rel = sys.trans /\ FirstLiterals \subseteq lits
  BY <1>1 DEF IInv, LitsInv
<1>5. IsSeq(cex) /\ Len(cex) \in Nat /\ Meets(Denotes(cex[1]), sys.init)
  BY <1>1, SeqLen DEF IInv, CexInv, Starts
<1>6. L \in OfExecutions \/ L \in OfValues
  <2>1. CASE ~opt.func
    BY <2>1 DEF Lemmas
  <2>2. CASE opt.func
    <3>1. Lemmas = UNION {IF \A K \in M : IsNew(K) THEN M ELSE {K \in M : IsNew(K)} \cup OfValues : M \in {OfExecutions}}
      BY <2>2 DEF Lemmas
    <3>2. L \in IF \A K \in OfExecutions : IsNew(K) THEN OfExecutions ELSE {K \in OfExecutions : IsNew(K)} \cup OfValues
      BY <3>1
    <3> QED BY <3>2
  <2> QED BY <2>1, <2>2
<1>7. L.lost = {}
  <2>1. CASE L \in OfExecutions
    <3>1. L \in FunctionalLemmas(sys.trans, sys.free, sys.init, cex)
      BY <1>4, <2>1 DEF OfExecutions
    <3> QED BY <1>1, <1>3, <1>5, <3>1, FunctionalLost
  <2>2. CASE L \in OfValues
    <3>1. PICK p \in Values : L \in ValueLemmas(sys.trans, sys.free, cex, p)
      BY <1>4, <2>2 DEF OfValues
    <3>2. p \in ValuePaths(sys.trans, sys.free, sys.init, cex)
      BY <1>4 DEF Values
    <3> DEFINE n == Len(cex) - 1
    <3>3. n \in Nat /\ n >= 1 /\ Len(cex) - 1 = n
      BY <1>1, <1>5
    <3> HIDE DEF n
    <3>4. IsValuePath(sys.trans, sys.free, sys.init, cex, p)
      BY <1>3, <3>2, <3>3, ValuePathsAre
    <3>5. p \in Seq(State) /\ Len(p) >= 1
      BY <3>4 DEF IsValuePath
    <3> QED BY <1>3, <3>1, <3>5, ValueLost
  <2> QED BY <1>6, <2>1, <2>2
<1>8. rel' = rel /\ lits \subseteq lits'
  BY <1>2, <1>7
<1>9. LitsInv'
  <2>1. sys' = sys /\ opt' = opt
    BY <1>1 DEF setup
  <2>2. FirstLiterals' = FirstLiterals
    BY <2>1 DEF FirstLiterals, FirstPredicates, FirstTerms, Mined
  <2> QED BY <1>1, <1>4, <1>8, <2>1, <2>2 DEF LitsInv, Abstract
<1> QED BY <1>1, <1>8, <1>9, RefinedKeeps

----------------------------------------------------------------------------
(* The steps of SygusPdr::inductive_generalization.                        *)

Enumerating == {"predicates", "terms", "may"}

\* The calls, the outermost being for the goal.
Calling(C) ==
  /\ IsSeq(C) /\ Len(C) >= 1 /\ C[Len(C)].idx = goal.idx
  /\ \A n \in 1..Len(C) : IsCall(C[n])

LEMMA CallFacts ==
  ASSUME IInv, pc \in Enumerating
  PROVE  /\ opt.engine = "sygus" /\ Calling(calls) /\ Len(calls) \in Nat
         /\ IsSeq(Tail(calls)) /\ Len(Tail(calls)) = Len(calls) - 1
         /\ Current = calls[1] /\ IsCall(Current)
         /\ \A n \in 1..Len(calls)-1 : Tail(calls)[n] = calls[n+1]
<1>1. opt.engine = "sygus"
  BY DEF IInv, ControlInv, Enumerating
<1>2. /\ IsSeq(calls) /\ calls # <<>> /\ calls[Len(calls)].idx = goal.idx
      /\ \A n \in 1..Len(calls) : IsCall(calls[n])
  BY DEF IInv, CallsInv, Enumerating
<1>3. /\ IsSeq(Tail(calls)) /\ Len(Tail(calls)) = Len(calls) - 1 /\ Len(calls) >= 1
      /\ Head(calls) = calls[1] /\ Len(calls) \in Nat
      /\ \A n \in 1..Len(calls)-1 : Tail(calls)[n] = calls[n+1]
  BY <1>2, IsSeqTail, SeqLen
<1>4. IsCall(calls[1])
  <2>1. 1 \in 1..Len(calls)
    BY <1>3
  <2> QED BY <1>2, <2>1
<1> QED BY <1>1, <1>2, <1>3, <1>4 DEF Calling, Current

LEMMA CallingKeeps ==
  ASSUME IInv, pc \in Enumerating, pc' \in Enumerating, UNCHANGED <<setup, abstraction, frames>>,
         goals' = goals, goal' = goal, verdict' = verdict, reached' = reached,
         Calling(calls')
  PROVE  IInv'
<1>1. SetupInv' /\ ~Blind' /\ LitsInv' /\ opt' = opt /\ sys' = sys
  BY SetupKeeps
<1>2. frontier' = frontier /\ frames' = frames /\ IsSeq(frames) /\ IsGoal(goal) /\ goal.idx >= 1
  BY QueueFacts DEF frontier, Enumerating, Searching
<1>3. ControlInv' /\ CexInv'
  BY <1>1, <1>2, CallFacts, SearchControl DEF Enumerating, Searching
<1>4. FrameInv'
  BY FrameInvKeeps DEF IInv
<1>5. GenInv'
  BY DEF GenInv, Enumerating
<1>6. GoalInv'
  <2>1. \A x : Queued(x)' <=> Queued(x)
    BY SameFrames
  <2>2. IsGoal(goal)' /\ goal'.idx >= 1
    BY <1>2, SameFrames
  <2> QED BY <2>1, <2>2 DEF IInv, GoalInv
<1>7. CallsInv'
  <2>1. \A c : IsCall(c)' <=> IsCall(c)
    BY SameFrames
  <2>2. calls' # <<>>
    BY EmptyIsSeq DEF Calling
  <2> QED BY <2>1, <2>2 DEF CallsInv, Calling, Enumerating
<1> QED BY <1>1, <1>3, <1>4, <1>5, <1>6, <1>7 DEF IInv

\* The innermost call changes.
LEMMA UpdateCalls ==
  ASSUME IInv, pc \in Enumerating, NEW c, IsCall(c), c.idx = Current.idx
  PROVE  Calling(<<c>> \o Tail(calls))
<1> DEFINE T == Tail(calls)
           D == <<c>> \o T
           k == Len(calls)
<1>1. /\ Calling(calls) /\ k \in Nat /\ k >= 1
      /\ IsSeq(T) /\ Len(T) = k - 1 /\ Current = calls[1]
      /\ \A n \in 1..k-1 : T[n] = calls[n+1]
  BY CallFacts DEF Calling
<1> HIDE DEF T
<1>2. IsSeq(D) /\ Len(D) = k /\ D[1] = c /\ \A n \in 1..k-1 : D[n+1] = T[n]
  BY <1>1, IsSeqCons
<1> HIDE DEF D, k
<1>3. ASSUME NEW n \in 1..k PROVE IsCall(D[n]) /\ D[n].idx = calls[n].idx
  <2>1. CASE n = 1
    BY <1>1, <1>2, <2>1
  <2>2. CASE n # 1
    <3>1. n - 1 \in 1..k-1 /\ (n-1)+1 = n
      BY <1>1, <2>2
    <3>2. D[n] = calls[n]
      BY <1>1, <1>2, <3>1
    <3> QED BY <1>1, <3>2 DEF Calling, k
  <2> QED BY <2>1, <2>2
<1>4. D[k].idx = goal.idx
  <2>1. k \in 1..k /\ calls[k].idx = goal.idx
    BY <1>1 DEF Calling, k
  <2> QED BY <1>3, <2>1
<1> QED BY <1>1, <1>2, <1>3, <1>4 DEF Calling, D, T

\* A field of the innermost call changes.
LEMMA FromChanges ==
  ASSUME NEW c, IsCall(c), NEW F
  PROVE  IsCall([c EXCEPT !.from = F]) /\ [c EXCEPT !.from = F].idx = c.idx
<1> DEFINE d == [c EXCEPT !.from = F]
<1>1. c = [idx |-> c.idx, post |-> c.post, may |-> c.may, size |-> c.size, from |-> c.from]
  BY DEF IsCall
<1>2. d = [idx |-> c.idx, post |-> c.post, may |-> c.may, size |-> c.size, from |-> F]
  BY <1>1
<1>3. d.idx = c.idx /\ d.may = c.may /\ d.post = c.post /\ d.size = c.size /\ d.from = F
  BY <1>2
<1> HIDE DEF d
<1>4. IsCall(d)
  BY <1>2, <1>3 DEF IsCall
<1> QED BY <1>3, <1>4 DEF d

\* May-goals of known frames.
MayGoals(M) == IsSeq(M) /\ \A n \in 1..Len(M) : M[n].idx \in 0..frontier

LEMMA MayChanges ==
  ASSUME NEW c, IsCall(c), NEW M, MayGoals(M)
  PROVE  IsCall([c EXCEPT !.may = M]) /\ [c EXCEPT !.may = M].idx = c.idx
<1> DEFINE d == [c EXCEPT !.may = M]
<1>1. c = [idx |-> c.idx, post |-> c.post, may |-> c.may, size |-> c.size, from |-> c.from]
  BY DEF IsCall
<1>2. d = [idx |-> c.idx, post |-> c.post, may |-> M, size |-> c.size, from |-> c.from]
  BY <1>1
<1>3. d.idx = c.idx /\ d.may = M /\ d.post = c.post /\ d.size = c.size /\ d.from = c.from
  BY <1>2
<1> HIDE DEF d
<1>4. IsCall(d)
  BY <1>2, <1>3 DEF IsCall, MayGoals
<1> QED BY <1>3, <1>4 DEF d

LEMMA OneMayGoal ==
  ASSUME NEW g, g.idx \in 0..frontier PROVE MayGoals(<<g>>)
<1>1. PICK M : M = <<g>>
  OBVIOUS
<1>2. M \in Seq({g}) /\ Len(M) = 1 /\ M[1] = g
  BY <1>1
<1>3. IsSeq(M) /\ \A n \in 1..Len(M) : n = 1
  BY <1>2, SeqIsSeq
<1>4. MayGoals(M)
  BY <1>2, <1>3 DEF MayGoals
<1> QED BY <1>1, <1>4

LEMMA NoMayGoal == MayGoals(<<>>)
BY EmptyIsSeq DEF MayGoals

LEMMA GeneralizeKeeps ==
  ASSUME IInv, Generalize PROVE IInv'
<1>1. /\ UNCHANGED <<setup, abstraction, frames>> /\ pc = "queue" /\ pc' = "predicates"
      /\ verdict' = verdict /\ reached' = reached /\ opt.engine = "sygus"
  BY DEF Generalize, answer
<1>2. SetupInv' /\ ~Blind' /\ LitsInv' /\ opt' = opt /\ sys' = sys
  BY <1>1, SetupKeeps
<1>3. /\ verdict = "NONE" /\ IsSeq(frames) /\ frontier \in Nat /\ frontier = reached
  BY <1>1, QueueFacts DEF Searching
<1>4. PICK g \in goals :
        g.idx > 0 /\ goals' = goals \ {g} /\ goal' = g /\ \E m \in Target(g) : calls' = <<Call(g.idx, m)>>
  BY DEF Generalize, Blockable, Lowest
<1>5. PICK m : calls' = <<Call(g.idx, m)>>
  BY <1>4
<1>6. IsGoal(g) /\ g.idx \in 1..frontier
  <2>1. IsGoal(g)
    BY <1>4 DEF IInv, GoalInv, Queued
  <2> QED BY <1>3, <1>4, <2>1, GoalFacts
<1>7. frontier' = frontier /\ frames' = frames
  BY <1>1 DEF frontier
<1>8. ControlInv' /\ CexInv'
  BY <1>1, <1>2, <1>3, <1>7, SearchControl DEF Searching
<1>9. FrameInv'
  BY <1>1, FrameInvKeeps DEF IInv
<1>10. GenInv'
  BY <1>1 DEF GenInv
<1>11. GoalInv'
  <2>1. \A x : Queued(x)' <=> Queued(x)
    BY <1>1, SameFrames
  <2>2. IsGoal(goal)' /\ goal'.idx >= 1
    BY <1>1, <1>4, <1>6, SameFrames
  <2> QED BY <1>4, <2>1, <2>2 DEF IInv, GoalInv
<1>12. CallsInv'
  <2>1. PICK c : c = Call(g.idx, m)
    OBVIOUS
  <2>2. IsCall(c) /\ c.idx = g.idx
    <3>1. c = [idx |-> g.idx, post |-> m, may |-> <<>>, size |-> 0, from |-> {}]
      BY <2>1 DEF Call
    <3>2. c.idx = g.idx /\ c.post = m /\ c.may = <<>> /\ c.size = 0 /\ c.from = {}
      BY <3>1
    <3> QED BY <1>6, <3>1, <3>2, NoMayGoal DEF IsCall, MayGoals
  <2>3. PICK C : C = <<c>>
    OBVIOUS
  <2>4. C \in Seq({c}) /\ Len(C) = 1 /\ C[1] = c
    BY <2>3
  <2>5. calls' = C
    BY <1>5, <2>1, <2>3
  <2>6. IsSeq(C) /\ C # <<>>
    BY <2>4, SeqIsSeq, EmptyIsSeq
  <2>7. \A x : IsCall(x)' <=> IsCall(x)
    BY <1>1, SameFrames
  <2>8. \A n \in 1..Len(C) : n = 1
    BY <2>4
  <2> QED BY <1>1, <1>4, <2>2, <2>4, <2>5, <2>6, <2>7, <2>8 DEF CallsInv
<1> QED BY <1>2, <1>8, <1>9, <1>10, <1>11, <1>12 DEF IInv

LEMMA SufficientKeeps ==
  ASSUME IInv, Sufficient PROVE IInv'
<1>1. /\ UNCHANGED <<setup, abstraction, frames>> /\ pc = "predicates" /\ pc' = "raise"
      /\ verdict' = verdict /\ reached' = reached /\ goals' = goals /\ goal' = goal
      /\ level' = Current.idx /\ calls' = Tail(calls)
      /\ \E P : gen' \in Irreducible(P, Into(Current.idx))
  BY DEF Sufficient, answer
<1>2. SetupInv' /\ ~Blind' /\ LitsInv' /\ opt' = opt /\ sys' = sys /\ lits' = lits
  BY <1>1, SetupKeeps
<1>3. /\ verdict = "NONE" /\ IsSeq(frames) /\ frontier \in Nat /\ frontier = reached /\ StepsInv
      /\ IsGoal(goal) /\ goal.idx >= 1
  BY <1>1, QueueFacts DEF Searching
<1>4. /\ opt.engine = "sygus" /\ Calling(calls) /\ Len(calls) \in Nat
      /\ IsSeq(Tail(calls)) /\ Len(Tail(calls)) = Len(calls) - 1
      /\ Current = calls[1] /\ IsCall(Current)
      /\ \A n \in 1..Len(calls)-1 : Tail(calls)[n] = calls[n+1]
  BY <1>1, CallFacts DEF Enumerating
<1>5. PICK k : k = Current.idx
  OBVIOUS
<1>6. k \in 1..frontier
  BY <1>4, <1>5 DEF IsCall
<1>7. ~Meets(Denotes(gen'), Into(k))
  BY <1>1, <1>5 DEF Irreducible
<1>8. RelInd(k, gen') = {} /\ ~Meets(Denotes(gen'), sys.init)
  <2>1. ~Meets(Denotes(gen'), sys.init)
    BY <1>7 DEF Into, Meets
  <2>2. Labels(k-1) = Frame(k-1)
    BY <1>3, LabelsAreFrames
  <2>3. ASSUME NEW p \in RelInd(k, gen') PROVE FALSE
    <3>1. p \in rel /\ p[1] \in Frame(k-1) /\ p[2] \in Denotes(gen')
      BY <2>2 DEF RelInd
    <3>2. p[2] \in Into(k)
      BY <3>1 DEF Into
    <3> QED BY <1>7, <3>1, <3>2 DEF Meets
  <2> QED BY <2>1, <2>3
<1>9. frontier' = frontier /\ frames' = frames /\ (Abstract' <=> Abstract) /\ ~Abstract
  BY <1>1, <1>2, <1>4 DEF frontier, Abstract
<1>10. GenInv'
  <2>1. RelInd(level, gen)' = {}
    BY <1>1, <1>5, <1>8, SameFrames
  <2>2. ~Meets(Denotes(gen), sys.init)'
    BY <1>2, <1>8 DEF Meets
  <2>3. calls' = <<>> => level' >= goal'.idx
    <3> SUFFICES ASSUME Tail(calls) = <<>> PROVE Current.idx >= goal.idx
      BY <1>1
    <3>1. Len(calls) = 1
      <4>1. Len(Tail(calls)) = Len(<<>>)
        OBVIOUS
      <4> QED BY <1>4, <4>1, EmptyIsSeq
    <3>2. Current.idx = goal.idx
      BY <1>4, <3>1 DEF Calling
    <3> QED BY <1>5, <1>6, <3>2
  <2> QED BY <1>1, <1>2, <1>4, <1>5, <1>6, <1>9, <2>1, <2>2, <2>3 DEF GenInv
<1>11. GoalInv'
  <2>1. \A x : Queued(x)' <=> Queued(x)
    BY <1>1, SameFrames
  <2>2. IsGoal(goal)' /\ goal'.idx >= 1
    BY <1>1, <1>3, SameFrames
  <2> QED BY <1>1, <2>1, <2>2 DEF IInv, GoalInv
<1>12. CallsInv'
  <2>1. \A c : IsCall(c)' <=> IsCall(c)
    BY <1>1, SameFrames
  <2>2. \A n \in 1..Len(Tail(calls)) : IsCall(Tail(calls)[n])
    BY <1>4 DEF Calling
  <2>3. Tail(calls) # <<>> => Tail(calls)[Len(Tail(calls))].idx = goal.idx
    <3> SUFFICES ASSUME Tail(calls) # <<>> PROVE Tail(calls)[Len(Tail(calls))].idx = goal.idx
      OBVIOUS
    <3>1. Len(Tail(calls)) >= 1
      BY <1>4, IsSeqTail
    <3>2. Len(calls)-1 \in 1..Len(calls)-1 /\ (Len(calls)-1)+1 = Len(calls)
      BY <1>4, <3>1
    <3>3. Tail(calls)[Len(calls)-1] = calls[Len(calls)]
      BY <1>4, <3>2
    <3> QED BY <1>4, <3>3 DEF Calling
  <2> QED BY <1>1, <1>4, <2>1, <2>2, <2>3 DEF CallsInv
<1>13. ControlInv' /\ CexInv'
  BY <1>1, <1>2, <1>3, <1>4, <1>9, SearchControl DEF Searching
<1>14. FrameInv'
  BY <1>1, FrameInvKeeps DEF IInv
<1> QED BY <1>2, <1>10, <1>11, <1>12, <1>13, <1>14 DEF IInv

LEMMA MissInitialKeeps ==
  ASSUME IInv, MissInitial PROVE IInv'
<1>1. /\ UNCHANGED <<setup, abstraction, frames>> /\ pc = "predicates" /\ pc' = "terms"
      /\ verdict' = verdict /\ reached' = reached /\ goals' = goals /\ goal' = goal
      /\ \E F : calls' = <<[Current EXCEPT !.from = F]>> \o Tail(calls)
  BY DEF MissInitial, Update, work, answer
<1>2. PICK F : calls' = <<[Current EXCEPT !.from = F]>> \o Tail(calls)
  BY <1>1
<1>3. IsCall(Current)
  BY <1>1, CallFacts DEF Enumerating
<1>4. PICK c : c = [Current EXCEPT !.from = F]
  OBVIOUS
<1>5. IsCall(c) /\ c.idx = Current.idx
  BY <1>3, <1>4, FromChanges
<1>6. Calling(calls')
  BY <1>1, <1>2, <1>4, <1>5, UpdateCalls DEF Enumerating
<1> QED BY <1>1, <1>6, CallingKeeps DEF Enumerating

LEMMA MissStepKeeps ==
  ASSUME IInv, MissStep PROVE IInv'
<1>1. /\ UNCHANGED <<setup, abstraction, frames>> /\ pc = "predicates" /\ pc' = "may"
      /\ verdict' = verdict /\ reached' = reached /\ goals' = goals /\ goal' = goal
      /\ \E t, z, F : calls' = <<[Current EXCEPT !.may = <<[idx |-> Current.idx - 1, trace |-> t]>>,
                                                !.size = z, !.from = F]>> \o Tail(calls)
  BY DEF MissStep, Update, work, answer
<1>2. PICK t, z, F : calls' = <<[Current EXCEPT !.may = <<[idx |-> Current.idx - 1, trace |-> t]>>,
                                                !.size = z, !.from = F]>> \o Tail(calls)
  BY <1>1
<1>3. IsCall(Current) /\ frontier \in Nat
  BY <1>1, CallFacts, QueueFacts DEF Enumerating, Searching
<1>4. PICK b : b = Current
  OBVIOUS
<1>5. PICK g : g = [idx |-> b.idx - 1, trace |-> t]
  OBVIOUS
<1>6. b = [idx |-> b.idx, post |-> b.post, may |-> b.may, size |-> b.size, from |-> b.from] /\ b.idx \in 1..frontier
  BY <1>3, <1>4 DEF IsCall
<1>7. MayGoals(<<g>>)
  <2>1. g.idx = b.idx - 1
    BY <1>5
  <2>2. g.idx \in 0..frontier
    BY <1>3, <1>6, <2>1
  <2> QED BY <2>2, OneMayGoal
<1>8. PICK M : M = <<g>>
  OBVIOUS
<1>9. PICK c : c = [b EXCEPT !.may = M, !.size = z, !.from = F]
  OBVIOUS
<1>10. c = [idx |-> b.idx, post |-> b.post, may |-> M, size |-> z, from |-> F]
  BY <1>6, <1>9
<1>11. c.idx = b.idx /\ c.post = b.post /\ c.may = M /\ c.size = z /\ c.from = F
  BY <1>10
<1>12. IsCall(c) /\ c.idx = Current.idx
  BY <1>4, <1>6, <1>7, <1>8, <1>10, <1>11 DEF IsCall, MayGoals
<1>13. calls' = <<c>> \o Tail(calls)
  BY <1>2, <1>4, <1>5, <1>8, <1>9
<1>14. Calling(calls')
  BY <1>1, <1>12, <1>13, UpdateCalls DEF Enumerating
<1> QED BY <1>1, <1>14, CallingKeeps DEF Enumerating

LEMMA ProposeKeeps ==
  ASSUME IInv, Propose PROVE IInv'
<1>1. /\ UNCHANGED <<setup, abstraction, frames>> /\ pc = "terms" /\ pc' \in {"terms", "predicates"}
      /\ verdict' = verdict /\ reached' = reached /\ goals' = goals /\ goal' = goal /\ calls' = calls
  BY DEF Propose, work, answer
<1>2. Calling(calls')
  BY <1>1, CallFacts DEF Enumerating
<1> QED BY <1>1, <1>2, CallingKeeps DEF Enumerating

LEMMA MayDoneKeeps ==
  ASSUME IInv, MayDone PROVE IInv'
<1>1. /\ UNCHANGED <<setup, abstraction, frames>> /\ pc = "may" /\ pc' = "predicates"
      /\ verdict' = verdict /\ reached' = reached /\ goals' = goals /\ goal' = goal
      /\ calls' = <<[Current EXCEPT !.may = <<>>]>> \o Tail(calls)
  BY DEF MayDone, Update, work, answer
<1>2. IsCall([Current EXCEPT !.may = <<>>]) /\ [Current EXCEPT !.may = <<>>].idx = Current.idx
  <2>1. PICK M : M = <<>>
    OBVIOUS
  <2>2. MayGoals(M)
    BY <2>1, NoMayGoal
  <2> QED BY <1>1, <2>1, <2>2, CallFacts, MayChanges DEF Enumerating
<1>3. PICK c : c = [Current EXCEPT !.may = <<>>]
  OBVIOUS
<1>4. Calling(calls')
  BY <1>1, <1>2, <1>3, UpdateCalls DEF Enumerating
<1> QED BY <1>1, <1>4, CallingKeeps DEF Enumerating

LEMMA MayFailKeeps ==
  ASSUME IInv, MayFail PROVE IInv'
<1>1. /\ UNCHANGED <<setup, abstraction, frames>> /\ pc = "may" /\ pc' \in {"predicates", "terms"}
      /\ verdict' = verdict /\ reached' = reached /\ goals' = goals /\ goal' = goal
      /\ calls' = <<[Current EXCEPT !.may = <<>>]>> \o Tail(calls)
  BY DEF MayFail, Update, work, answer
<1>2. IsCall([Current EXCEPT !.may = <<>>]) /\ [Current EXCEPT !.may = <<>>].idx = Current.idx
  <2>1. PICK M : M = <<>>
    OBVIOUS
  <2>2. MayGoals(M)
    BY <2>1, NoMayGoal
  <2> QED BY <1>1, <2>1, <2>2, CallFacts, MayChanges DEF Enumerating
<1>3. PICK c : c = [Current EXCEPT !.may = <<>>]
  OBVIOUS
<1>4. Calling(calls')
  BY <1>1, <1>2, <1>3, UpdateCalls DEF Enumerating
<1> QED BY <1>1, <1>4, CallingKeeps DEF Enumerating

\* The topmost may-goal that is not blocked.
LEMMA TopFacts ==
  ASSUME IInv, pc = "may", Pending # {}
  PROVE  /\ Top \in Nat /\ Top \in 1..Len(Current.may) /\ MayGoal.idx \in 0..frontier
         /\ MayGoals(From(Top)) /\ MayGoals(From(Top + 1))
<1>1. IsCall(Current)
  BY CallFacts DEF Enumerating
<1> DEFINE M == Current.may
<1>2. IsSeq(M) /\ (\A n \in 1..Len(M) : M[n].idx \in 0..frontier) /\ Len(M) \in Nat /\ DOMAIN M = 1..Len(M)
  BY <1>1, SeqLen DEF IsCall
<1>3. Pending \subseteq 1..Len(M)
  BY <1>2 DEF Pending
<1>4. Top \in Pending
  <2>1. Pending \in SUBSET Nat
    BY <1>2, <1>3
  <2>2. \E n \in Pending : \A k \in Pending : n <= k
    BY <2>1, LeastNat
  <2> QED BY <2>2 DEF Top, Min
<1>5. Top \in 1..Len(M)
  BY <1>3, <1>4
<1>6. ASSUME NEW m \in 1..Len(M)+1 PROVE MayGoals(SubSeq(M, m, Len(M)))
  <2> DEFINE T == SubSeq(M, m, Len(M))
  <2>1. /\ IsSeq(T) /\ Len(T) = Len(M) - m + 1
        /\ \A n \in 1..Len(M)-m+1 : T[n] = M[m + n - 1]
    BY <1>2, IsSeqSub
  <2>2. \A n \in 1..Len(M)-m+1 : m + n - 1 \in 1..Len(M)
    BY <1>2
  <2> HIDE DEF M, T
  <2>3. \A n \in 1..Len(T) : T[n].idx \in 0..frontier
    BY <1>2, <2>1, <2>2
  <2> QED BY <2>1, <2>3 DEF MayGoals, T
<1>7. Top \in 1..Len(M)+1 /\ Top + 1 \in 1..Len(M)+1
  BY <1>2, <1>5
<1>8. MayGoals(From(Top)) /\ MayGoals(From(Top + 1))
  BY <1>6, <1>7 DEF From
<1> QED BY <1>2, <1>5, <1>8 DEF MayGoal

LEMMA MayPredecessorKeeps ==
  ASSUME IInv, MayPredecessor PROVE IInv'
<1>1. /\ UNCHANGED <<setup, abstraction, frames>> /\ pc = "may" /\ pc' = pc
      /\ verdict' = verdict /\ reached' = reached /\ goals' = goals /\ goal' = goal
      /\ Pending # {} /\ MayGoal.idx > 0
      /\ \E t : calls' = <<[Current EXCEPT !.may = <<[idx |-> MayGoal.idx - 1, trace |-> t]>> \o From(Top)]>>
                           \o Tail(calls)
  BY DEF MayPredecessor, Update, work, answer
<1>2. PICK t : calls' = <<[Current EXCEPT !.may = <<[idx |-> MayGoal.idx - 1, trace |-> t]>> \o From(Top)]>>
                           \o Tail(calls)
  BY <1>1
<1>3. MayGoal.idx \in 0..frontier /\ MayGoals(From(Top)) /\ frontier \in Nat
  BY <1>1, TopFacts, QueueFacts DEF Searching
<1>4. PICK g : g = [idx |-> MayGoal.idx - 1, trace |-> t]
  OBVIOUS
<1>5. g.idx \in 0..frontier
  <2>1. g.idx = MayGoal.idx - 1
    BY <1>4
  <2> QED BY <1>1, <1>3, <2>1
<1>6. PICK M : M = <<g>> \o From(Top)
  OBVIOUS
<1>7. MayGoals(M)
  <2>1. PICK T : T = From(Top)
    OBVIOUS
  <2>2. /\ IsSeq(T) /\ Len(T) \in Nat /\ \A n \in 1..Len(T) : T[n].idx \in 0..frontier
    BY <1>3, <2>1, SeqLen DEF MayGoals
  <2>3. /\ IsSeq(M) /\ Len(M) = Len(T) + 1 /\ M[1] = g /\ \A n \in 1..Len(T) : M[n + 1] = T[n]
    BY <1>6, <2>1, <2>2, IsSeqCons
  <2>4. ASSUME NEW n \in 1..Len(M) PROVE M[n].idx \in 0..frontier
    <3>1. CASE n = 1
      BY <1>5, <2>3, <3>1
    <3>2. CASE n # 1
      <4>1. n - 1 \in 1..Len(T) /\ (n - 1) + 1 = n
        BY <2>2, <2>3, <3>2
      <4>2. M[n] = T[n-1]
        BY <2>3, <4>1
      <4> QED BY <2>2, <4>1, <4>2
    <3> QED BY <3>1, <3>2
  <2> QED BY <2>3, <2>4 DEF MayGoals
<1>8. PICK c : c = [Current EXCEPT !.may = M]
  OBVIOUS
<1>9. IsCall(c) /\ c.idx = Current.idx
  BY <1>1, <1>7, <1>8, CallFacts, MayChanges DEF Enumerating
<1>10. calls' = <<c>> \o Tail(calls)
  BY <1>2, <1>4, <1>6, <1>8
<1>11. Calling(calls')
  BY <1>1, <1>9, <1>10, UpdateCalls DEF Enumerating
<1> QED BY <1>1, <1>11, CallingKeeps DEF Enumerating

LEMMA IsSeqConsTwo ==
  ASSUME NEW s, IsSeq(s), NEW d, NEW e
  PROVE  /\ IsSeq(<<d, e>> \o s) /\ Len(<<d, e>> \o s) = Len(s) + 2
         /\ (<<d, e>> \o s)[1] = d /\ (<<d, e>> \o s)[2] = e
         /\ \A n \in 1..Len(s) : (<<d, e>> \o s)[n + 2] = s[n]
<1> DEFINE S == {s[n] : n \in DOMAIN s} \cup {d, e}
<1>1. s \in Seq(S)
  BY DEF IsSeq
<1> HIDE DEF S
<1>2. e \in S /\ d \in S BY DEF S
<1>3. <<d, e>> \in Seq(S) /\ Len(<<d, e>>) = 2
  BY <1>2
<1>4. <<d, e>> \o s \in Seq(S) /\ Len(<<d, e>> \o s) = Len(s) + 2
  BY <1>1, <1>3
<1>5. (<<d, e>> \o s)[1] = d /\ (<<d, e>> \o s)[2] = e
  BY <1>1, <1>3
<1>6. \A n \in 1..Len(s) : (<<d, e>> \o s)[n + 2] = s[n]
  BY <1>1, <1>3
<1> QED BY <1>4, <1>5, <1>6, SeqIsSeq

LEMMA MayGeneralizeKeeps ==
  ASSUME IInv, MayGeneralize PROVE IInv'
<1>1. /\ UNCHANGED <<setup, abstraction, frames>> /\ pc = "may" /\ pc' = "predicates"
      /\ verdict' = verdict /\ reached' = reached /\ goals' = goals /\ goal' = goal
      /\ Pending # {} /\ MayGoal.idx > 0
      /\ \E m : calls' = <<Call(MayGoal.idx, m), [Current EXCEPT !.may = From(Top + 1)]>> \o Tail(calls)
  BY DEF MayGeneralize, work, answer
<1>2. PICK m : calls' = <<Call(MayGoal.idx, m), [Current EXCEPT !.may = From(Top + 1)]>> \o Tail(calls)
  BY <1>1
<1>3. MayGoal.idx \in 1..frontier /\ MayGoals(From(Top + 1))
  <2>1. MayGoal.idx \in 0..frontier /\ MayGoals(From(Top + 1)) /\ frontier \in Nat
    BY <1>1, TopFacts, QueueFacts DEF Searching
  <2> QED BY <1>1, <2>1
<1>4. PICK d : d = Call(MayGoal.idx, m)
  OBVIOUS
<1>5. IsCall(d)
  <2>1. d = [idx |-> MayGoal.idx, post |-> m, may |-> <<>>, size |-> 0, from |-> {}]
    BY <1>4 DEF Call
  <2>2. d.idx = MayGoal.idx /\ d.post = m /\ d.may = <<>> /\ d.size = 0 /\ d.from = {}
    BY <2>1
  <2> QED BY <1>3, <2>1, <2>2, NoMayGoal DEF IsCall, MayGoals
<1>6. PICK c : c = [Current EXCEPT !.may = From(Top + 1)]
  OBVIOUS
<1>7. PICK M : M = From(Top + 1)
  OBVIOUS
<1>8. IsCall(c) /\ c.idx = Current.idx
  BY <1>1, <1>3, <1>6, <1>7, CallFacts, MayChanges DEF Enumerating
<1>9. PICK T : T = <<c>> \o Tail(calls)
  OBVIOUS
<1>10. PICK U : U = Tail(calls)
  OBVIOUS
<1>11. Calling(T) /\ IsSeq(U) /\ Len(U) \in Nat
  BY <1>1, <1>8, <1>9, <1>10, UpdateCalls, CallFacts, SeqLen DEF Enumerating
<1>12. /\ Len(T) = Len(U) + 1 /\ T[1] = c /\ \A n \in 1..Len(U) : T[n + 1] = U[n]
  BY <1>9, <1>10, <1>11, IsSeqCons
<1>13. PICK D : D = <<d, c>> \o U
  OBVIOUS
<1>14. /\ IsSeq(D) /\ Len(D) = Len(U) + 2 /\ D[1] = d /\ D[2] = c /\ \A n \in 1..Len(U) : D[n + 2] = U[n]
  BY <1>11, <1>13, IsSeqConsTwo
<1>15. ASSUME NEW n \in 1..Len(T) PROVE D[n + 1] = T[n]
  <2>1. CASE n = 1
    BY <1>12, <1>14, <2>1
  <2>2. CASE n # 1
    <3>1. n - 1 \in 1..Len(U) /\ (n - 1) + 1 = n /\ (n - 1) + 2 = n + 1
      BY <1>11, <1>12, <2>2
    <3>2. D[(n - 1) + 2] = U[n-1] /\ T[(n - 1) + 1] = U[n-1]
      BY <1>12, <1>14, <3>1
    <3> QED BY <3>1, <3>2
  <2> QED BY <2>1, <2>2
<1>16. ASSUME NEW n \in 1..Len(D) PROVE IsCall(D[n])
  <2>1. CASE n = 1
    BY <1>5, <1>14, <2>1
  <2>2. CASE n # 1
    <3>1. n - 1 \in 1..Len(T) /\ (n - 1) + 1 = n
      BY <1>11, <1>12, <1>14, <2>2
    <3>2. D[n] = T[n-1]
      BY <1>15, <3>1
    <3> QED BY <1>11, <3>1, <3>2 DEF Calling
  <2> QED BY <2>1, <2>2
<1>17. D[Len(D)].idx = goal.idx /\ Len(D) >= 1
  <2>1. Len(T) \in 1..Len(T) /\ Len(D) = Len(T) + 1
    BY <1>11, <1>12, <1>14
  <2> QED BY <1>11, <1>14, <1>15, <2>1 DEF Calling
<1>18. Calling(D)
  BY <1>14, <1>16, <1>17 DEF Calling
<1>19. calls' = D
  BY <1>2, <1>4, <1>6, <1>10, <1>13
<1> QED BY <1>1, <1>18, <1>19, CallingKeeps DEF Enumerating

LEMMA MayBlockKeeps ==
  ASSUME IInv, MayBlock PROVE IInv'
<1>1. /\ UNCHANGED <<setup, abstraction>> /\ pc = "raise" /\ pc' = "may"
      /\ verdict' = verdict /\ reached' = reached /\ goals' = goals /\ goal' = goal
      /\ calls' = calls /\ calls # <<>> /\ frames' = Constrain(level, gen)
  BY DEF MayBlock, sygus, work, answer
<1>2. SetupInv' /\ ~Blind' /\ LitsInv' /\ opt' = opt /\ sys' = sys
  BY <1>1, SetupKeeps
<1>3. /\ IsSeq(frames') /\ frontier' = frontier /\ FrameInv'
      /\ \A k \in 0..frontier : (Frame(k))' \subseteq Frame(k)
  BY <1>1, BlockedFrames
<1>4. frontier \in Nat /\ IsGoal(goal) /\ goal.idx >= 1
  BY <1>1, QueueFacts DEF Searching
<1>5. (\A c : IsCall(c)' <=> IsCall(c)) /\ \A g : IsGoal(g)' <=> IsGoal(g)
  BY <1>1, <1>3, SameFrontier
<1>6. GoalInv'
  <2>1. \A g \in goals : Queued(g)'
    BY <1>1, <1>3, <1>4, GoalsStay DEF IInv, GoalInv
  <2>2. IsGoal(goal)'
    BY <1>1, <1>4, <1>5
  <2> QED BY <1>1, <1>4, <2>1, <2>2 DEF GoalInv
<1>7. GenInv'
  BY <1>1 DEF GenInv
<1>8. CallsInv'
  BY <1>1, <1>5 DEF IInv, CallsInv
<1>9. opt.engine = "sygus"
  BY <1>1 DEF IInv, ControlInv
<1>10. ControlInv' /\ CexInv'
  BY <1>1, <1>3, <1>9, SearchControl DEF Searching
<1> QED BY <1>2, <1>3, <1>6, <1>7, <1>8, <1>10 DEF IInv

----------------------------------------------------------------------------
LEMMA InitIsInv == Init /\ ~Blind => IInv
<1> SUFFICES ASSUME Init, ~Blind PROVE IInv
  OBVIOUS
<1>1. /\ \E c \in Cases : sys = c[1] /\ opt = c[2]
      /\ lits = FirstLiterals /\ rel = (IF opt.engine = "ic3ia" THEN AbstractTrans(lits) ELSE sys.trans)
      /\ frames = <<{}>> /\ goals = {} /\ pc = "loop" /\ reached = -1 /\ verdict = "NONE" /\ calls = <<>>
  BY DEF Init, BaseInit
<1>2. SetupInv /\ LitsInv
  BY <1>1 DEF SetupInv, LitsInv
<1>3. IsSeq(frames) /\ Len(frames) = 1 /\ frames[1] = {}
  <2>1. frames \in Seq({{}}) /\ Len(frames) = 1 /\ frames[1] = {}
    BY <1>1
  <2> QED BY <2>1, SeqIsSeq
<1>4. ControlInv
  BY <1>1, <1>3 DEF ControlInv, Searching, frontier
<1>5. FrameInv
  <2>1. \A n \in 1..1 : n = 1
    OBVIOUS
  <2> QED BY <1>1, <1>3, <2>1 DEF FrameInv, ClausesInv, frontier
<1>6. GenInv /\ GoalInv /\ CexInv
  BY <1>1 DEF GenInv, GoalInv, CexInv, Searching
<1>7. CallsInv
  BY <1>1, EmptyIsSeq DEF CallsInv
<1> QED BY <1>2, <1>4, <1>5, <1>6, <1>7 DEF IInv

LEMMA StutterKeeps == ASSUME IInv, UNCHANGED vars PROVE IInv'
<1>1. /\ UNCHANGED <<setup, abstraction, frames>> /\ goals' = goals /\ cex' = cex /\ pc' = pc /\ goal' = goal
      /\ gen' = gen /\ level' = level /\ todo' = todo /\ reached' = reached /\ verdict' = verdict
      /\ calls' = calls
  BY DEF vars, baseVars, sygus, work, answer
<1>2. SetupInv' /\ ~Blind' /\ LitsInv' /\ opt' = opt /\ sys' = sys /\ lits' = lits /\ rel' = rel
  BY <1>1, SetupKeeps
<1>3. frontier' = frontier /\ (Abstract' <=> Abstract) /\ UNCHANGED setup
  BY <1>1, <1>2 DEF frontier, Abstract
<1>4. ControlInv'
  BY <1>1, <1>2, <1>3 DEF IInv, ControlInv, Meets
<1>5. FrameInv'
  BY <1>1, FrameInvKeeps DEF IInv
<1>6. GenInv'
  <2>1. (RelInd(level, gen))' = RelInd(level, gen)
    BY <1>1, SameFrames
  <2> QED BY <1>1, <1>2, <1>3, <2>1 DEF IInv, GenInv, Meets, Target
<1>7. GoalInv'
  <2>1. (\A x : Queued(x)' <=> Queued(x)) /\ \A x : IsGoal(x)' <=> IsGoal(x)
    BY <1>1, SameFrames
  <2>2. IsGoal(goal)' <=> IsGoal(goal)
    BY <1>1, <2>1
  <2> QED BY <1>1, <2>1, <2>2 DEF IInv, GoalInv
<1>8. CallsInv'
  <2>1. \A c : IsCall(c)' <=> IsCall(c)
    BY <1>1, SameFrames
  <2> QED BY <1>1, <2>1 DEF IInv, CallsInv
<1>9. CexInv'
  <2>1. /\ \A c : Starts(c)' <=> Starts(c)
        /\ \A C : Leads(C)' <=> Leads(C)
    BY <1>3, SameSetup
  <2>2. (Starts(cex[1])' <=> Starts(cex[1])) /\ (Leads(cex)' <=> Leads(cex))
    BY <1>1, <2>1
  <2> QED BY <1>1, <1>2, <1>3, <2>2 DEF IInv, CexInv, Meets
<1> QED BY <1>2, <1>4, <1>5, <1>6, <1>7, <1>8, <1>9 DEF IInv

\* Every step keeps the invariant.
LEMMA NextKeeps == ASSUME IInv, [Next]_vars PROVE IInv'
<1>1. CASE (calls = <<>> \/ CanRaise) /\ BaseNext /\ UNCHANGED sygus
  <2>1. Block => calls = <<>>
    BY <1>1 DEF Block
  <2>2. CASE GiveUp \/ Skip \/ InitialBad \/ OneStepBad \/ NoBadWithinOneStep \/ FindGoal \/ NoGoal
    BY <1>1, <2>2, GiveUpKeeps, SkipKeeps, InitialBadKeeps, OneStepBadKeeps, NoBadWithinOneStepKeeps,
       FindGoalKeeps, NoGoalKeeps
  <2>3. CASE ReachInit \/ PopBlocked \/ FindPredecessor \/ Refuse
    BY <1>1, <2>3, ReachInitKeeps, PopBlockedKeeps, FindPredecessorKeeps, RefuseKeeps
  <2>4. CASE DropLiteral \/ KeepLiteral \/ Generalized \/ Raise \/ Block
    BY <1>1, <2>1, <2>4, DropLiteralKeeps, KeepLiteralKeeps, GeneralizedKeeps, RaiseKeeps, BlockKeeps
  <2>5. CASE Propagate \/ Stay \/ Proved \/ NextLevel
    BY <1>1, <2>5, PropagateKeeps, StayKeeps, ProvedKeeps, NextLevelKeeps
  <2>6. CASE Refute \/ Refine \/ Learn
    BY <1>1, <2>6, RefuteKeeps, RefineKeeps, LearnKeeps
  <2> QED BY <1>1, <2>2, <2>3, <2>4, <2>5, <2>6 DEF BaseNext
<1>2. CASE Generalize \/ Sufficient \/ MissInitial \/ MissStep \/ Propose
  BY <1>2, GeneralizeKeeps, SufficientKeeps, MissInitialKeeps, MissStepKeeps, ProposeKeeps
<1>3. CASE MayDone \/ MayPredecessor \/ MayFail \/ MayGeneralize \/ MayBlock
  BY <1>3, MayDoneKeeps, MayPredecessorKeeps, MayFailKeeps, MayGeneralizeKeeps, MayBlockKeeps
<1>4. CASE UNCHANGED vars
  BY <1>4, StutterKeeps
<1> QED BY <1>1, <1>2, <1>3, <1>4 DEF Next


----------------------------------------------------------------------------
(* What every state satisfies.                                             *)

\* The inductive invariant.
LEMMA InvHolds == Spec /\ ~Blind => []IInv
<1> QED BY InitIsInv, NextKeeps, PTL DEF Spec

\* The options never change.
LEMMA OptionsStay == ASSUME [Next]_vars PROVE UNCHANGED setup
BY DEF Next, BaseNext, GiveUp, Skip, InitialBad, OneStepBad, NoBadWithinOneStep, FindGoal, NoGoal,
   ReachInit, PopBlocked, FindPredecessor, Refuse, DropLiteral, KeepLiteral, Generalized, Raise,
   Block, Propagate, Stay, Proved, NextLevel, Refute, Refine, Learn, Generalize, Sufficient,
   MissInitial, MissStep, Propose, MayDone, MayPredecessor, MayFail, MayGeneralize, MayBlock,
   vars, baseVars

Sygus == opt.engine = "sygus"

(* What the asserts after rel_ind_check say of a new goal, in every state. *)
THEOREM IC3GoalsAreNew == Spec /\ ~Blind /\ ~Sygus => []GoalsAreNew
<1>1. ASSUME ~Sygus, [Next]_vars PROVE ~Sygus'
  BY <1>1, OptionsStay DEF setup, Sygus
<1>2. ASSUME IInv, ~Sygus PROVE GoalsAreNew
  <2> SUFFICES ASSUME NEW g \in goals
               PROVE  IF g.idx = 0 THEN Meets(Denotes(Target(g)), sys.init)
                      ELSE ~Meets(Denotes(Target(g)), Frame(g.idx - 1))
    BY DEF GoalsAreNew
  <2>1. Queued(g)
    BY <1>2 DEF IInv, GoalInv
  <2> QED BY <1>2, <2>1 DEF Queued, Starts, Fresh, Sygus
<1> QED BY <1>1, <1>2, InvHolds, PTL DEF Spec

----------------------------------------------------------------------------
(* Answers of TRUE.                                                        *)

LEMMA SequenceWords ==
  /\ Frames!State = State
  /\ \A sy, p, k : Frames!IsCex(sy, p, k) <=> IsCex(sy, p, k)
<1>1. Frames!State = State
  BY DEF State, Frames!State
<1> QED BY <1>1 DEF Frames!IsCex, IsCex, Frames!IsRun, IsRun

LEMMA FrameAvoidsBad ==
  ASSUME NEW n, n # 0 PROVE Frame(n) \subseteq State \ sys.bad
BY DEF Frame

\* A frame without clauses of its own is the next one.
LEMMA EmptyFrameIsNext ==
  ASSUME IsSeq(frames), NEW n \in 1..frontier, frames[n] = {}
  PROVE  Frame(n) = Frame(n+1)
<1>1. frontier \in Nat
  BY SeqLen DEF frontier
<1>2. \A m \in n..frontier : m = n \/ m \in n+1..frontier
  BY <1>1
<1>3. \A m \in n+1..frontier : m \in n..frontier
  BY <1>1
<1>4. \A m \in n..frontier : m = n => frames[m] = {}
  OBVIOUS
<1>5. n # 0 /\ n + 1 # 0
  BY <1>1
<1> DEFINE Out(s, m) == \A c \in frames[m] : s \notin Denotes(c)
<1>6. \A s : (\A m \in n..frontier : Out(s, m)) <=> \A m \in n+1..frontier : Out(s, m)
  <2>1. \A s : Out(s, n)
    OBVIOUS
  <2> HIDE DEF Out
  <2> QED BY <1>2, <1>3, <2>1
<1> QED BY <1>5, <1>6 DEF Frame

LEMMA FixedPointIsInductive ==
  ASSUME IInv, Proved
  PROVE  Frames!Inductive(sys, FixedPoint) /\ FixedPoint \in SUBSET State
<1>0. pc = "propagate" /\ frames[level] = {}
  BY DEF Proved
<1>1. IsSeq(frames) /\ frontier \in Nat /\ level \in 1..frontier-1 /\ StepsInv
  BY <1>0, PropagateFacts
<1>2. level \in 1..frontier /\ level + 1 \in 1..frontier /\ (level + 1) - 1 = level /\ level + 1 # 0
      /\ 1 \in 0..frontier /\ level + 1 \in 1..frontier
  BY <1>1
<1>3. Frame(level) = Frame(level+1)
  BY <1>0, <1>1, <1>2, EmptyFrameIsNext
<1>4. sys.init \subseteq Frame(level+1)
  BY <1>1, <1>2, FrameGrows DEF StepsInv
<1>5. FixedPoint \subseteq State \ sys.bad
  BY <1>2, FrameAvoidsBad DEF FixedPoint
<1>6. sys.trans \subseteq rel
  BY RelFacts DEF IInv
<1>7. Frames!ImageOf(sys.trans, FixedPoint) \subseteq FixedPoint
  <2> SUFFICES ASSUME NEW p \in sys.trans, p[1] \in Frame(level+1) PROVE p[2] \in Frame(level+1)
    BY DEF Frames!ImageOf, FixedPoint
  <2> QED BY <1>1, <1>2, <1>3, <1>6 DEF StepsInv
<1> QED BY <1>4, <1>5, <1>7 DEF Frames!Inductive, FixedPoint

\* Nothing happens after an answer.
LEMMA DoneIsOver == ASSUME IInv, Next PROVE pc # "done" /\ verdict = "NONE"
<1>1. pc = "done" => calls = <<>>
  BY RestFacts DEF Resting
<1>2. pc # "done"
  BY <1>1 DEF Next, BaseNext, GiveUp, Skip, AtStep, InitialBad, OneStepBad, NoBadWithinOneStep,
   FindGoal, NoGoal, ReachInit, PopBlocked, FindPredecessor, Refuse, DropLiteral, KeepLiteral,
   Generalized, Raise, Block, Propagate, Stay, Proved, NextLevel, Refute, Refine, Learn, Generalize,
   Sufficient, MissInitial, MissStep, Propose, MayDone, MayPredecessor, MayFail, MayGeneralize, MayBlock
<1> QED BY <1>2 DEF IInv, ControlInv

\* Steps that answer, and what the others leave alone.
Answers == Proved \/ GiveUp \/ Refute \/ (Refine /\ verdict' = "UNKNOWN")
Quiet == verdict' = verdict /\ invar' = invar /\ witness' = witness /\ reached' >= reached

LEMMA StepKinds ==
  ASSUME IInv, Next
  PROVE  sys' = sys /\ (Answers \/ Quiet)
<1>1. sys' = sys
  BY OptionsStay DEF setup
<1>2. reached \in Int
  BY DEF IInv, ControlInv
<1>3. CASE Proved \/ GiveUp \/ Refute
  BY <1>1, <1>3 DEF Answers
<1>4. CASE Refine
  <2>1. verdict' = "UNKNOWN" \/ verdict' = verdict
    BY <1>4 DEF Refine
  <2>2. invar' = invar /\ witness' = witness /\ reached' = reached
    BY <1>4 DEF Refine
  <2> QED BY <1>1, <1>2, <1>4, <2>1, <2>2 DEF Answers, Quiet
<1>5. CASE OneStepBad
  <2>1. reached' = 0 /\ reached < 1 /\ UNCHANGED answer
    BY <1>5 DEF OneStepBad
  <2> QED BY <1>1, <1>2, <2>1 DEF Quiet, answer
<1>6. CASE NoBadWithinOneStep
  BY <1>1, <1>2, <1>6 DEF NoBadWithinOneStep, Quiet, answer
<1>7. CASE NextLevel
  BY <1>1, <1>2, <1>7 DEF NextLevel, Quiet, answer
<1>8. CASE \/ Skip \/ InitialBad \/ FindGoal \/ NoGoal \/ ReachInit \/ PopBlocked \/ FindPredecessor
           \/ Refuse \/ DropLiteral \/ KeepLiteral \/ Generalized \/ Raise \/ Block \/ Propagate
           \/ Stay \/ Learn
  BY <1>1, <1>2, <1>8 DEF Skip, InitialBad, FindGoal, NoGoal, ReachInit, PopBlocked, FindPredecessor,
     Refuse, DropLiteral, KeepLiteral, Generalized, Raise, Block, Propagate, Stay, Learn, Quiet, answer
<1>9. CASE \/ Generalize \/ Sufficient \/ MissInitial \/ MissStep \/ Propose \/ MayDone
           \/ MayPredecessor \/ MayFail \/ MayGeneralize \/ MayBlock
  <2>1. CASE Generalize \/ MayDone \/ MayPredecessor \/ MayFail \/ MayGeneralize \/ MayBlock
    BY <1>1, <1>2, <2>1 DEF Generalize, MayDone, MayPredecessor, MayFail, MayGeneralize, MayBlock,
       Quiet, answer
  <2>2. CASE Sufficient \/ MissInitial \/ MissStep \/ Propose
    <3>1. reached' = reached /\ answer' = answer
      BY <2>2 DEF Sufficient, MissInitial, MissStep, Propose
    <3> QED BY <1>1, <1>2, <3>1 DEF Quiet, answer
  <2> QED BY <1>9, <2>1, <2>2
<1> QED BY <1>3, <1>4, <1>5, <1>6, <1>7, <1>8, <1>9 DEF Next, BaseNext

(* TRUE comes with an inductive invariant that avoids bad.                 *)
THEOREM IC3ProofIsInductive ==
  Spec /\ ~Blind => [](verdict = "TRUE" => Frames!Inductive(sys, invar))
<1>1. Init => AnswerInv
  BY DEF Init, BaseInit, AnswerInv
<1>2. ASSUME IInv, AnswerInv, [Next]_vars PROVE AnswerInv'
  <2> SUFFICES ASSUME verdict' = "TRUE" PROVE (Frames!Inductive(sys, invar))'
    BY DEF AnswerInv
  <2>1. CASE UNCHANGED vars
    <3>1. sys' = sys /\ invar' = invar /\ verdict = "TRUE"
      BY <2>1 DEF vars, baseVars, setup, answer
    <3> QED BY <1>2, <3>1 DEF AnswerInv, Frames!Inductive, Frames!ImageOf
  <2>2. CASE Next
    <3>1. verdict = "NONE" /\ sys' = sys /\ (Answers \/ Quiet)
      BY <1>2, <2>2, DoneIsOver, StepKinds
    <3>2. Proved
      BY <3>1 DEF Answers, Quiet, GiveUp, Refute
    <3>3. invar' = FixedPoint
      BY <3>2 DEF Proved
    <3>4. Frames!Inductive(sys, invar')
      BY <1>2, <3>2, <3>3, FixedPointIsInductive
    <3> QED BY <3>1, <3>4 DEF Frames!Inductive, Frames!ImageOf
  <2> QED BY <1>2, <2>1, <2>2
<1>3. AnswerInv => (verdict = "TRUE" => Frames!Inductive(sys, invar))
  BY DEF AnswerInv
<1> QED BY <1>1, <1>2, <1>3, InvHolds, PTL DEF Spec

----------------------------------------------------------------------------
(* The frames as a sequence of over-approximating sets.                    *)

\* What reach stands for in the instance of ReachSequence.
Reach == IF reached < 1 THEN <<sys.init>> ELSE FrameSets
SequenceInv ==
  verdict = "NONE" =>
    /\ Reach \in Seq(SUBSET State)
    /\ Frames!OverApproximates(sys, Reach)
    /\ Frames!Avoids(sys, Reach, reached)

LEMMA FramesOverApproximate == ASSUME IInv PROVE SequenceInv
<1> SUFFICES ASSUME verdict = "NONE"
             PROVE  /\ Reach \in Seq(SUBSET State)
                    /\ Frames!OverApproximates(sys, Reach)
                    /\ Frames!Avoids(sys, Reach, reached)
  BY DEF SequenceInv
<1>1. sys.init \in SUBSET State /\ sys.bad \subseteq State
  BY SetupFacts DEF IInv
<1>2. /\ reached \in Int /\ reached >= -1 /\ IsSeq(frames) /\ frontier >= 1
      /\ reached >= 0 => ~Meets(sys.init, sys.bad)
      /\ reached >= 1 => frontier = reached \/ frontier = reached + 1
  BY DEF IInv, ControlInv
<1>3. frontier \in Nat
  BY <1>2, SeqLen DEF frontier
<1>4. CASE reached < 1
  <2>1. Reach = <<sys.init>>
    BY <1>4 DEF Reach
  <2>2. Reach \in Seq(SUBSET State) /\ Len(Reach) = 1 /\ Reach[1] = sys.init
    BY <1>1, <2>1
  <2>3. Frames!OverApproximates(sys, Reach)
    BY <2>2 DEF Frames!OverApproximates
  <2>4. Frames!Avoids(sys, Reach, reached)
    <3> SUFFICES ASSUME NEW n \in 1..reached+1 PROVE Reach[n] \cap sys.bad = {}
      BY <1>2, <1>4, <2>2 DEF Frames!Avoids
    <3>1. reached >= 0 /\ n = 1
      BY <1>2, <1>4
    <3> QED BY <1>2, <2>2, <3>1 DEF Meets
  <2> QED BY <2>2, <2>3, <2>4
<1>5. CASE reached >= 1
  <2>1. Reach = [n \in 1..frontier+1 |-> Frame(n-1)]
    BY <1>2, <1>5 DEF Reach, FrameSets
  <2>2. \A n : Frame(n) \in SUBSET State
    BY <1>1 DEF Frame
  <2>3. Reach \in Seq(SUBSET State) /\ Len(Reach) = frontier + 1
    <3> HIDE DEF Reach
    <3>1. frontier + 1 \in Nat
      BY <1>3
    <3>2. Reach \in [1..frontier+1 -> SUBSET State]
      BY <2>1, <2>2
    <3> QED BY <3>1, <3>2
  <2>4. \A n \in 1..frontier+1 : Reach[n] = Frame(n-1)
    BY <2>1
  <2>5. StepsInv
    BY <1>5 DEF IInv, FrameInv
  <2>6. sys.trans \subseteq rel
    BY RelFacts DEF IInv
  <2>7. Frames!OverApproximates(sys, Reach)
    <3>1. 1 \in 1..frontier+1 /\ 1 - 1 = 0
      BY <1>3
    <3>2. sys.init \subseteq Reach[1]
      BY <2>4, <3>1 DEF Frame
    <3>3. ASSUME NEW n \in 1..frontier PROVE Frames!ImageOf(sys.trans, Reach[n]) \subseteq Reach[n+1]
      <4>1. n \in 1..frontier+1 /\ n+1 \in 1..frontier+1 /\ (n+1) - 1 = n
        BY <1>3
      <4>2. Reach[n] = Frame(n-1) /\ Reach[n+1] = Frame(n)
        BY <2>4, <4>1
      <4> QED BY <2>5, <2>6, <4>2 DEF StepsInv, Frames!ImageOf
    <3>4. Len(Reach) - 1 = frontier
      BY <1>3, <2>3
    <3> QED BY <1>3, <2>3, <3>2, <3>3, <3>4 DEF Frames!OverApproximates
  <2>8. Frames!Avoids(sys, Reach, reached)
    <3>1. reached < Len(Reach)
      BY <1>2, <1>3, <1>5, <2>3
    <3>2. ASSUME NEW n \in 1..reached+1 PROVE Reach[n] \cap sys.bad = {}
      <4>1. n \in 1..frontier+1 /\ (n - 1 = 0 \/ n - 1 # 0)
        BY <1>2, <1>3, <1>5
      <4>2. CASE n - 1 = 0
        <5>1. Reach[n] = Frame(0) /\ reached >= 0
          BY <1>2, <1>5, <2>4, <4>1, <4>2
        <5>2. Reach[n] = sys.init
          BY <5>1 DEF Frame
        <5> QED BY <1>2, <5>1, <5>2 DEF Meets
      <4>3. CASE n - 1 # 0
        BY <2>4, <4>1, <4>3, FrameAvoidsBad
      <4> QED BY <4>1, <4>2, <4>3
    <3> QED BY <3>1, <3>2 DEF Frames!Avoids
  <2> QED BY <2>3, <2>7, <2>8
<1> QED BY <1>2, <1>4, <1>5

----------------------------------------------------------------------------
(* Answers of FALSE: executions of the length of the trace.                *)

LEMMA TraceLength ==
  ASSUME IsSeq(cex), Len(cex) >= 1
  PROVE  /\ Len(cex) \in Nat /\ DOMAIN cex = 1..Len(cex)
         /\ Len(Along) = Len(cex) /\ \A k \in 1..Len(cex) : Along[k] = Denotes(cex[k])
         /\ Len(AnyPath) = Len(cex) /\ \A k \in 1..Len(cex) : AnyPath[k] = State
<1>1. Len(cex) \in Nat /\ DOMAIN cex = 1..Len(cex)
  BY SeqLen
<1>2. Along = [k \in 1..Len(cex) |-> Along[k]] /\ \A k \in 1..Len(cex) : Along[k] = Denotes(cex[k])
  BY <1>1 DEF Along
<1>3. AnyPath = [k \in 1..Len(cex) |-> AnyPath[k]] /\ \A k \in 1..Len(cex) : AnyPath[k] = State
  BY <1>1 DEF AnyPath
<1>4. Len(Along) = Len(cex)
  <2> HIDE DEF Along
  <2> QED BY <1>1, <1>2, FunctionIsSeq
<1>5. Len(AnyPath) = Len(cex)
  <2> HIDE DEF AnyPath
  <2> QED BY <1>1, <1>3, FunctionIsSeq
<1> QED BY <1>1, <1>2, <1>3, <1>4, <1>5

LEMMA ExecutionIsCex ==
  ASSUME NEW n \in Nat, n >= 1, NEW C, Len(C) = n, \A k \in 1..n : C[k] \subseteq State,
         NEW p \in Executions(C)
  PROVE  IsCex(sys, WitnessOf(p), n - 1)
<1>1. p \in Seq(State) /\ Len(p) = n /\ IsPath(sys.trans, sys.init, C, p) /\ p[n] \in sys.bad
  BY ExecutionsAre
<1>2. \A k \in 1..n : p[k] \in State
  BY <1>1
<1>3. p[1] \in sys.init /\ \A k \in 1..n-1 : <<p[k], p[k+1]>> \in sys.trans
  BY <1>1 DEF IsPath
<1> DEFINE w == [t \in 0..n-1 |-> p[t+1]]
<1>4. w = WitnessOf(p)
  BY <1>1 DEF WitnessOf
<1>5. w \in [0..n-1 -> State] /\ w[0] = p[1] /\ w[n-1] = p[n]
  BY <1>2
<1>6. \A t \in 0..(n-1)-1 : <<w[t], w[t+1]>> \in sys.trans
  <2> TAKE t \in 0..(n-1)-1
  <2>1. t + 1 \in 1..n-1 /\ w[t] = p[t+1] /\ w[t+1] = p[(t+1)+1]
    OBVIOUS
  <2> HIDE DEF w
  <2> QED BY <1>3, <2>1
<1> HIDE DEF w
<1>7. IsCex(sys, w, n - 1)
  BY <1>1, <1>3, <1>5, <1>6 DEF IsCex, IsRun
<1> QED BY <1>4, <1>7

\* compute_witness finds what there is.
LEMMA WitnessesAreCex ==
  ASSUME IsSeq(cex), Len(cex) >= 1, Executions(Along) # {} \/ Executions(AnyPath) # {}
  PROVE  /\ Witnesses # {}
         /\ \A p \in Witnesses : IsCex(sys, WitnessOf(p), Len(cex) - 1)
<1>1. /\ Len(cex) \in Nat
      /\ Len(Along) = Len(cex) /\ \A k \in 1..Len(cex) : Along[k] = Denotes(cex[k])
      /\ Len(AnyPath) = Len(cex) /\ \A k \in 1..Len(cex) : AnyPath[k] = State
  BY TraceLength
<1>2. \A k \in 1..Len(cex) : Along[k] \subseteq State /\ AnyPath[k] \subseteq State
  BY <1>1 DEF Denotes
<1>3. \A p \in Executions(Along) : IsCex(sys, WitnessOf(p), Len(cex) - 1)
  BY <1>1, <1>2, ExecutionIsCex
<1>4. \A p \in Executions(AnyPath) : IsCex(sys, WitnessOf(p), Len(cex) - 1)
  BY <1>1, <1>2, ExecutionIsCex
<1> QED BY <1>3, <1>4 DEF Witnesses

\* A path can be led to the next set of a trace, its last state being chosen
\* again where the cubes leave variables without update out.
LEMMA PathIsLedOn ==
  ASSUME SetupInv, ~Abstract, NEW k \in Nat, k >= 1, NEW D, D[k+1] \subseteq State,
         Steers(D[k], D[k+1]), D[k] \subseteq State,
         NEW p \in Paths(sys.trans, sys.init, D, k)
  PROVE  \E q : q \in Paths(sys.trans, sys.init, D, k + 1)
<1>1. p \in Seq(State) /\ Len(p) = k /\ IsPath(sys.trans, sys.init, D, p)
  BY DEF Paths
<1>2. /\ \A j \in 1..k : p[j] \in D[j] /\ p[j] \in State
      /\ \A j \in 1..k-1 : <<p[j], p[j+1]>> \in sys.trans
      /\ p[1] \in sys.init /\ k \in 1..k
  BY <1>1 DEF IsPath
<1>3. PICK r \in D[k] : Swap(p[k], r) /\ \E t \in D[k+1] : <<r, t>> \in sys.trans
  BY <1>2 DEF Steers
<1>4. PICK t \in D[k+1] : <<r, t>> \in sys.trans
  BY <1>3
<1>5. r \in State /\ t \in State
  OBVIOUS
<1>6. r = p[k] \/ (opt.engine = "sygus" /\ SameOn(Symbols \ sys.free, r, p[k]))
  BY <1>3 DEF Swap
<1>7. k = 1 => r \in sys.init
  <2> SUFFICES ASSUME k = 1, r # p[k] PROVE r \in sys.init
    BY <1>2
  <2>1. InitIsClosed(sys) /\ SameOn(Symbols \ sys.free, p[1], r) /\ p[1] \in sys.init
    BY <1>2, <1>6, OptionFacts DEF SameOn
  <2> DEFINE x == <<p[1], r>>
  <2>2. x \in sys.init \X State /\ x[1] = p[1] /\ x[2] = r
    BY <1>5, <2>1
  <2> HIDE DEF x
  <2>3. SameOn(Symbols \ sys.free, x[1], x[2])
    BY <2>1, <2>2
  <2> QED BY <2>1, <2>2, <2>3 DEF InitIsClosed
<1>8. k > 1 => <<p[k-1], r>> \in sys.trans
  <2> SUFFICES ASSUME k > 1 PROVE <<p[k-1], r>> \in sys.trans
    OBVIOUS
  <2>1. k - 1 \in 1..k-1 /\ k - 1 \in 1..k /\ (k - 1) + 1 = k
    OBVIOUS
  <2>2. <<p[k-1], p[k]>> \in sys.trans /\ p[k-1] \in State /\ p[k] \in State
    BY <1>2, <2>1
  <2>3. r # p[k] => SameOn(Symbols \ sys.free, p[k], r)
    BY <1>6 DEF SameOn
  <2> QED BY <1>5, <1>6, <2>2, <2>3, FreeNext
<1> DEFINE q == [j \in 1..k+1 |-> IF j < k THEN p[j] ELSE IF j = k THEN r ELSE t]
<1>9. \A j \in 1..k+1 : q[j] \in State /\ q[j] \in D[j]
  <2> TAKE j \in 1..k+1
  <2>1. j < k => j \in 1..k
    OBVIOUS
  <2>2. ~(j < k) => j = k \/ j = k + 1
    OBVIOUS
  <2> QED BY <1>2, <1>5, <2>1, <2>2
<1>10. q \in Seq(State) /\ Len(q) = k + 1
  <2>1. k + 1 \in Nat
    OBVIOUS
  <2>2. q \in [1..k+1 -> State]
    BY <1>9
  <2> HIDE DEF q
  <2> QED BY <2>1, <2>2
<1>11. q[1] \in sys.init
  <2>1. 1 \in 1..k+1 /\ (1 < k \/ k = 1)
    OBVIOUS
  <2> QED BY <1>2, <1>7, <2>1
<1>12. \A j \in 1..k : <<q[j], q[j+1]>> \in sys.trans
  <2> TAKE j \in 1..k
  <2>0. j \in 1..k+1 /\ j + 1 \in 1..k+1
    OBVIOUS
  <2>1. CASE j = k
    <3>1. q[j] = r /\ q[j+1] = t
      BY <2>0, <2>1
    <3> QED BY <1>4, <3>1
  <2>2. CASE j = k - 1
    <3>1. q[j] = p[k-1] /\ q[j+1] = r /\ k > 1
      BY <2>0, <2>2
    <3> QED BY <1>8, <3>1
  <2>3. CASE j < k - 1
    <3>1. q[j] = p[j] /\ q[j+1] = p[j+1] /\ j \in 1..k-1
      BY <2>0, <2>3
    <3> QED BY <1>2, <3>1
  <2> QED BY <2>1, <2>2, <2>3
<1> HIDE DEF q
<1>13. IsPath(sys.trans, sys.init, D, q)
  BY <1>9, <1>10, <1>11, <1>12 DEF IsPath
<1> QED BY <1>10, <1>13 DEF Paths

\* A path along the sets of D that starts in init and ends in bad.
Concrete(n, D) == \E p \in Paths(sys.trans, sys.init, D, n) : p[n] \in sys.bad

LEMMA ConcreteIsExecution ==
  ASSUME NEW n \in Nat, n >= 1, NEW C, Len(C) = n, \A k \in 1..n : C[k] \subseteq State
  PROVE  Concrete(n, C) <=> Executions(C) # {}
BY ExecutionsAre DEF Concrete, Paths

LEMMA OnePath ==
  ASSUME NEW R, NEW S, NEW D, NEW n \in Nat, n = 1, NEW s \in State, s \in S, s \in D[n]
  PROVE  <<s>> \in Paths(R, S, D, n) /\ <<s>>[n] = s
<1> DEFINE p == <<s>>
<1>1. p \in Seq(State) /\ Len(p) = n /\ p[n] = s
  OBVIOUS
<1>2. \A k \in 1..Len(p) : k = n
  BY <1>1
<1>3. \A k \in 1..Len(p)-1 : FALSE
  BY <1>1
<1> HIDE DEF p
<1>4. p[1] = s /\ Len(p) >= 1
  BY <1>1
<1>5. IsPath(R, S, D, p)
  BY <1>1, <1>2, <1>3, <1>4 DEF IsPath
<1>6. p \in Paths(R, S, D, n)
  BY <1>1, <1>5 DEF Paths
<1> QED BY <1>1, <1>6 DEF p

LEMMA PathGrows ==
  ASSUME NEW R, NEW S, NEW D, NEW k \in Nat, k >= 1, NEW p \in Paths(R, S, D, k),
         NEW t \in State, t \in D[k+1], <<p[k], t>> \in R
  PROVE  Append(p, t) \in Paths(R, S, D, k + 1) /\ Append(p, t)[k+1] = t
<1>1. p \in Seq(State) /\ Len(p) = k /\ IsPath(R, S, D, p)
  BY DEF Paths
<1> DEFINE q == Append(p, t)
<1>2. q \in Seq(State) /\ Len(q) = k + 1 /\ q[k+1] = t /\ \A j \in 1..k : q[j] = p[j]
  BY <1>1
<1> HIDE DEF q
<1>3. p[1] \in S /\ (\A j \in 1..k : p[j] \in D[j]) /\ \A j \in 1..k-1 : <<p[j], p[j+1]>> \in R
  BY <1>1 DEF IsPath
<1>4. \A j \in 1..k+1 : q[j] \in D[j]
  BY <1>2, <1>3
<1>5. \A j \in 1..k : <<q[j], q[j+1]>> \in R
  <2> TAKE j \in 1..k
  <2>1. CASE j = k
    BY <1>2, <2>1
  <2>2. CASE j # k
    <3>1. j \in 1..k-1 /\ j + 1 \in 1..k
      BY <2>2
    <3> QED BY <1>2, <1>3, <3>1
  <2> QED BY <2>1, <2>2
<1>6. q[1] \in S
  BY <1>2, <1>3
<1>7. IsPath(R, S, D, q)
  BY <1>2, <1>4, <1>5, <1>6 DEF IsPath
<1>8. q \in Paths(R, S, D, k + 1)
  BY <1>2, <1>7 DEF Paths
<1> QED BY <1>2, <1>8 DEF q

LEMMA TraceIsLedOn ==
  ASSUME SetupInv, ~Abstract, IsSeq(cex), Len(cex) >= 1, Leads(cex),
         cex[Len(cex)] = {sys.bad}, Meets(Denotes(cex[1]), sys.init)
  PROVE  Executions(Along) # {}
<1> DEFINE n == Len(cex)
           T == {k \in Nat : k + 1 <= n => \E q : q \in Paths(sys.trans, sys.init, Along, k + 1)}
<1>1. /\ n \in Nat /\ Len(Along) = n
      /\ \A k \in 1..n : Along[k] = Denotes(cex[k]) /\ Along[k] \subseteq State
  BY TraceLength DEF Denotes
<1>2. 1 \in 1..n /\ n \in 1..n
  BY <1>1
<1>3. 0 \in T
  <2>1. PICK s \in Along[1] : s \in sys.init
    BY <1>1, <1>2 DEF Meets
  <2>2. s \in State
    BY <1>1, <1>2
  <2>3. ASSUME NEW m \in Nat, m = 1 PROVE <<s>> \in Paths(sys.trans, sys.init, Along, m)
    BY <2>1, <2>2, <2>3, OnePath
  <2>4. <<s>> \in Paths(sys.trans, sys.init, Along, 0 + 1)
    BY <2>3
  <2> QED BY <2>4
<1>4. ASSUME NEW k \in T PROVE k + 1 \in T
  <2> SUFFICES ASSUME (k + 1) + 1 <= n
               PROVE  \E q : q \in Paths(sys.trans, sys.init, Along, (k + 1) + 1)
    OBVIOUS
  <2> DEFINE j == k + 1
  <2>1. j \in Nat /\ j >= 1 /\ j \in 1..n /\ j + 1 \in 1..n /\ j \in 1..n-1
    BY <1>1
  <2>2. PICK p : p \in Paths(sys.trans, sys.init, Along, j)
    BY <1>1
  <2> HIDE DEF j
  <2>3. Steers(Along[j], Along[j+1])
    BY <1>1, <2>1 DEF Leads
  <2>4. \E q : q \in Paths(sys.trans, sys.init, Along, j + 1)
    BY <1>1, <2>1, <2>2, <2>3, PathIsLedOn
  <2> QED BY <2>4 DEF j
<1>5. T = Nat
  <2> HIDE DEF T
  <2>1. T \in SUBSET Nat
    BY DEF T
  <2> QED BY <1>3, <1>4, <2>1, NatSetInduction
<1>6. n - 1 \in T /\ (n - 1) + 1 = n
  <2> HIDE DEF T, n
  <2> QED BY <1>1, <1>2, <1>5
<1>7. PICK p : p \in Paths(sys.trans, sys.init, Along, n)
  BY <1>6
<1>8. p[n] \in sys.bad
  <2>1. p[n] \in Along[n]
    <3> HIDE DEF n
    <3> QED BY <1>2, <1>7 DEF Paths, IsPath
  <2>2. sys.bad \subseteq State
    BY SetupFacts
  <2> QED BY <1>1, <1>2, <2>1, <2>2, DenotesSet
<1> HIDE DEF n
<1> QED BY <1>1, <1>2, <1>7, <1>8, ConcreteIsExecution DEF Concrete

\* What Follow reaches is at the end of a path.
LEMMA FollowIsPath ==
  ASSUME NEW R, R \subseteq State \X State, NEW n \in Nat, n >= 1, NEW C, Len(C) = n, \A k \in 1..n : C[k] \subseteq State,
         NEW s \in Follow(R, C)
  PROVE  \E p \in Paths(R, C[1], C, n) : p[n] = s
<1> DEFINE U == SUBSET State
           A == C[1]
           G == [x \in Nat \X U |-> {t \in State : t \in C[x[1]] /\ t \in {p[2] : p \in {q \in R : q[1] \in x[2]}}}]
           Body(f) == [k \in 1..Len(C) |->
             IF k = 1 THEN C[1]
             ELSE C[k] \cap {p[2] : p \in {q \in R : q[1] \in f[k-1]}}]
           after == CHOOSE f : f = Body(f)
<1>1. Follow(R, C) = after[n]
  BY DEF Follow
<1>2. 1 \in 1..n /\ n \in 1..n /\ A \in U
  OBVIOUS
<1>3. G \in Steppers(U)
  <2> SUFFICES ASSUME NEW x \in Nat \X U
      PROVE {t \in State : t \in C[x[1]] /\ t \in {p[2] : p \in {q \in R : q[1] \in x[2]}}} \in U
    BY DEF Steppers
  <2> QED OBVIOUS
<1>4. \A k \in Nat, X \in U : G[<<k, X>>] = {t \in State : t \in C[k] /\ t \in {p[2] : p \in {q \in R : q[1] \in X}}}
  <2> TAKE k \in Nat, X \in U
  <2>1. <<k, X>> \in Nat \X U /\ <<k, X>>[1] = k /\ <<k, X>>[2] = X
    OBVIOUS
  <2> QED BY <2>1
<1> HIDE DEF G, A, U
<1>5. PICK f : Recursive(f, U, A, G, n)
  BY <1>2, <1>3, RecursionExists
<1>6. f = Body(f)
  <2>1. f = [k \in 1..n |-> f[k]] /\ \A k \in 1..n : f[k] \in U
    BY <1>5 DEF Recursive
  <2>2. \A k \in 1..n : f[k] = IF k = 1 THEN C[1] ELSE C[k] \cap {p[2] : p \in {q \in R : q[1] \in f[k-1]}}
    <3> TAKE k \in 1..n
    <3>1. f[k] = IF k = 1 THEN A ELSE G[<<k, f[k-1]>>]
      BY <1>5 DEF Recursive
    <3>2. CASE k = 1
      BY <3>1, <3>2 DEF A
    <3>3. CASE k # 1
      <4>1. k \in Nat /\ k - 1 \in 1..n
        BY <3>3
      <4>2. G[<<k, f[k-1]>>] = {t \in State : t \in C[k] /\ t \in {p[2] : p \in {q \in R : q[1] \in f[k-1]}}}
        BY <1>4, <2>1, <4>1
      <4>3. C[k] \subseteq State
        OBVIOUS
      <4> QED BY <3>1, <3>3, <4>2, <4>3
    <3> QED BY <3>2, <3>3
  <2> QED BY <2>1, <2>2
<1>7. after = Body(after)
  <2> HIDE DEF Body
  <2> QED BY <1>6
<1>8. \A k \in 1..n : after[k] = IF k = 1 THEN C[1] ELSE C[k] \cap {p[2] : p \in {q \in R : q[1] \in after[k-1]}}
  <2> HIDE DEF after
  <2> QED BY <1>7
<1> HIDE DEF after, Body
<1> DEFINE S == C[1]
<1> HIDE DEF S
<1>13. ASSUME NEW j \in Nat, j >= 1, NEW p, p \in Paths(R, S, C, j), NEW t \in State, <<p[j], t>> \in R, t \in C[j+1]
       PROVE  \E x \in Paths(R, S, C, j + 1) : x[j+1] = t
  BY <1>13, PathGrows
<1> DEFINE T == {k \in Nat : k + 1 <= n => \A t \in after[k+1] : \E p \in Paths(R, C[1], C, k + 1) : p[k+1] = t}
<1>9. 0 \in T
  <2> SUFFICES ASSUME NEW t \in after[1] PROVE \E p \in Paths(R, C[1], C, 1) : p[1] = t
    OBVIOUS
  <2>1. t \in C[1] /\ t \in State
    BY <1>2, <1>8
  <2>2. ASSUME NEW m \in Nat, m = 1 PROVE <<t>> \in Paths(R, C[1], C, m) /\ <<t>>[m] = t
    BY <2>1, <2>2, OnePath
  <2>3. <<t>> \in Paths(R, C[1], C, 1) /\ <<t>>[1] = t
    BY <2>2
  <2> QED BY <2>3
<1>10. ASSUME NEW k \in T PROVE k + 1 \in T
  <2> SUFFICES ASSUME (k + 1) + 1 <= n, NEW t \in after[(k+1)+1]
               PROVE  \E p \in Paths(R, C[1], C, (k + 1) + 1) : p[(k+1)+1] = t
    OBVIOUS
  <2> DEFINE j == k + 1
  <2>1. j \in Nat /\ j >= 1 /\ j + 1 \in 1..n /\ j + 1 # 1 /\ (j + 1) - 1 = j /\ j + 1 <= n
    OBVIOUS
  <2>2. \A u \in after[j] : \E p \in Paths(R, C[1], C, j) : p[j] = u
    OBVIOUS
  <2>3. t \in after[j+1]
    OBVIOUS
  <2> HIDE DEF j
  <2>4. PICK e \in R : e[1] \in after[j] /\ e[2] = t /\ t \in C[j+1]
    <3>0. after[j+1] = IF j + 1 = 1 THEN C[1]
                       ELSE C[j+1] \cap {p[2] : p \in {q \in R : q[1] \in after[(j+1)-1]}}
      BY <1>8, <2>1
    <3>1. after[j+1] = C[j+1] \cap {p[2] : p \in {q \in R : q[1] \in after[j]}}
      BY <2>1, <3>0
    <3> QED BY <2>3, <3>1
  <2>5. PICK p \in Paths(R, C[1], C, j) : p[j] = e[1]
    BY <2>2, <2>4
  <2>6. t \in State /\ <<p[j], t>> \in R
    BY <2>1, <2>4, <2>5
  <2>7. \E x \in Paths(R, C[1], C, j + 1) : x[j+1] = t
    BY <1>13, <2>1, <2>4, <2>5, <2>6 DEF S
  <2> QED BY <2>7 DEF j
<1>11. T = Nat
  <2> HIDE DEF T
  <2>1. T \in SUBSET Nat
    BY DEF T
  <2> QED BY <1>9, <1>10, <2>1, NatSetInduction
<1>12. n - 1 \in T /\ (n - 1) + 1 = n
  <2> HIDE DEF T
  <2> QED BY <1>2, <1>11
<1> QED BY <1>1, <1>12

LEMMA PathWeakens ==
  ASSUME NEW R, NEW S, NEW A, NEW D, NEW E, NEW n \in Nat, S \subseteq A,
         \A k \in 1..n : D[k] \subseteq E[k], NEW p \in Paths(R, S, D, n)
  PROVE  p \in Paths(R, A, E, n)
BY DEF Paths, IsPath

LEMMA PathFacts ==
  ASSUME NEW R, NEW S, NEW D, NEW n \in Nat, n >= 1, NEW p \in Paths(R, S, D, n)
  PROVE  /\ p \in Seq(State) /\ Len(p) = n /\ p[1] \in S
         /\ \A k \in 1..n : p[k] \in D[k] /\ p[k] \in State
         /\ \A k \in 1..n-1 : <<p[k], p[k+1]>> \in R
BY DEF Paths, IsPath

\* The trace of one cube.
LEMMA InitialIsConcrete ==
  ASSUME SetupInv, IsSeq(cex), Len(cex) = 1, cex[Len(cex)] = {sys.bad}, Meets(sys.init, sys.bad)
  PROVE  Executions(Along) # {}
<1> DEFINE n == Len(cex)
<1>1. /\ n \in Nat /\ n >= 1 /\ n \in 1..n /\ Len(Along) = n
      /\ \A k \in 1..n : Along[k] = Denotes(cex[k]) /\ Along[k] \subseteq State
  BY TraceLength DEF Denotes
<1> HIDE DEF n
<1>2. n = 1 /\ sys.bad \subseteq State
  BY SetupFacts DEF n
<1>3. PICK s \in State : s \in sys.init /\ s \in sys.bad
  BY <1>2 DEF Meets
<1>4. Along[n] = sys.bad
  BY <1>1, <1>2, DenotesSet DEF n
<1>5. <<s>> \in Paths(sys.trans, sys.init, Along, n) /\ <<s>>[n] = s
  BY <1>1, <1>2, <1>3, <1>4, OnePath
<1>6. Concrete(n, Along)
  BY <1>3, <1>5 DEF Concrete
<1> QED BY <1>1, <1>6, ConcreteIsExecution

\* IC3IA: a trace that is followed under the concrete transition relation.
LEMMA FollowedIsConcrete ==
  ASSUME SetupInv, opt.engine = "ic3ia", IsSeq(cex), Len(cex) > 1,
         cex[Len(cex)] = {sys.bad}, Starts(cex[1]), Follow(sys.trans, RefineQuery) # {}
  PROVE  IF opt.sim THEN Executions(Along) # {} ELSE Executions(AnyPath) # {}
<1> DEFINE n == Len(cex)
<1>1. /\ n \in Nat /\ n >= 1 /\ n > 1 /\ n \in 1..n /\ 1 \in 1..n /\ DOMAIN cex = 1..n
      /\ Len(Along) = n /\ Len(AnyPath) = n
      /\ \A k \in 1..n : Along[k] = Denotes(cex[k]) /\ Along[k] \subseteq State /\ AnyPath[k] = State
  BY TraceLength DEF Denotes
<1> HIDE DEF n
<1>2. sys.bad \subseteq State /\ sys.init \subseteq State /\ sys.trans \subseteq State \X State
  BY SetupFacts
<1>3. Along[n] = sys.bad
  <2>1. cex[n] = {sys.bad}
    BY DEF n
  <2>2. Along[n] = Denotes(cex[n])
    BY <1>1
  <2> QED BY <1>2, <2>1, <2>2, DenotesSet
<1>4. PICK s : s \in Follow(sys.trans, RefineQuery)
  OBVIOUS
<1>5. CASE opt.sim
  <2>1. s \in Follow(sys.trans, Along)
    BY <1>4, <1>5 DEF RefineQuery
  <2>2. PICK p \in Paths(sys.trans, Along[1], Along, n) : p[n] = s
    BY <1>1, <1>2, <2>1, FollowIsPath
  <2>3. Along[1] \subseteq sys.init
    BY <1>1 DEF Starts
  <2>4. p \in Paths(sys.trans, sys.init, Along, n)
    BY <1>1, <2>2, <2>3, PathWeakens
  <2>5. p[n] \in sys.bad
    BY <1>1, <1>3, <2>2, PathFacts
  <2>6. Concrete(n, Along)
    BY <2>4, <2>5 DEF Concrete
  <2> QED BY <1>1, <1>5, <2>6, ConcreteIsExecution
<1>6. CASE ~opt.sim
  <2> DEFINE C == RefineQuery
  <2>1. /\ C = [k \in 1..n |-> C[k]]
        /\ \A k \in 1..n : C[k] = IF k = 1 THEN sys.init ELSE IF k = n THEN sys.bad ELSE State \ sys.bad
    BY <1>1, <1>6 DEF RefineQuery, n
  <2> HIDE DEF C
  <2>2. Len(C) = n
    BY <1>1, <2>1, FunctionIsSeq
  <2>3. \A k \in 1..n : C[k] \subseteq State
    BY <1>2, <2>1
  <2>4. C[1] = sys.init /\ C[n] = sys.bad
    BY <1>1, <2>1
  <2>5. PICK p \in Paths(sys.trans, C[1], C, n) : p[n] = s
    BY <1>1, <1>2, <1>4, <2>2, <2>3, FollowIsPath DEF C
  <2>6. p \in Paths(sys.trans, sys.init, AnyPath, n)
    BY <1>1, <2>3, <2>4, <2>5, PathWeakens
  <2>7. p[n] \in sys.bad
    BY <1>1, <2>4, <2>5, PathFacts
  <2>8. Concrete(n, AnyPath)
    BY <2>6, <2>7 DEF Concrete
  <2> QED BY <1>1, <1>6, <2>8, ConcreteIsExecution
<1> QED BY <1>5, <1>6

\* IC3SA: a trace that is not spurious.
LEMMA NotSpuriousIsConcrete ==
  ASSUME SetupInv, LitsInv, opt.engine = "ic3sa", IsSeq(cex), Len(cex) >= 1,
         cex[Len(cex)] = {sys.bad}, ~Spurious(rel, sys.init, cex)
  PROVE  Executions(Along) # {}
<1> DEFINE n == Len(cex)
<1>1. /\ n \in Nat /\ n >= 1 /\ n \in 1..n /\ DOMAIN cex = 1..n /\ Len(Along) = n
      /\ \A k \in 1..n : Along[k] = Denotes(cex[k]) /\ Along[k] \subseteq State
  BY TraceLength DEF Denotes
<1>2. rel = sys.trans /\ sys.bad \subseteq State
  BY SetupFacts DEF LitsInv
<1> HIDE DEF n
<1>3. PICK p : p \in Follows(sys.trans, sys.init, cex, 1..n, n)
  BY <1>1, <1>2 DEF Spurious, n
<1> DEFINE D == Times(cex, 1..n, n)
<1>4. p \in Paths(sys.trans, sys.init, D, n)
  BY <1>1, <1>3, FollowsPaths
<1>5. \A k \in 1..n : D[k] = Along[k]
  BY <1>1 DEF Times
<1> HIDE DEF D
<1>6. p \in Paths(sys.trans, sys.init, Along, n)
  BY <1>1, <1>4, <1>5, PathWeakens
<1>7. p[n] \in sys.bad
  <2>1. cex[n] = {sys.bad}
    BY DEF n
  <2>2. Along[n] = sys.bad
    BY <1>1, <1>2, <2>1, DenotesSet
  <2> QED BY <1>1, <1>6, <2>2, PathFacts
<1>8. Concrete(n, Along)
  BY <1>6, <1>7 DEF Concrete
<1> QED BY <1>1, <1>8, ConcreteIsExecution

\* The state before the k-th of a value path whose step gives that path.
Before(q, k, a) ==
  /\ a \in State /\ SameOn(Symbols \ sys.free, a, q[k])
  /\ \E v \in State : <<a, v>> \in sys.trans /\ SameOn(Symbols \ sys.free, q[k+1], v)

LEMMA BeforeExists ==
  ASSUME Functional(sys), NEW q, NEW k, q[k] \in State,
         q[k+1] \in Among(sys.free, Images(sys.trans, sys.free, q[k]))
  PROVE  \E a : Before(q, k, a)
<1>0. sys.free \subseteq Symbols
  BY DEF Functional
<1>1. PICK v \in Images(sys.trans, sys.free, q[k]) : SameOn(Symbols \ sys.free, q[k+1], v)
  BY DEF Among
<1>2. PICK w \in State, t \in State : v = Step(sys.trans, sys.free, With(sys.free, q[k], w), t)
  BY <1>1 DEF Images
<1> DEFINE a == With(sys.free, q[k], w)
<1>3. a \in State /\ SameOn(Symbols \ sys.free, a, q[k])
  BY <1>0, WithFacts
<1> HIDE DEF a
<1>4. v \in State /\ <<a, v>> \in sys.trans
  BY <1>2, <1>3, StepIs DEF a
<1> QED BY <1>1, <1>3, <1>4 DEF Before

LEMMA SameOnSwaps ==
  ASSUME NEW V, NEW s, NEW t, NEW u, SameOn(V, s, t), SameOn(V, u, s)
  PROVE  SameOn(V, t, u) /\ SameOn(V, t, s)
BY DEF SameOn

\* IC3SA: a trace that is followed by values, whose inputs are chosen again for
\* each step; that of the first state is free where init leaves it free.
LEMMA ValuesAreConcrete ==
  ASSUME SetupInv, LitsInv, opt.engine = "ic3sa", InitIsClosed(sys), IsSeq(cex), Len(cex) > 1,
         cex[Len(cex)] = {sys.bad}, ValuesFollow
  PROVE  Executions(AnyPath) # {}
<1> DEFINE n == Len(cex)
           N == n - 1
           F == sys.free
           R == sys.trans
<1>1. /\ n \in Nat /\ n >= 1 /\ n > 1 /\ n \in 1..n /\ Len(AnyPath) = n
      /\ \A k \in 1..n : AnyPath[k] = State
  BY TraceLength
<1>2. /\ rel = R /\ sys.bad \subseteq State /\ sys.init \subseteq State /\ Functional(sys)
      /\ R \subseteq State \X State
  BY SetupFacts, OptionFacts DEF LitsInv
<1>3. PICK q \in ValuePaths(R, F, sys.init, cex) : Len(q) = n - 1
  BY <1>2 DEF ValuesFollow, Values
<1>4. N \in Nat /\ N >= 1 /\ Len(cex) - 1 = N /\ N + 1 = n
  BY <1>1
<1>5. IsValuePath(R, F, sys.init, cex, q)
  BY <1>2, <1>3, <1>4, ValuePathsAre
<1>6. cex[n] = {sys.bad} /\ Denotes({sys.bad}) = sys.bad
  BY <1>2, DenotesSet
<1>7. Len(q) = N
  BY <1>3
<1> HIDE DEF n, N
<1>8. /\ q[1] \in sys.init /\ \A k \in 1..N : q[k] \in State
      /\ q[N] \in Onward(R, cex, N)
      /\ \A k \in 1..N-1 : q[k+1] \in Among(F, Images(R, F, q[k]))
  <2>1. q \in Seq(State) /\ N \in 1..N
    BY <1>4, <1>5 DEF IsValuePath
  <2> QED BY <1>5, <1>7, <2>1 DEF IsValuePath
<1>9. PICK u \in sys.bad : <<q[N], u>> \in R
  BY <1>4, <1>6, <1>8 DEF Onward
<1>10. \A k \in 1..N-1 : \E a : Before(q, k, a)
  <2> TAKE k \in 1..N-1
  <2>1. k \in 1..N
    BY <1>4
  <2> QED BY <1>2, <1>8, <2>1, BeforeExists
<1> DEFINE r(k) == IF k < N THEN CHOOSE a : Before(q, k, a) ELSE q[N]
<1>11. \A k \in 1..N-1 : Before(q, k, r(k))
  <2> TAKE k \in 1..N-1
  <2>1. k < N
    BY <1>4
  <2>2. r(k) = CHOOSE a : Before(q, k, a)
    BY <2>1
  <2> HIDE DEF r
  <2> QED BY <1>10, <2>2
<1>12. r(N) = q[N]
  BY <1>4
<1> HIDE DEF r
<1>13. \A k \in 1..N : r(k) \in State /\ SameOn(Symbols \ F, r(k), q[k])
  <2> TAKE k \in 1..N
  <2>1. CASE k = N
    BY <1>8, <1>12, <2>1 DEF SameOn
  <2>2. CASE k # N
    <3>1. k \in 1..N-1
      BY <1>4, <2>2
    <3> QED BY <1>11, <3>1 DEF Before
  <2> QED BY <2>1, <2>2
<1>14. \A k \in 1..N-1 : <<r(k), r(k+1)>> \in R
  <2> TAKE k \in 1..N-1
  <2>1. k + 1 \in 1..N /\ k \in 1..N
    BY <1>4
  <2>2. PICK v \in State : <<r(k), v>> \in R /\ SameOn(Symbols \ F, q[k+1], v)
    BY <1>11 DEF Before
  <2>3. SameOn(Symbols \ F, v, r(k+1))
    <3>1. SameOn(Symbols \ F, r(k+1), q[k+1])
      BY <1>13, <2>1
    <3> QED BY <2>2, <3>1, SameOnSwaps
  <2>4. r(k) \in State /\ r(k+1) \in State
    BY <1>13, <2>1
  <2> QED BY <2>2, <2>3, <2>4, FreeNext
<1>15. r(1) \in sys.init
  <2>1. 1 \in 1..N
    BY <1>4
  <2>2. SameOn(Symbols \ F, q[1], r(1)) /\ r(1) \in State
    BY <1>13, <2>1 DEF SameOn
  <2> DEFINE x == <<q[1], r(1)>>
  <2>3. x \in sys.init \X State /\ x[1] = q[1] /\ x[2] = r(1)
    BY <1>8, <2>2
  <2> HIDE DEF x
  <2>4. SameOn(Symbols \ F, x[1], x[2])
    BY <2>2, <2>3
  <2> QED BY <2>3, <2>4 DEF InitIsClosed
<1> DEFINE p == [k \in 1..n |-> IF k < n THEN r(k) ELSE u]
<1>16. \A k \in 1..N : p[k] = r(k) /\ p[k] \in State
  <2> TAKE k \in 1..N
  <2>1. k \in 1..n /\ k < n
    BY <1>4
  <2> QED BY <1>13, <2>1
<1>17. p[n] = u /\ u \in State
  BY <1>1, <1>2
<1>18. p \in Seq(State) /\ Len(p) = n
  <2>1. \A k \in 1..n : p[k] \in State
    <3> TAKE k \in 1..n
    <3>1. k \in 1..N \/ k = n
      BY <1>4
    <3> HIDE DEF p
    <3> QED BY <1>16, <1>17, <3>1
  <2>2. p \in [1..n -> State]
    BY <2>1
  <2> HIDE DEF p
  <2> QED BY <1>1, <2>2
<1> HIDE DEF p
<1>19. p[1] \in sys.init
  <2>1. 1 \in 1..N
    BY <1>4
  <2> QED BY <1>15, <1>16, <2>1
<1>20. \A k \in 1..n-1 : <<p[k], p[k+1]>> \in R
  <2> TAKE k \in 1..n-1
  <2>1. CASE k = N
    <3>1. k \in 1..N /\ k + 1 = n
      BY <1>4, <2>1
    <3> QED BY <1>9, <1>12, <1>16, <1>17, <2>1, <3>1
  <2>2. CASE k # N
    <3>1. k \in 1..N-1 /\ k \in 1..N /\ k + 1 \in 1..N
      BY <1>4, <2>2
    <3> QED BY <1>14, <1>16, <3>1
  <2> QED BY <2>1, <2>2
<1>21. \A k \in 1..n : p[k] \in AnyPath[k]
  BY <1>1, <1>18
<1>22. p \in Paths(R, sys.init, AnyPath, n)
  BY <1>1, <1>18, <1>19, <1>20, <1>21 DEF Paths, IsPath
<1>23. Concrete(n, AnyPath)
  BY <1>9, <1>17, <1>22 DEF Concrete
<1>24. \A k \in 1..n : AnyPath[k] \subseteq State
  BY <1>1
<1> QED BY <1>1, <1>23, <1>24, ConcreteIsExecution

\* IC3SA chooses the inputs of a step twice when it follows a trace by values,
\* so that init must not restrict them.
FreeStart == opt.engine = "ic3sa" => InitIsClosed(sys)

\* What TraceIsConcrete says of FALSE.
HasExecution ==
  \/ Executions(Along) # {}
  \/ /\ \/ opt.engine = "ic3ia" /\ ~opt.sim
        \/ opt.engine = "ic3sa" /\ ValuesFollow
     /\ Executions(AnyPath) # {}

LEMMA RefuteIsConcrete ==
  ASSUME IInv, FreeStart, Refute
  PROVE  HasExecution /\ IsSeq(cex) /\ Len(cex) >= 1
<1>1. /\ SetupInv /\ LitsInv /\ IsSeq(cex) /\ Len(cex) >= 1
      /\ cex[Len(cex)] = {sys.bad}
      /\ IF Len(cex) = 1 THEN Meets(sys.init, sys.bad) ELSE Starts(cex[1])
      /\ ~Abstract => Leads(cex)
  BY DEF IInv, Refute, CexInv
<1>2. Len(cex) \in Nat
  BY <1>1, SeqLen
<1>3. Confirmed
  BY DEF Refute
<1>4. opt.engine \in {"ic3", "mbic3", "ic3ia", "ic3sa", "sygus"}
  BY <1>1, OptionFacts
<1>5. CASE Len(cex) = 1
  <2>1. Executions(Along) # {}
    BY <1>1, <1>5, InitialIsConcrete
  <2> QED BY <1>1, <2>1 DEF HasExecution
<1>6. CASE Len(cex) # 1
  <2>0. Len(cex) > 1 /\ Starts(cex[1])
    BY <1>1, <1>2, <1>6
  <2>1. CASE opt.engine = "ic3ia"
    <3>1. Follow(sys.trans, RefineQuery) # {}
      BY <1>3, <1>6, <2>1 DEF Confirmed
    <3>2. IF opt.sim THEN Executions(Along) # {} ELSE Executions(AnyPath) # {}
      BY <1>1, <2>0, <2>1, <3>1, FollowedIsConcrete
    <3> QED BY <1>1, <2>1, <3>2 DEF HasExecution
  <2>2. CASE opt.engine = "ic3sa"
    <3>1. ~Spurious(rel, sys.init, cex) \/ ValuesFollow
      BY <1>3, <1>6, <2>2 DEF Confirmed
    <3>2. CASE ~Spurious(rel, sys.init, cex)
      <4>1. Executions(Along) # {}
        BY <1>1, <2>2, <3>2, NotSpuriousIsConcrete
      <4> QED BY <1>1, <4>1 DEF HasExecution
    <3>3. CASE ValuesFollow
      <4>1. InitIsClosed(sys)
        BY <2>2 DEF FreeStart
      <4>2. Executions(AnyPath) # {}
        BY <1>1, <2>0, <2>2, <3>3, <4>1, ValuesAreConcrete
      <4> QED BY <1>1, <2>2, <3>3, <4>2 DEF HasExecution
    <3> QED BY <3>1, <3>2, <3>3
  <2>3. CASE ~Abstract
    <3>1. Meets(Denotes(cex[1]), sys.init) /\ Leads(cex)
      BY <1>1, <2>0, <2>3 DEF Starts
    <3>2. Executions(Along) # {}
      BY <1>1, <2>3, <3>1, TraceIsLedOn
    <3> QED BY <1>1, <3>2 DEF HasExecution
  <2> QED BY <2>1, <2>2, <2>3 DEF Abstract
<1> QED BY <1>1, <1>5, <1>6

\* The witness printed is an execution from init to bad, of the length of the
\* trace.
LEMMA RefuteIsCex ==
  ASSUME IInv, FreeStart, Refute
  PROVE  IsCex(sys, witness', Len(cex) - 1)
<1>1. HasExecution /\ IsSeq(cex) /\ Len(cex) >= 1
  BY RefuteIsConcrete
<1>2. Witnesses # {} /\ \A p \in Witnesses : IsCex(sys, WitnessOf(p), Len(cex) - 1)
  BY <1>1, WitnessesAreCex DEF HasExecution
<1>3. \E p \in Witnesses : witness' = WitnessOf(p)
  BY <1>2 DEF Refute
<1> QED BY <1>2, <1>3

LEMMA SameTrace ==
  ASSUME UNCHANGED <<setup, abstraction, cex>>
  PROVE  HasExecution' <=> HasExecution
<1>1. sys' = sys /\ opt' = opt /\ rel' = rel /\ cex' = cex
  BY DEF setup, abstraction
<1>2. Along' = Along /\ AnyPath' = AnyPath
  BY <1>1 DEF Along, AnyPath
<1>3. \A C : Executions(C)' = Executions(C)
  BY <1>1 DEF Executions
<1>4. Executions(Along)' = Executions(Along) /\ Executions(AnyPath)' = Executions(AnyPath)
  BY <1>2, <1>3
<1>5. ValuesFollow' <=> ValuesFollow
  BY <1>1 DEF ValuesFollow, Values
<1> QED BY <1>1, <1>4, <1>5 DEF HasExecution

\* What both theorems about FALSE start from.
LEMMA StartStays == ASSUME FreeStart, [Next]_vars PROVE FreeStart'
<1>1. sys' = sys /\ opt' = opt
  BY OptionsStay DEF setup
<1> QED BY <1>1 DEF FreeStart, InitIsClosed

(* FALSE comes with an execution of the length of the trace.               *)
THEOREM IC3TraceIsConcrete == Spec /\ ~Blind /\ FreeStart => []TraceIsConcrete
<1>1. TraceIsConcrete <=> (verdict = "FALSE" => HasExecution)
  BY DEF TraceIsConcrete, HasExecution
<1>2. Init => TraceIsConcrete
  BY DEF Init, BaseInit, TraceIsConcrete
<1>3. ASSUME IInv, FreeStart, TraceIsConcrete, [Next]_vars PROVE TraceIsConcrete'
  <2>0. TraceIsConcrete' <=> (verdict' = "FALSE" => HasExecution')
    BY DEF TraceIsConcrete, HasExecution
  <2> SUFFICES ASSUME verdict' = "FALSE" PROVE HasExecution'
    BY <2>0
  <2>1. CASE UNCHANGED vars
    <3>1. UNCHANGED <<setup, abstraction, cex>> /\ verdict = "FALSE"
      BY <2>1 DEF vars, baseVars, answer
    <3> QED BY <1>1, <1>3, <3>1, SameTrace
  <2>2. CASE Next
    <3>1. verdict = "NONE" /\ (Answers \/ Quiet)
      BY <1>3, <2>2, DoneIsOver, StepKinds
    <3>2. Refute
      BY <3>1 DEF Answers, Quiet, GiveUp, Proved
    <3>3. UNCHANGED <<setup, abstraction, cex>>
      BY <3>2 DEF Refute
    <3> QED BY <1>3, <3>2, <3>3, RefuteIsConcrete, SameTrace
  <2> QED BY <1>3, <2>1, <2>2
<1> QED BY <1>2, <1>3, StartStays, InvHolds, PTL DEF Spec

----------------------------------------------------------------------------
(* The refinement of ReachSequence.                                        *)

LEMMA InitIsMapped == Init => Frames!Init
<1> SUFFICES ASSUME Init PROVE Frames!Init
  OBVIOUS
<1>1. PICK c \in Cases : sys = c[1]
  BY DEF Init, BaseInit
<1>2. sys \in Systems
  BY <1>1 DEF Systems
<1>3. reached = -1 /\ verdict = "NONE" /\ invar = {} /\ witness = <<>>
  BY DEF Init, BaseInit
<1> QED BY <1>2, <1>3 DEF Frames!Init

\* What the mapping says of the sequence and of the bounds while there is no
\* answer, before and after a step.
LEMMA StepIsMapped ==
  ASSUME IInv, FreeStart, SequenceInv', [Next]_vars
  PROVE  [Frames!Next]_Frames!vars
<1>1. CASE UNCHANGED vars
  <2>1. /\ sys' = sys /\ invar' = invar /\ verdict' = verdict /\ witness' = witness /\ reached' = reached
        /\ cex' = cex /\ frames' = frames
    BY <1>1 DEF vars, baseVars, setup, answer
  <2>2. FrameSets' = FrameSets
    BY <2>1 DEF FrameSets, Frame, frontier
  <2> QED BY <2>1, <2>2 DEF Frames!vars
<1>2. CASE Next
  <2>1. /\ verdict = "NONE" /\ sys' = sys /\ (Answers \/ Quiet)
        /\ reached \in Int
    BY <1>2, DoneIsOver, StepKinds DEF IInv, ControlInv
  <2>2. CASE Quiet
    <3>1. /\ verdict' = "NONE" /\ invar' = invar /\ witness' = witness /\ reached' >= reached
      BY <2>1, <2>2 DEF Quiet
    <3>2. /\ Reach' \in Seq(SUBSET State)
          /\ Frames!OverApproximates(sys, Reach')
          /\ Frames!Avoids(sys, Reach', reached')
      BY <2>1, <3>1 DEF SequenceInv, Frames!OverApproximates, Frames!Avoids
    <3>3. reached' \in Int
      BY <1>2, NextKeeps DEF IInv, ControlInv
    <3>4. Reach' = (IF reached < 1 THEN <<sys.init>> ELSE FrameSets)'
      BY DEF Reach
    <3> QED BY <2>1, <3>1, <3>2, <3>3, <3>4, SequenceWords DEF Frames!Next, Frames!Advance
  <2>3. CASE Proved
    <3>1. verdict' = "TRUE" /\ invar' = FixedPoint /\ reached' = reached /\ witness' = witness
      BY <2>3 DEF Proved
    <3>2. Frames!Inductive(sys, invar') /\ invar' \in SUBSET State
      BY <2>3, <3>1, FixedPointIsInductive
    <3> QED BY <2>1, <3>1, <3>2, SequenceWords DEF Frames!Next, Frames!Prove
  <2>4. CASE GiveUp \/ (Refine /\ verdict' = "UNKNOWN")
    <3>1. verdict' = "UNKNOWN" /\ invar' = invar /\ witness' = witness /\ reached' = reached
      BY <2>4 DEF GiveUp, Refine
    <3> QED BY <2>1, <3>1 DEF Frames!Next, Frames!GiveUp
  <2>5. CASE Refute
    <3>1. verdict' = "FALSE" /\ invar' = invar /\ cex' = cex
      BY <2>5 DEF Refute
    <3>2. IsCex(sys, witness', Len(cex) - 1)
      BY <2>5, RefuteIsCex
    <3>3. Len(cex) \in Nat /\ Len(cex) - 2 >= reached
      BY <2>5, SeqLen DEF IInv, CexInv, Refute
    <3>4. (Len(cex) - 2) + 1 = Len(cex) - 1 /\ Len(cex) - 2 \in Int
      BY <3>3
    <3>5. Frames!IsCex(sys, witness', (Len(cex) - 2) + 1)
      BY <3>2, <3>4, SequenceWords
    <3> QED BY <2>1, <3>1, <3>3, <3>4, <3>5 DEF Frames!Next, Frames!Refute
  <2> QED BY <2>1, <2>2, <2>3, <2>4, <2>5 DEF Answers
<1> QED BY <1>1, <1>2

(* The frames over-approximate what is reachable in as many steps, a bound *)
(* is completed only when they avoid bad, TRUE comes with an inductive     *)
(* invariant and FALSE with a counterexample of witness_length() steps.    *)
THEOREM IC3ImplementsReachSequence == Spec /\ ~Blind /\ FreeStart => ImplementsReachSequence
<1>1. ASSUME IInv PROVE SequenceInv
  BY <1>1, FramesOverApproximate
<1> QED BY <1>1, InitIsMapped, StepIsMapped, StartStays, InvHolds, PTL
        DEF Spec, ImplementsReachSequence, Frames!Spec

----------------------------------------------------------------------------
(* What SafetyProver promises follows: ReachSequence is enough for it.     *)

\* What stands for reached_k_, an answer of FALSE being found one bound later.
BoundReached == IF verdict = "FALSE" THEN Len(cex) - 2 ELSE reached

Contract == INSTANCE ProverContract WITH reached <- BoundReached

LEMMA ContractWords ==
  /\ \A sy, p, k : Contract!IsCex(sy, p, k) <=> IsCex(sy, p, k)
  /\ \A sy, k : Contract!HasCex(sy, k) <=> HasCex(sy, k)
  /\ \A sy : Contract!Safe(sy) <=> Safe(sy)
<1>1. Contract!State = State
  BY DEF Contract!State, State
<1>2. \A sy, p, k : Contract!IsCex(sy, p, k) <=> IsCex(sy, p, k)
  BY <1>1 DEF Contract!IsCex, IsCex, Contract!IsRun, IsRun
<1>3. \A sy, k : Contract!HasCex(sy, k) <=> HasCex(sy, k)
  BY <1>1, <1>2 DEF Contract!HasCex, HasCex
<1>4. \A sy : Contract!Safe(sy) <=> Safe(sy)
  BY <1>1 DEF Contract!Safe, Safe, Contract!Reachable, Reachable, Contract!Closed, Closed
<1> QED BY <1>2, <1>3, <1>4

\* Sets that avoid bad up to k leave no counterexample up to k.
LEMMA AvoidingExcludes ==
  ASSUME NEW sy, NEW seq, Len(seq) \in Nat, Frames!OverApproximates(sy, seq),
         NEW k \in Int, Frames!Avoids(sy, seq, k), NEW d \in 0..k
  PROVE  ~HasCex(sy, d)
<1>1. d < Len(seq) /\ seq[d+1] \cap sy.bad = {} /\ sy.init \subseteq seq[1]
  BY DEF Frames!Avoids, Frames!OverApproximates
<1>2. ASSUME NEW n \in 1..d, NEW p \in sy.trans, p[1] \in seq[n] PROVE p[2] \in seq[n+1]
  <2>1. n \in 1..Len(seq)-1
    BY <1>1
  <2>2. p[2] \in Frames!ImageOf(sy.trans, seq[n])
    BY <1>2 DEF Frames!ImageOf
  <2> QED BY <2>1, <2>2 DEF Frames!OverApproximates
<1> QED BY <1>1, <1>2, SetsExclude

LEMMA InductiveIsSafe ==
  ASSUME NEW sy, NEW S \in SUBSET State, Frames!Inductive(sy, S) PROVE Safe(sy)
<1>1. ASSUME NEW p \in sy.trans, p[1] \in S PROVE p[2] \in S
  <2>1. p[2] \in Frames!ImageOf(sy.trans, S)
    BY <1>1 DEF Frames!ImageOf
  <2> QED BY <2>1 DEF Frames!Inductive
<1> QED BY <1>1, ClosedIsSafe DEF Frames!Inductive, Closed

BoundInv == BoundReached \in Int /\ BoundReached >= -1

\* Every step of the sequence is a step of the contract, or none.
LEMMA SequenceStep ==
  ASSUME BoundInv, [Frames!Next]_Frames!vars PROVE BoundInv' /\ [Contract!Next]_Contract!vars
<1> USE DEF BoundInv, BoundReached
<1>0. Frames!State = State /\ \A sy, p, k : Frames!IsCex(sy, p, k) <=> Contract!IsCex(sy, p, k)
  BY SequenceWords, ContractWords
<1>1. CASE Frames!Advance
  <2>1. /\ sys' = sys /\ verdict' = verdict /\ witness' = witness
        /\ verdict = "NONE" /\ BoundReached' \in Int /\ BoundReached' >= BoundReached
        /\ Reach' \in Seq(SUBSET State)
        /\ Frames!OverApproximates(sys, Reach') /\ Frames!Avoids(sys, Reach', BoundReached')
    BY <1>0, <1>1 DEF Frames!Advance, Reach
  <2>2. CASE BoundReached' = BoundReached
    BY <2>1, <2>2 DEF Contract!vars
  <2>3. CASE BoundReached' # BoundReached
    <3>1. BoundReached' \in Nat /\ BoundReached' > BoundReached
      BY <2>1, <2>3
    <3>2. Len(Reach') \in Nat
      BY <2>1
    <3>3. \A d \in (BoundReached+1)..BoundReached' : ~Contract!HasCex(sys, d)
      BY <2>1, <3>1, <3>2, AvoidingExcludes, ContractWords
    <3> QED BY <2>1, <3>1, <3>3 DEF Contract!Next, Contract!Advance
  <2> QED BY <2>2, <2>3
<1>2. CASE Frames!Prove
  BY <1>0, <1>2, InductiveIsSafe, ContractWords DEF Frames!Prove, Contract!Next, Contract!Prove
<1>3. CASE Frames!Refute
  BY <1>0, <1>3 DEF Frames!Refute, Contract!Next, Contract!Refute
<1>4. CASE Frames!GiveUp
  BY <1>4 DEF Frames!GiveUp, Contract!Next, Contract!GiveUp
<1>5. CASE UNCHANGED Frames!vars
  BY <1>5 DEF Frames!vars, Contract!vars
<1> QED BY <1>1, <1>2, <1>3, <1>4, <1>5 DEF Frames!Next

(* Whatever the sets of the sequence are, an engine that implements        *)
(* ReachSequence keeps what SafetyProver promises of bounds and answers.   *)
THEOREM FramesKeepContract == ImplementsReachSequence => Contract!Spec
<1>1. Frames!Init => BoundInv /\ Contract!Init
  BY DEF Frames!Init, BoundInv, Contract!Init, BoundReached
<1> QED BY <1>1, SequenceStep, PTL DEF ImplementsReachSequence, Frames!Spec, Contract!Spec

(* IC3 in all its flavours implements the contract of SafetyProver: bounds *)
(* are completed when no counterexample ends at them, TRUE means that bad  *)
(* is not reachable, FALSE comes with a counterexample.                    *)
THEOREM IC3KeepsContract == Spec /\ ~Blind /\ FreeStart => Contract!Spec
BY IC3ImplementsReachSequence, FramesKeepContract, PTL
=============================================================================
