------------------------------- MODULE IC3SA -------------------------------
(***************************************************************************)
(* Syntax-guided abstraction (engines/ic3sa.cpp): what cubes are made of,  *)
(* and what a spurious trace adds to it.  A term is a sort and its value   *)
(* in each state, a state variable is a term, and a predicate or a literal *)
(* is the set of states it denotes.  Inputs have been promoted to state    *)
(* variables: F stands for the variables without update, and a step is     *)
(* determined by the state and the next values of F.                       *)
(***************************************************************************)
EXTENDS Unrolling, Sequences

CONSTANT Symbols   (* the state variables, as terms                        *)

SameOn(V, s, t) == \A x \in V : x.val[s] = x.val[t]

\* Symbols are independent of each other and make up the state.
ASSUME SymbolsAssumption ==
  /\ \A s, t \in State : SameOn(Symbols, s, t) => s = t
  /\ \A V \in SUBSET Symbols, s, t \in State :
       \E u \in State : SameOn(V, u, s) /\ SameOn(Symbols \ V, u, t)

Negated(l) == State \ l
Signed(P) == P \cup {Negated(l) : l \in P}

Denotes(c) == {s \in State : \A l \in c : s \in l}

\* A literal or predicate that simplifies to a value is left out.
NoValues(L) == L \ {{}, State}

\* construct_partition: equalities and disequalities between terms of one
\* sort.  The code takes a chain of each class and one representative in an
\* order of its hash sets; that of all pairs denotes the same partition.
Partition(T) ==
  NoValues(Signed(UNION {{{s \in State : a.val[s] = b.val[s]} :
                            b \in {c \in T : c.sort = a.sort}} : a \in T}))

\* get_free_symbolic_consts, of the simplified literal.
SymbolTable ==
  [l \in SUBSET State |->
     {x \in Symbols : \E s \in l : \E t \in Negated(l) : SameOn(Symbols \ {x}, s, t)}]
SymbolsOf(l) == SymbolTable[l]
SymbolsOfTerm(t) ==
  {x \in Symbols : \E s, u \in State : SameOn(Symbols \ {x}, s, u) /\ t.val[s] # t.val[u]}
In(W, L) == {l \in L : SymbolsOf(l) \subseteq W}

\* Symbols whose values in s lead to C whatever the other symbols are.  The
\* values t has for variables without update are those of the model too, but
\* are not kept, being next-state variables.
Leading(R, F, C, s, t) ==
  {W \in SUBSET Symbols :
     \A r \in State : SameOn(W, r, s) => \E u \in C : <<r, u>> \in R /\ SameOn(F, u, t)}

\* justify_coi and predecessor_generalization: with those that are always kept.
Justifying(R, F, kept, C, s, t) ==
  {W \in Leading(R, F, C, s, t) : W # {} /\ kept \subseteq W}

\* PartialModelGen, SygusPdr::ExtractPartialModel: the values of such symbols,
\* but for those without update.
AsIn(W, s) == {r \in State : SameOn(W, r, s)}
PartialModels(R, F, C, s, t) == {AsIn(W \ F, s) : W \in Leading(R, F, C, s, t)}

\* Slip: the literals that were dropped are not put back.
Separated_Never(P, full, S) == {P}

\* The rest of predecessor_generalization_and_fix: literals of the whole cube
\* are put back until it avoids S, as many as the solver's core has.
Separated(P, full, S) ==
  {P \cup K : K \in {L \in SUBSET (full \ P) : Denotes(P \cup L) \cap S = {}}}

----------------------------------------------------------------------------
(* Refinement of a trace C, a sequence of cubes.                           *)

\* The state like s in which F has the values of t, and the step into it.
With(F, s, t) == CHOOSE r \in State : SameOn(F, r, t) /\ SameOn(Symbols \ F, r, s)
Step(R, F, s, t) == CHOOSE u \in State : <<s, u>> \in R /\ SameOn(F, u, t)

\* FunctionalUnroller: the execution from s whose inputs are those of w.
Unrolled(R, F, s, w) ==
  LET state[n \in 1..Len(w)] ==
        IF n = 1 THEN With(F, s, w[1]) ELSE Step(R, F, state[n-1], w[n])
  IN  state

\* The executions that start in S and satisfy the cubes at the times of K, as
\* sequences of n states.
Follows(R, S, C, K, n) ==
  LET at(k) == IF k \in K THEN Denotes(C[k]) ELSE State
      prefix[k \in 1..n] ==
        IF k = 1 THEN {<<s>> : s \in S \cap at(1)}
        ELSE UNION {{Append(p, u) : u \in {v \in at(k) : <<p[k-1], v>> \in R}} : p \in prefix[k-1]}
  IN  prefix[n]

Spurious(R, S, C) == Follows(R, S, C, DOMAIN C, Len(C)) = {}
Shortest(R, S, C) ==
  CHOOSE n \in DOMAIN C :
    /\ Follows(R, S, C, 1..n, n) = {}
    /\ n > 1 => Follows(R, S, C, 1..n-1, n-1) # {}

\* ic3sa_refine_functional: the inputs take their values in the last model, w,
\* but for those of the last two times, which untime makes current.
Inputs(w, s, n) == [k \in 1..n |-> IF k <= n - 2 THEN w[k] ELSE s]

\* What a refinement learns: predicates over the current state, of which not
\* all hold in one, terms, and the transitions it rules out.
Lemma(P, T, lost) == [preds |-> P, terms |-> T, lost |-> lost]

\* The predicates and the terms of the conjuncts of C at the times of K, init
\* being at time 0; run has the unrolled states of each state.
PredicatesAt(S, C, K, run) ==
  (UNION {{{s \in State : run[s][k] \in l} : l \in C[k]} : k \in K \ {0}})
    \cup IF 0 \in K THEN {{s \in State : run[s][1] \in S}} ELSE {}
TermsAt(C, K, run) ==
  UNION {{[sort |-> x.sort, val |-> [s \in State |-> x.val[run[s][k]]]] :
            x \in UNION {SymbolsOf(l) : l \in C[k]}} : k \in K \ {0}}

\* Cores are taken per time.  Of the last model its inputs matter.
FunctionalLemmas(R, F, S, C) ==
  IF ~Spurious(R, S, C) THEN {} ELSE
  LET n == Shortest(R, S, C)
      cores == {K \in SUBSET (0..n) :
                  Follows(R, IF 0 \in K THEN S ELSE State, C, K, n) = {}}
      any == CHOOSE s \in State : TRUE
      inputs == {[k \in 1..n-2 |-> With(F, any, q[k])] : q \in Follows(R, S, C, 1..n-1, n-1)}
      runs == {[s \in State |-> Unrolled(R, F, s, Inputs(w, s, n))] : w \in inputs}
  IN  UNION {UNION {{Lemma(P, TermsAt(C, p[1], p[2]), {t \in R : t[1] \in Denotes(P)}) :
                       P \in {PredicatesAt(S, C, p[1], p[2])}} : p \in {c} \X runs} : c \in cores}

\* ic3sa_refine_value follows the trace by the values of a model at each
\* step; the inputs of a step are free again at the next one, as p only says
\* what the variables with update are made of them.
Images(R, F, s) == {Step(R, F, With(F, s, w), t) : w \in State, t \in State}
Among(F, I) == {r \in State : \E u \in I : SameOn(Symbols \ F, r, u)}

ValuePaths(R, F, S, C) ==
  LET to(k) == {r \in Denotes(C[k]) : \E u \in Denotes(C[k+1]) : <<r, u>> \in R}
      path[k \in 1..Len(C)-1] ==
        IF k = 1 THEN {<<s>> : s \in S \cap to(1)}
        ELSE UNION {LET next == Among(F, Images(R, F, p[k-1])) \cap to(k)
                    IN  IF Len(p) < k - 1 \/ next = {} THEN {p} ELSE {Append(p, r) : r \in next}
                      : p \in path[k-1]}
  IN  path[Len(C)-1]

\* Where such a path is stuck, the values that were to come next, with the
\* inputs of its last model, are excluded in the context that excludes them.
ValueLemmas(R, F, C, p) ==
  LET n == Len(p) + 1
      equal(x, u) == {r \in State : x.val[r] = x.val[u]}
      lost(X, K, u) ==
        {q \in R : /\ SameOn(X, q[1], u)
                   /\ n \in K => q[1] \in Denotes(C[n])
                   /\ n + 1 \in K => q[2] \in Denotes(C[n+1])}
      all == Images(R, F, p[n-1])
      cores == {c \in (SUBSET (Symbols \ F)) \X (SUBSET {n, n+1}) :
                  \A u \in all : lost(c[1], c[2], u) = {}}
      next == Step(R, F, p[n-1], p[n-1])
  IN  {Lemma({equal(x, next) : x \in c[1]},
             c[1] \cup {[sort |-> x.sort, val |-> [s \in State |-> x.val[next]]] : x \in c[1]},
             lost(c[1], c[2], next)) : c \in cores}
=============================================================================
