------------------------- MODULE CegProphecyArrays --------------------------
(***************************************************************************)
(* Abstraction refinement of arrays with prophecy variables:               *)
(* CegProphecyArrays (engines/ceg_prophecy_arrays.cpp), the axioms of      *)
(* ArrayAxiomEnumerator, the uninterpreted arrays of ArrayAbstractor, and  *)
(* the variables of HistoryModifier and ProphecyModifier.                  *)
(*                                                                         *)
(* The system has registers and one array.  In the abstract system an      *)
(* array is any table of what is read from it, and so is what a store      *)
(* returns, but for the axioms that have been instantiated.  The index     *)
(* sort is finite, as it is in every BTOR2 file, so that there are no      *)
(* axioms about a lambda.                                                  *)
(***************************************************************************)
EXTENDS Integers, FiniteSetsExt

CONSTANTS
  Reg, Input,
  Index, Elem,
  Term,       (* the index terms of the system                             *)
  Systems,
  MaxBound    (* the argument k of check_until                             *)

Table == [Index -> Elem]

\* Initially the array is a constant array; a transition stores data at the
\* term write or leaves the array as it is, and may depend on what it reads at
\* the term read; bad depends on what is read at the term check, or says that
\* the array is not the constant array.
SystemType ==
  [strong       : BOOLEAN,                    \* cegp_strong_abstraction_
   consecRed    : BOOLEAN,                    \* cegp_consec_axiom_red_
   nonconsecRed : BOOLEAN,                    \* cegp_nonconsec_axiom_red_
   over         : [Term -> {"state", "input"}],
   index        : [Term -> [Reg \X Input -> Index]],
   write : Term, read : Term, check : Term,
   stores       : SUBSET (Reg \X Input),
   data         : [Reg \X Input -> Elem],
   value        : Elem,
   init         : SUBSET Reg,
   step         : SUBSET (Reg \X Input \X Elem \X Reg),
   bad          : SUBSET (Reg \X Elem),
   differs      : BOOLEAN]

ASSUME BoundAssumption == MaxBound \in Nat
ASSUME SystemsAssumption == Systems \subseteq SystemType
ASSUME SortsAssumption ==
  Input # {} /\ Index # {} /\ IsFiniteSet(Reg) /\ IsFiniteSet(Table) /\ IsFiniteSet(Term)

VARIABLES
  sys,
  pc,
  prophs,     (* the prophecy variables: their targets and delays          *)
  axioms,     (* the axioms in init, and for either end of trans           *)
  found,      (* what enumerate_axioms found at the bound                  *)
  reached,    (* CegProphecyArrays::reached_k_                             *)
  verdict,
  refuted     (* the bound at which no axiom was violated                  *)

vars == <<sys, pc, prophs, axioms, found, reached, verdict, refuted>>

----------------------------------------------------------------------------
(* Index terms: those of the system, the witness of the equality, and the  *)
(* prophecy variables or terms at a time, by their distance to the end.    *)
Wit   == "wit"
Now   == -1
ASSUME WitAssumption == Wit \notin Term
Terms == Term \cup IF sys.differs THEN {Wit} ELSE {}
Plain(t) == <<t, Now>>
AnyInput == CHOOSE i \in Input : TRUE

TermAt(t, c, i) == IF t = Wit THEN c.x ELSE sys.index[t][<<c.r, i>>]

\* What an index stands for; Guessed stands for several terms, each at a time.
Guessed == <<"guessed", 0>>
IndicesAt(j, c, i) ==
  IF j = Guessed THEN c.v ELSE IF j[2] = Now THEN {TermAt(j[1], c, i)} ELSE {c.p[j]}

TermOnlyCurr(t) == t = Wit \/ sys.over[t] = "state"
OnlyCurr(j) == j[2] # Now \/ TermOnlyCurr(j[1])

\* Axioms; those over the transition mention the array of the next state.
Indexed(j) ==
  {<<"CONSTARR", j>>, <<"STORE_READ", j>>}
  \cup (IF sys.strong THEN {} ELSE {<<"ARRAYEQ_READ", j>>, <<"ARRAYEQ_READ next", j>>})
AxiomsOver(J) ==
  {<<"STORE_WRITE", Plain(sys.write)>>}
  \cup (IF sys.differs THEN {<<"ARRAYEQ_WITNESS", Plain(Wit)>>} ELSE {})
  \cup UNION {Indexed(j) : j \in J}

OnlyCurrAxiom(ax) ==
  /\ OnlyCurr(ax[2])
  /\ ax[1] # "ARRAYEQ_READ next"
  /\ ax[1] \in {"STORE_READ", "STORE_WRITE"} => TermOnlyCurr(sys.write)
OnlyCurrOf(S) == {ax \in S : OnlyCurrAxiom(ax)}
NoNextOf(S)   == {ax \in S : ax[1] # "ARRAYEQ_READ next"}

\* The indices for which S has the axioms of a class, in c under input i.
Cells(S, class, c, i) ==
  {n \in Index : \E ax \in S : ax[1] = class /\ n \in IndicesAt(ax[2], c, i)}

\* Slip: what is not stored is kept, at the index that is written as well.
Known_Everywhere(S, c, i) ==
  [written |-> <<"STORE_WRITE", Plain(sys.write)>> \in S,
   kept    |-> Cells(S, "STORE_READ", c, i),
   next    |-> IF sys.strong THEN Index ELSE Cells(S, "ARRAYEQ_READ next", c, i)]

\* What the axioms in S say of the array after c: whether what is stored is read,
\* which cells a store keeps, and which are those of the term assigned.
Known(S, c, i) ==
  [written |-> <<"STORE_WRITE", Plain(sys.write)>> \in S,
   kept    |-> Cells(S, "STORE_READ", c, i) \ {TermAt(sys.write, c, i)},
   next    |-> IF sys.strong THEN Index ELSE Cells(S, "ARRAYEQ_READ next", c, i)]

----------------------------------------------------------------------------
(* The abstract system.  A state has the registers, the table of the       *)
(* array, the witness, the history variables (<<t, n>> is what t was n     *)
(* steps ago) and the values of the prophecy variables, and knows whether  *)
(* it is at time 0, where the constant array matters.                      *)

Depth(Q, t) == Max({0} \cup {q[2] : q \in {u \in Q : u[1] = t}})

\* What is read of the initial array where both axioms are instantiated.
IsConstant(c, i, S) ==
  \A n \in Cells(S, "CONSTARR", c, i) :
    sys.strong \/ n \in Cells(S, "ARRAYEQ_READ", c, i) => c.a[n] = sys.value

Histories(Q) == [UNION {{t} \X (1..Depth(Q, t)) : t \in Terms} -> Index]
Initial(S, Q, G) ==
  UNION {{c \in [r : sys.init, a : Table,
                 x : IF sys.differs THEN Index ELSE {CHOOSE n \in Index : TRUE},
                 h : Histories(Q), p : [Q -> Index],
                 v : IF G = {} THEN {{}} ELSE SUBSET Index, first : {TRUE}] :
            IsConstant(c, AnyInput, T)} : T \in {OnlyCurrOf(S)}}

\* What may be read of the next array at index n, where k is known.
Allowed(k, c, i, n) ==
  IF n \notin k.next THEN Elem
  ELSE IF <<c.r, i>> \notin sys.stores \/ n \in k.kept THEN {c.a[n]}
  ELSE IF n = TermAt(sys.write, c, i) /\ k.written THEN {sys.data[<<c.r, i>>]}
  ELSE Elem

\* Slip: the history is that of the term in the next step but one.
Recorded_Late(c, i) ==
  [v \in DOMAIN c.h |-> IF v[2] <= 2 THEN TermAt(v[1], c, i) ELSE c.h[<<v[1], v[2] - 1>>]]

\* hist_1' = target, hist_n' = hist_(n-1); a prophecy variable is frozen.
Recorded(c, i) ==
  [v \in DOMAIN c.h |-> IF v[2] = 1 THEN TermAt(v[1], c, i) ELSE c.h[<<v[1], v[2] - 1>>]]

StepsUnder(c, i, S) ==
  IF c.first /\ ~IsConstant(c, i, S) THEN {}
  ELSE [r : {r \in Reg : <<c.r, i, c.a[TermAt(sys.read, c, i)], r>> \in sys.step},
        a : UNION {{a \in Table : \A n \in Index : a[n] \in Allowed(k, c, i, n)} : k \in {Known(S, c, i)}},
        x : IF sys.differs THEN Index ELSE {c.x},
        h : {Recorded(c, i)}, p : {c.p}, v : {c.v}, first : {FALSE}]

\* bad_ with (proph = target) for every prophecy variable.
Foretold(c, Q) ==
  \A q \in Q : c.p[q] = IF q[2] = 0 THEN TermAt(q[1], c, AnyInput) ELSE c.h[q]

Bad(c, S, Q) ==
  /\ Foretold(c, Q)
  /\ IF sys.differs
     THEN /\ <<c.r, sys.value>> \in sys.bad
          /\ ~c.first
          /\ <<"ARRAYEQ_WITNESS", Plain(Wit)>> \in S
               /\ c.x \in Cells(S, "CONSTARR", c, AnyInput) => c.a[c.x] # sys.value
     ELSE <<c.r, c.a[TermAt(sys.check, c, AnyInput)]>> \in sys.bad

----------------------------------------------------------------------------
(* Queries.  The trace of n steps on which the axioms S, and those over    *)
(* the terms G at their times, hold at every time; at the last time only   *)
(* those in E.                                                             *)
GuessesHold(c, i, G, d) == \A g \in G : g[2] = d => TermAt(g[1], c, i) \in c.v

TraceUnder(n, init, trans, Q, G) ==
  LET layer[m \in 0..n] ==
        IF m = 0 THEN Initial(init, Q, G)
        ELSE UNION {StepsUnder(p[1], p[2], trans) :
                      p \in {q \in layer[m-1] \X Input : GuessesHold(q[1], q[2], G, n - m + 1)}}
  IN  layer[n]
Sat(n, S, E, Q, G) ==
  \E init \in {axioms.init \cup S},
     trans \in {axioms.source \cup S \cup IF G = {} THEN {} ELSE Indexed(Guessed)},
     end \in {E \cup IF n = 0 THEN axioms.init ELSE axioms.target} :
    \E c \in TraceUnder(n, init, trans, Q, G) : Bad(c, end, Q) /\ GuessesHold(c, AnyInput, G, 0)

\* index_set_; at bound 0 only axioms over current state variables count.
Indices(Q) == {Plain(t) : t \in Terms} \cup Q
Consecutive(n, Q) ==
  LET all == AxiomsOver(Indices(Q)) IN IF n = 0 THEN OnlyCurrOf(all) ELSE all
Excluded(n, S, Q, G) == ~Sat(n, S, OnlyCurrOf(S), Q, G)

\* Indices at a time.  One that mentions inputs is not taken at the last.
Guesses(n) ==
  IF n = 0 THEN {} ELSE {g \in Terms \X (0..n) : g[2] > 0 \/ TermOnlyCurr(g[1])}

\* Drop what is not needed to keep the query unsatisfiable.  While axioms are
\* dropped, those over inputs are asserted at the last time as well.
Without(S, D, n, Q) ==
  LET drop[left \in SUBSET D, kept \in SUBSET S] ==
        IF left = {} THEN kept
        ELSE LET ax   == CHOOSE ax \in left : TRUE
                 rest == kept \ {ax}
             IN  drop[left \ {ax}, IF Sat(n, rest, NoNextOf(rest), Q, {}) THEN kept ELSE rest]
  IN  drop[D, S]

\* reduce_consecutive_axioms; the core is the solver's choice, here one that
\* has as much as possible at other indices or at the index j dropped.
Chosen(n, Q) ==
  LET S == Consecutive(n, Q)
  IN  IF ~sys.consecRed THEN {S}
      ELSE {LET at == {ax \in S : ax[2] = j} IN Without(Without(S, S \ at, n, Q), at, n, Q) :
              j \in Indices(Q)}

\* Nonconsecutive axioms are looked for at the times closest to the end first,
\* and which are found violated is up to the solver's models: here none that
\* could be spared.  reduce_nonconsecutive_axioms spares the most distant ones.
Needed(n) ==
  LET suffice(G) == Excluded(n, Consecutive(n, prophs), prophs, G)
      upto(d) == {g \in Guesses(n) : g[2] <= d}
      first(G) == CHOOSE g \in G : \A f \in G : IF sys.nonconsecRed THEN f[2] <= g[2] ELSE g[2] <= f[2]
      spare[p \in (SUBSET Guesses(n)) \X SUBSET Guesses(n)] ==
        IF p[1] = {} THEN p[2]
        ELSE LET g    == first(p[1])
                 rest == p[2] \ {g}
             IN  spare[<<p[1] \ {g}, IF suffice(rest) THEN rest ELSE p[2]>>]
      nearest == upto(Min({d \in 0..n : suffice(upto(d))}))
  IN  spare[<<nearest, nearest>>]

----------------------------------------------------------------------------
(* The engine inside: any that keeps the promises of SafetyProver.         *)
Successors(c) == UNION {StepsUnder(c, i, axioms.source) : i \in Input}
IsBad(c) == Bad(c, IF c.first THEN axioms.init ELSE axioms.target, prophs)

\* The choices at a state depend on the registers, the table and the last step, but
\* for the histories, which are full after as many steps as the longest has.
ConcreteDiameter == Cardinality(Reg) * Cardinality(Table)
Diameter == ConcreteDiameter + Max({0} \cup {q[2] : q \in prophs}) + 1

\* What is reached, and what of it at the last step.
IsSafe ==
  LET closure[m \in 0..Diameter] ==
        IF m = 0 THEN [seen |-> Initial(axioms.init, prophs, {}), new |-> Initial(axioms.init, prophs, {})]
        ELSE LET last == closure[m-1]
                 next == (UNION {Successors(c) : c \in last.new}) \ last.seen
             IN  [seen |-> last.seen \cup next, new |-> next]
  IN  \A c \in closure[Diameter].seen : ~IsBad(c)
CexLengths(m) == {n \in 0..m : Sat(n, {}, {}, prophs, {})}

(* The concrete system.                                                    *)
ConcreteInit == {[r |-> r, a |-> [n \in Index |-> sys.value]] : r \in sys.init}
ConcreteNext(s) ==
  UNION {{[r |-> r,
           a |-> IF <<s.r, i>> \in sys.stores
                 THEN [s.a EXCEPT ![sys.index[sys.write][<<s.r, i>>]] = sys.data[<<s.r, i>>]] ELSE s.a] :
            r \in {r \in Reg : <<s.r, i, s.a[sys.index[sys.read][<<s.r, i>>]], r>> \in sys.step}} :
         i \in Input}
ConcreteBad(s) ==
  IF sys.differs THEN <<s.r, sys.value>> \in sys.bad /\ \E n \in Index : s.a[n] # sys.value
  ELSE <<s.r, s.a[sys.index[sys.check][<<s.r, AnyInput>>]]>> \in sys.bad

ConcreteCexLengths(m) ==
  LET layer[n \in 0..m] ==
        IF n = 0 THEN ConcreteInit ELSE UNION {ConcreteNext(s) : s \in layer[n-1]}
  IN  {n \in 0..m : \E s \in layer[n] : ConcreteBad(s)}

----------------------------------------------------------------------------
Start ==
  /\ pc = "enumerate"
  /\ prophs = {}
  /\ axioms = [init |-> {}, source |-> {}, target |-> {}]
  /\ found = "NONE"
  /\ reached = -1
  /\ verdict = "NONE"
  /\ refuted = -1
Init == sys \in Systems /\ Start

bound == reached + 1

\* enumerate_axioms: consecutive axioms as long as one is violated, then axioms
\* over indices at a time, until the trace formula is unsatisfiable.
Enumerate ==
  /\ pc = "enumerate"
  /\ found' = CASE ~Sat(bound, {}, {}, prophs, {})                              -> "NONE"
                [] Excluded(bound, Consecutive(bound, prophs), prophs, {})      -> "CONSECUTIVE"
                [] Excluded(bound, Consecutive(bound, prophs), prophs, Guesses(bound)) -> "NONCONSECUTIVE"
                [] OTHER                                                        -> "NOTHING VIOLATED"
  /\ pc' = "refine"
  /\ UNCHANGED <<sys, prophs, axioms, reached, verdict, refuted>>

\* The heuristic of check_until: look for axioms at the next bound as long as
\* there are any, up to the limit.
Refined(added) ==
  /\ reached' = bound
  /\ pc' = IF added /\ bound <= MaxBound THEN "enumerate" ELSE "check"

NothingToAdd ==
  /\ pc = "refine" /\ found = "NONE"
  /\ Refined(FALSE)
  /\ UNCHANGED <<sys, prophs, axioms, found, verdict, refuted>>

\* Slip: the axioms of the initial state are added to trans only.
RefineTs_TransOnly(S) ==
  axioms' = [init   |-> axioms.init,
             source |-> axioms.source \cup S,
             target |-> axioms.target \cup OnlyCurrOf(S)]

\* refine_ts.
RefineTs(S) ==
  axioms' = [init   |-> axioms.init \cup IF reached = -1 THEN S ELSE {},
             source |-> axioms.source \cup S,
             target |-> axioms.target \cup OnlyCurrOf(S)]

AddAxioms ==
  /\ pc = "refine" /\ found = "CONSECUTIVE"
  /\ \E S \in Chosen(bound, prophs) : RefineTs(S)
  /\ Refined(TRUE)
  /\ UNCHANGED <<sys, prophs, found, verdict, refuted>>

\* The indices are prophesied, which adds history variables as well, and
\* consecutive axioms are looked for again.  assert(ok) fails if they do not
\* suffice, and a variable cannot be made whose name is taken.
Prophesy ==
  /\ pc = "refine" /\ found = "NONCONSECUTIVE"
  /\ \E new \in {Needed(bound)} :
     \E Q \in {prophs \cup new} :
       IF new \cap prophs = {} /\ Excluded(bound, Consecutive(bound, Q), Q, {})
       THEN /\ prophs' = Q
            /\ \E S \in Chosen(bound, Q) : RefineTs(S)
            /\ Refined(TRUE)
       ELSE pc' = "failed" /\ UNCHANGED <<prophs, axioms, reached>>
  /\ UNCHANGED <<sys, found, verdict, refuted>>

\* UNKNOWN, since the index sort is finite.
ConcreteCex ==
  /\ pc = "refine" /\ found = "NOTHING VIOLATED"
  /\ refuted' = bound
  /\ verdict' = "UNKNOWN"
  /\ pc' = "done"
  /\ UNCHANGED <<sys, prophs, axioms, found, reached>>

Proved ==
  /\ pc = "check"
  /\ IsSafe
  /\ verdict' = "TRUE"
  /\ pc' = "done"
  /\ UNCHANGED <<sys, prophs, axioms, found, reached, refuted>>

GiveUp ==
  /\ pc = "check"
  /\ CexLengths(MaxBound) = {}
  /\ verdict' = "UNKNOWN"
  /\ pc' = "done"
  /\ UNCHANGED <<sys, prophs, axioms, found, reached, refuted>>

AbstractCex ==
  /\ pc = "check"
  /\ \E n \in CexLengths(MaxBound) :
       /\ \A m \in 0..n-1 : m \notin CexLengths(n-1)
       /\ reached' = n - 1
  /\ pc' = "enumerate"
  /\ UNCHANGED <<sys, prophs, axioms, found, verdict, refuted>>

Ended == pc \in {"done", "failed"}

\* check_until has returned or thrown.
Finished == Ended /\ UNCHANGED vars

Next ==
  \/ Enumerate
  \/ NothingToAdd
  \/ AddAxioms
  \/ Prophesy
  \/ ConcreteCex
  \/ Proved
  \/ GiveUp
  \/ AbstractCex
  \/ Finished

\* The program goes on until it ends: weak fairness of Next, which can take a
\* step that changes something until then (TLC would report a deadlock).
Fairness == []<>Ended \/ []<><<Next>>_vars
Spec == Init /\ [][Next]_vars /\ Fairness

----------------------------------------------------------------------------
(* No axiom and no prophecy hides a counterexample: with the prophesied    *)
(* values guessed right it is one of the refined system, of the same       *)
(* length, so that TRUE about that system is TRUE about the concrete one.  *)
CounterexamplesSurvive ==
  /\ ConcreteCexLengths(MaxBound) \subseteq CexLengths(MaxBound)
  /\ verdict = "TRUE" => ConcreteCexLengths(ConcreteDiameter) = {}

(* The axioms that are looked for suffice.  Once indices are prophesied,   *)
(* axioms over the variables of one step rule out what needed axioms over  *)
(* several times, as assert(ok) in cegar_refine has it, and no index is    *)
(* prophesied twice.  And there is no false alarm: where no axiom is       *)
(* violated, the concrete system has a counterexample of that length.      *)
AxiomsSuffice ==
  /\ pc # "failed"
  /\ refuted # -1 => refuted \in ConcreteCexLengths(refuted)
=============================================================================
