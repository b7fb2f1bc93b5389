------------------------------ MODULE SygusPdr ------------------------------
(***************************************************************************)
(* IC3 whose clauses are made of enumerated terms (engines/syguspdr.cpp    *)
(* with utils/syntax_analysis*.cpp, sygus_predicate_constructor.cpp,       *)
(* partial_model.cpp).  The system is functional and without inputs or     *)
(* constraints; operator abstraction is off.                               *)
(*                                                                         *)
(* inductive_generalization and try_recursive_block_goal call each other;  *)
(* calls is the stack of the former, each with the queue of the latter,    *)
(* which has one goal per frame, the top first.  The learner replaces      *)
(* subterms by terms of equal value, which is any choice from a pool.      *)
(***************************************************************************)
EXTENDS IC3, TLC

CONSTANTS
  Width,   (* the number of bits of each sort                              *)
  BitsOf   (* the bits of each symbol, as terms                            *)

ASSUME WidthAssumption == \A x \in Symbols : /\ Width[x.sort] \in Nat \ {0}
                                              /\ \A b \in BitsOf[x] : Width[b.sort] = 1

VARIABLES
  calls,   (* the calls of inductive_generalization, the innermost first   *)
  tables,  (* terms_cache_: stage, terms and constants by variables        *)
  preds    (* cex_term_map_: the predicates of each model                  *)

sygus == <<calls, tables, preds>>
vars == <<baseVars, sygus>>

----------------------------------------------------------------------------
(* Terms and predicates.  A model is the set of its states; its variables  *)
(* are those the set depends on.                                           *)

Wide(t) == Width[t.sort] > 1
Over(T, W) == {t \in T : SymbolsOfTerm(t) # {} /\ SymbolsOfTerm(t) \subseteq W}

\* What TermExtractor and ConstantExtractor find in init and the updates.
Design == sys.parts["init"].terms \cup sys.parts["trans"].terms
Constants == {t \in Design : SymbolsOfTerm(t) = {}}
Narrow(T, n) == {t \in T : Width[t.sort] < n}

\* term_const_w1_const.
Zero == [sort |-> "bv1", val |-> [s \in State |-> 0]]
WithZero(T) == IF \A t \in T : Wide(t) THEN T \cup {Zero} ELSE T

\* SetupTermsForVarModelNormal starts with the terms below a width, which grows
\* until there is one; in the other modes there are variables and constants,
\* and their bits or the slices the design takes of them.
FirstWidth(T) == Min({n \in {opt.width * k : k \in 1..3} : Narrow(T, n) # {}})
Table(stage, T, C) == [stage |-> stage, terms |-> T, consts |-> WithZero(C)]
DesignTable(W) ==
  LET n == FirstWidth(Over(Design, W) \cup Constants)
  IN  Table("WPARTIAL", Narrow(Over(Design, W), n), Narrow(Constants, n))

Slices(W) == Over(sys.slices, W)
SplitTable(W) == Table("WPARTIAL", W \cup Slices(W), Constants)
VariableTable(W) == Table("VCLTE", W, Constants)

BitTerms(W) == UNION {BitsOf[x] : x \in {y \in W : Wide(y)}}
BitTable(W) == Table("EXTRACTBITS", W \cup BitTerms(W), Constants)

FirstTable(W) ==
  CASE opt.collect = "design" -> DesignTable(W)
    [] opt.collect = "split"  -> SplitTable(W)
    [] opt.collect = "vc"     -> VariableTable(W)
    [] opt.collect = "ext"    -> BitTable(W)

TableOf(W) == IF W \in DOMAIN tables THEN tables[W] ELSE FirstTable(W)
Size(T) == Cardinality(T.terms) + Cardinality(T.consts)

\* terms_to_predicates: what holds in the model of a constant and a term, or of
\* two terms.  One of the constants of width 1 is enough.
Equal(a, b) == {s \in State : a.val[s] = b.val[s]}
AtMostOf(a, b) == {s \in State : a.val[s] <= b.val[s]}
PairsOf(T) ==
  LET narrow == {c \in T.consts : ~Wide(c)}
      consts == {c \in T.consts : Wide(c)} \cup {CHOOSE c \in narrow : TRUE}
  IN  {p \in (consts \cup T.terms) \X T.terms : p[1].sort = p[2].sort /\ p[1] # p[2]}
PredicatesOf(m, T) ==
  LET equal == {Equal(p[1], p[2]) : p \in PairsOf(T)}
      order == UNION {{AtMostOf(p[1], p[2]), AtMostOf(p[2], p[1])} : p \in {q \in PairsOf(T) : Wide(q[1])}}
  IN  ({IF m \subseteq e THEN e ELSE Negated(e) : e \in equal}
         \cup IF T.stage = "VCLTE" THEN {o \in order : m \subseteq o} ELSE {}) \ {State}

\* The next stage, with terms of any width.
Widened(W, T) ==
  [T EXCEPT !.stage = "WALL",
            !.terms = @ \cup IF opt.collect = "design" THEN Over(Design, W) ELSE {},
            !.consts = @ \cup Constants]

\* What the learner may make: it needs parents it has seen, which only the
\* first mode has.
Learned(W, T) ==
  LET pool == IF opt.collect = "design" THEN Over(sys.pool, W) \ T.terms ELSE {}
  IN  {[T EXCEPT !.stage = "FROMCEX", !.terms = @ \cup N] : N \in (SUBSET pool) \ {{}}}

WithBits(W, T) == [T EXCEPT !.stage = "EXTRACTBITS", !.terms = @ \cup BitTerms(W)]

\* Slip: terms of any width are the last.
MoreTables_NoBits(W, T) ==
  IF Size(Widened(W, T)) > Size(T) THEN {Widened(W, T)} ELSE {T}

\* GetMoreTerms: terms of any width, terms the learner makes, the bits.
MoreTables(W, T) ==
  IF T.stage \in {"WPARTIAL", "VCLTE"} /\ Size(Widened(W, T)) > Size(T) THEN {Widened(W, T)}
  ELSE {WithBits(W, T)} \cup IF T.stage # "EXTRACTBITS" THEN Learned(W, T) ELSE {}

----------------------------------------------------------------------------
(* inductive_generalization.                                               *)

Call(n, m) == [idx |-> n, post |-> m, may |-> <<>>, size |-> 0, from |-> {}]
Current == Head(calls)
Update(c) == calls' = <<c>> \o Tail(calls)
Variables == SymbolsOf(Current.post)

Generalize ==
  /\ pc = "queue"
  /\ opt.engine = "sygus"
  /\ \E g \in Blockable :
       /\ goals' = goals \ {g}
       /\ goal' = g
       /\ \E m \in Target(g) : calls' = <<Call(g.idx, m)>>
  /\ pc' = "predicates"
  /\ UNCHANGED <<setup, abstraction, frames, cex, i, gen, needed, level, todo, reached, answer,
                 tables, preds>>

\* setup_cex_info and PredConstructor: the predicates of m with table T; those
\* it has had stay.
Collect(m, T) == (IF m \in DOMAIN preds THEN preds[m] ELSE {}) \cup PredicatesOf(m, T)
Remember(P) ==
  /\ tables' = (Variables :> TableOf(Variables)) @@ tables
  /\ preds' = (Current.post :> P) @@ preds

\* The states the predicates have to avoid: initial states and what is reached
\* from the frame before.
Into(n) == sys.init \cup {p[2] : p \in {q \in rel : q[1] \in Frame(n-1)}}

\* select_predicates: no predicate of the core can be left out.
Irreducible(P, S) ==
  {G \in SUBSET P : ~Meets(Denotes(G), S) /\ \A l \in G : Meets(Denotes(G \ {l}), S)}

Sufficient ==
  /\ pc = "predicates"
  /\ \E P \in {Collect(Current.post, TableOf(Variables))} :
       /\ ~Meets(Denotes(P), Into(Current.idx))
       /\ Remember(P)
       /\ gen' \in Irreducible(P, Into(Current.idx))
  /\ level' = Current.idx
  /\ calls' = Tail(calls)
  /\ pc' = "raise"
  /\ UNCHANGED <<setup, abstraction, frames, goals, cex, i, goal, needed, todo, reached, answer>>

\* The predicates do not exclude an initial state: more terms are needed.
MissInitial ==
  /\ pc = "predicates"
  /\ \E P \in {Collect(Current.post, TableOf(Variables))} :
       /\ Remember(P)
       /\ \E t \in Denotes(P) \cap sys.init : \E W \in SUBSET Symbols :
            /\ AsIn(W, t) \subseteq sys.init
            /\ Update([Current EXCEPT !.from = AsIn(W, t) \cap Frame(Current.idx - 1)])
  /\ pc' = "terms"
  /\ UNCHANGED <<setup, abstraction, frames, goals, cex, i, work, reached, answer>>

\* The predicates do not exclude a state that is reached from the frame before:
\* ExtractPartialAndFullModel, and what it came from may be unreachable itself.
MissStep ==
  /\ pc = "predicates"
  /\ \E P \in {Collect(Current.post, TableOf(Variables))} :
       /\ Remember(P)
       /\ \E p \in rel :
            /\ p[1] \in Frame(Current.idx - 1) /\ p[2] \in Denotes(P) \ sys.init
            /\ \E W \in Leading(rel, sys.free, {u \in State : SameOn(Variables, u, p[2])}, p[1], p[2]) :
                 Update([Current EXCEPT
                           !.may = <<[idx |-> Current.idx - 1, trace |-> <<{AsIn(W \ sys.free, p[1])}>>]>>,
                           !.size = Size(TableOf(Variables)),
                           !.from = AsIn(W, p[1]) \cap Frame(Current.idx - 1)])
  /\ pc' = "may"
  /\ UNCHANGED <<setup, abstraction, frames, goals, cex, i, work, reached, answer>>

\* propose_new_terms, one round: until the predicates exclude the state, or
\* there are no more terms, which assert(succ) forbids.
Propose ==
  /\ pc = "terms"
  /\ \E T \in MoreTables(Variables, tables[Variables]) :
       /\ tables' = [tables EXCEPT ![Variables] = T]
       /\ IF Size(T) = Size(tables[Variables])
          THEN pc' = "predicates" /\ UNCHANGED preds
          ELSE \E P \in {Collect(Current.post, T)} :
                 /\ preds' = [preds EXCEPT ![Current.post] = P]
                 /\ pc' = IF Meets(Denotes(P), sys.init \cup {p[2] : p \in {q \in rel : q[1] \in Current.from}})
                          THEN "terms" ELSE "predicates"
  /\ UNCHANGED <<setup, abstraction, frames, goals, cex, i, work, reached, answer, calls>>

----------------------------------------------------------------------------
(* try_recursive_block_goal, for goals that need not be blocked.           *)

\* Goals that have become blocked are popped first.
Pending == {n \in DOMAIN Current.may : Current.may[n].idx = 0 \/ ~IsBlocked(Current.may[n])}
From(n) == SubSeq(Current.may, n, Len(Current.may))

MayDone ==
  /\ pc = "may"
  /\ Pending = {}
  /\ Update([Current EXCEPT !.may = <<>>])
  /\ pc' = "predicates"
  /\ UNCHANGED <<setup, abstraction, frames, goals, cex, i, work, reached, answer, tables, preds>>

Top == Min(Pending)
MayGoal == Current.may[Top]
MayTarget == Denotes(Target(MayGoal))

\* rel_ind_check_may_block leaves the goal itself in the frame before.
MaySteps == {p \in rel : p[1] \in Labels(MayGoal.idx - 1) /\ p[2] \in MayTarget}
Preimages ==
  UNION {PartialModels(rel, sys.free, MayTarget, p[1], p[2]) : p \in MaySteps}

MayPredecessor ==
  /\ pc = "may"
  /\ Pending # {} /\ MayGoal.idx > 0
  /\ \E c \in Preimages \ {State} :
       Update([Current EXCEPT !.may = <<[idx |-> MayGoal.idx - 1, trace |-> <<{c}>>]>> \o From(Top)])
  /\ UNCHANGED <<setup, abstraction, frames, goals, cex, pc, i, work, reached, answer, tables, preds>>

\* The goal is reached, or may be: it has come back to frame 0, its predecessor
\* is the empty model, or it has an initial state.
MayFail ==
  /\ pc = "may"
  /\ Pending # {}
  /\ MayGoal.idx > 0 => \/ State \in Preimages
                        \/ MaySteps = {} /\ Meets(MayTarget, sys.init)
  /\ Update([Current EXCEPT !.may = <<>>])
  /\ pc' = IF Size(tables[Variables]) > Current.size THEN "predicates" ELSE "terms"
  /\ UNCHANGED <<setup, abstraction, frames, goals, cex, i, work, reached, answer, tables, preds>>

MayGeneralize ==
  /\ pc = "may"
  /\ Pending # {} /\ MayGoal.idx > 0
  /\ MaySteps = {} /\ ~Meets(MayTarget, sys.init)
  /\ \E m \in Target(MayGoal) :
       calls' = <<Call(MayGoal.idx, m), [Current EXCEPT !.may = From(Top + 1)]>> \o Tail(calls)
  /\ pc' = "predicates"
  /\ UNCHANGED <<setup, abstraction, frames, goals, cex, i, work, reached, answer, tables, preds>>

\* A may-goal is not tried again at a later frame.
MayBlock ==
  /\ pc = "raise"
  /\ calls # <<>>
  /\ ~CanRaise
  /\ frames' = Constrain(level, gen)
  /\ pc' = "may"
  /\ UNCHANGED <<setup, abstraction, goals, cex, i, work, reached, answer, sygus>>

----------------------------------------------------------------------------
Init ==
  /\ BaseInit
  /\ calls = <<>>
  /\ tables = <<>>
  /\ preds = <<>>

Next ==
  \/ /\ calls = <<>> \/ CanRaise
     /\ BaseNext
     /\ UNCHANGED sygus
  \/ Generalize
  \/ Sufficient
  \/ MissInitial
  \/ MissStep
  \/ Propose
  \/ MayDone
  \/ MayPredecessor
  \/ MayFail
  \/ MayGeneralize
  \/ MayBlock

\* check_until is one thread and the solver answers.
Spec == Init /\ [][Next]_vars /\ WF_vars(Next)
=============================================================================
