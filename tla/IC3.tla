-------------------------------- MODULE IC3 --------------------------------
(***************************************************************************)
(* IC3 (engines/ic3base.cpp) in six flavours: over state bits (ic3.cpp,    *)
(* ic3bits.cpp), model based over equalities (mbic3.cpp), with implicit    *)
(* predicate abstraction and refinement (ic3ia.cpp,                        *)
(* modifiers/implicit_predicate_abstractor.cpp), with the terms of the     *)
(* system, refined as well (ic3sa.cpp, of which see module IC3SA), and     *)
(* with enumerated terms (syguspdr.cpp, whose generalisation of clauses is *)
(* that of module SygusPdr).                                               *)
(*                                                                         *)
(* A literal is the set of states it denotes and a cube a set of literals. *)
(* A clause of a frame is represented by the cube it negates.  One action  *)
(* per solver query.  Where the code goes through the literals of a cube,  *)
(* the clauses of a frame or proof goals of the same index in some order,  *)
(* the model takes them in any order; a model, an unsatisfiable core or an *)
(* interpolant is any one the solver may return.  The solver decides every *)
(* query.                                                                  *)
(***************************************************************************)
EXTENDS IC3SA, FiniteSetsExt

CONSTANTS
  Cases,      (* pairs of a system and the options it is checked with      *)
  Bits,       (* the state bits                                            *)
  Equalities, (* the equalities between a state variable and a value       *)
  Split       (* the two inequalities split_eq makes of an equality        *)

Systems == {c[1] : c \in Cases}

OptionType ==
  [engine   : {"ic3", "mbic3", "ic3ia", "ic3sa", "sygus"},
   bound    : Nat,         \* the argument k of check_until
   pregen   : BOOLEAN,     \* ic3_pregen_; IC3IA switches it off
   preimage : BOOLEAN,     \* ic3_functional_preimage_
   indgen   : BOOLEAN,     \* ic3_indgen_
   mode     : 0..2,        \* mbic3_indgen_mode
   core     : BOOLEAN,     \* ic3_unsatcore_gen_
   sim      : BOOLEAN,     \* ic3ia_sim_cex_
   reduce   : BOOLEAN,     \* ic3ia_reduce_preds_
   initial  : 0..4,        \* ic3sa_initial_terms_lvl_
   func     : BOOLEAN,     \* ic3sa_func_refine_
   interp   : BOOLEAN,     \* ic3sa_interp_
   collect  : {"design", "ext", "split", "vc"}, \* sygus_term_mode_
   width    : Nat \ {0}]   \* sygus_initial_term_width_ and _inc_

\* A system also has the relation of each input (moves), says whether it counts
\* as deterministic and what interpolants are made of (atoms); for IC3SA it says
\* which symbols have no update, which terms and predicates each of its parts
\* has and which are leaves.
ASSUME SystemsAssumption ==
  \A s \in Systems :
    /\ {s.init, s.bad} \cup s.atoms \subseteq SUBSET State
    /\ s.moves \subseteq SUBSET (State \X State) /\ s.trans = UNION s.moves
    /\ s.deterministic \in BOOLEAN
    /\ s.deterministic => \A m \in s.moves, t \in State : \E u \in State : <<t, u>> \in m

\* IC3SA::check_ts, SygusPdr::check_ts: variables without update are free, the
\* state determines the others.
Functional(s) ==
  /\ s.free \subseteq Symbols
  /\ \A t, v \in State : \E u \in State : <<t, u>> \in s.trans /\ SameOn(s.free, u, v)
  /\ \A p, q \in s.trans : p[1] = q[1] => SameOn(Symbols \ s.free, p[2], q[2])

\* SygusPdr leaves variables without update out of its cubes, which then have
\* to be all or nothing initial states.
InitIsClosed(s) == \A p \in s.init \X State : SameOn(Symbols \ s.free, p[1], p[2]) => p[2] \in s.init

\* The literals of a model tell whether it is in S.
DecidedBy(L, S) == \A s, t \in State : (\A l \in L : s \in l => t \in l) => (s \in S <=> t \in S)
DecidedByPart(s, part, S) ==
  DecidedBy(NoValues(Signed(s.parts[part].preds)) \cup Partition(s.parts[part].terms), S)

\* Below level 2 of the initial terms, init or bad may have no literal of its
\* own, and the asserts GoalsAreNew is about can fail.
ASSUME OptionsAssumption ==
  \A c \in Cases : /\ c[2] \in OptionType
                    /\ (c[2].engine = "ic3ia" => ~c[2].pregen)
                    /\ (c[2].engine # "mbic3" => c[2].mode = 0)
                    /\ (c[2].engine = "ic3sa" =>
                          /\ Functional(c[1]) /\ c[2].initial >= 2
                          /\ DecidedByPart(c[1], "init", c[1].init)
                          /\ DecidedByPart(c[1], "bad", c[1].bad))
                    /\ (c[2].engine = "sygus" =>
                          /\ Functional(c[1]) /\ InitIsClosed(c[1])
                          /\ c[2].pregen /\ c[2].indgen /\ ~c[2].core)
ASSUME LiteralsAssumption ==
  /\ {Bits, Equalities} \subseteq SUBSET SUBSET State
  /\ Split \in [Equalities -> SUBSET SUBSET State]
  /\ \A e \in Equalities : \A l \in Split[e] : e \subseteq l
  /\ \A L \in {Signed(Bits), Equalities} : \A s, t \in State :
       (\A l \in L : s \in l => t \in l) => s = t

VARIABLES
  sys, opt,   (* never change                                              *)
  lits,       (* what model cubes are made of; IC3IA: predset_ and negations *)
  rel,        (* ts_.trans(), for IC3IA that of the abstraction            *)
  terms, kept,(* IC3SA: term_abstraction_ and projection_set_              *)
  frames,     (* frames_ from 1 on; frame 0 is init                        *)
  goals,      (* the proof goal queue                                      *)
  cex,        (* cex_, bad being a cube of one literal                     *)
  pc,         (* the next query                                            *)
  i,          (* the loop variable of check_until                          *)
  goal,       (* the proof goal whose target is being blocked              *)
  gen, needed,(* the cube that replaces it; literals that cannot be dropped*)
  level,      (* the frame being generalised for, or propagated            *)
  todo,       (* cubes of that frame still to propagate                    *)
  reached,    (* reached_k_                                                *)
  verdict,    (* what check_until returned                                 *)
  invar,      (* invar_                                                    *)
  witness     (* witness_, the frames compute_witness recorded             *)

setup == <<sys, opt>>
abstraction == <<lits, rel, terms, kept>>
work == <<goal, gen, needed, level, todo>>
answer == <<verdict, invar, witness>>
baseVars == <<setup, abstraction, frames, goals, cex, pc, i, work, reached, answer>>

----------------------------------------------------------------------------
(* Cubes, frames and queries.                                              *)

Cube(s) == {l \in lits : s \in l}
Meets(S, T) == S \cap T # {}

frontier == Len(frames)

\* get_frame_term: a frame is made of the clauses kept in it and in all later
\* ones, and of the property.
Frame(n) ==
  IF n = 0 THEN sys.init
  ELSE {s \in State \ sys.bad : \A m \in n..frontier : \A c \in frames[m] : s \notin Denotes(c)}

\* assert_frame_labels: the labels of frame n and of all later ones, which for
\* n = 0 adds the clauses of frame 1 to init.
Labels(n) == IF n = 0 THEN sys.init \cap Frame(1) ELSE Frame(n)

\* rel_ind_check: the transitions from frame n-1 outside cube c into it.
RelInd(n, c) ==
  {p \in rel : p[1] \in Labels(n-1) \ Denotes(c) /\ p[2] \in Denotes(c)}

\* Slip: a core that meets the initial states is kept.
Cores_Unfixed(n, c) ==
  LET into == {p[2] : p \in {q \in rel : q[1] \in Labels(n-1) \ Denotes(c)}}
  IN  IF opt.core
      THEN {G \in SUBSET c : G # {} /\ ~Meets(Denotes(G), into)}
      ELSE {c}

\* What rel_ind_check returns on UNSAT: a part of c whose target literals are
\* enough, with literals put back until it has no initial state.
Cores(n, c) ==
  LET into == {p[2] : p \in {q \in rel : q[1] \in Labels(n-1) \ Denotes(c)}}
  IN  IF opt.core
      THEN {G \in SUBSET c : G # {} /\ ~Meets(Denotes(G), into \cup sys.init)}
      ELSE {c}

\* split_eq, which only MBIC3 calls.
SplitCube(c) ==
  UNION {IF l \in Equalities THEN Split[l] ELSE {l} : l \in c}

\* Slip: every system is taken for a deterministic one.
AlsoPredecessor_AnySystem(n, C, m, t) ==
  {u \in State : \A v \in State : <<u, v>> \in m => v \in C}

\* The states predecessor_generalization may add to a predecessor s that goes
\* to t by move m: all of whose successors by m are in C, or which can go to
\* t as well, from the same frame.  The negation of the second reads: outside
\* the preimage formula.
AlsoPredecessor(n, C, m, t) ==
  IF sys.deterministic
  THEN {u \in State : \A v \in State : <<u, v>> \in m => v \in C}
  ELSE {u \in Frame(n-1) \ C : <<u, t>> \in m}

\* The predecessors get_model_ic3formula and predecessor_generalization may
\* make of s for goal C at frame n.  The functional preimage substitutes in
\* the label of the transition relation (mbic3.cpp:331), so that it is that
\* label, which says nothing of the state.
Predecessors(n, C, m, s, t) ==
  IF ~opt.pregen THEN {Cube(s)}
  ELSE IF opt.engine = "sygus" THEN {{c} : c \in PartialModels(rel, sys.free, C, s, t)}
  ELSE IF opt.engine = "ic3sa"
  THEN UNION {IF n = 1 THEN {In(W, Cube(s))} ELSE Separated(In(W, Cube(s)), Cube(s), Frame(n-2)) :
                W \in Justifying(rel, sys.free, kept, C, s, t)}
  ELSE IF n = 1 THEN {Cube(s)}
  ELSE IF opt.engine = "mbic3" /\ opt.preimage THEN {{State}}
  ELSE {G \in SUBSET (IF opt.engine = "mbic3" THEN SplitCube(Cube(s)) ELSE Cube(s)) :
          G # {} /\ Denotes(G) \subseteq AlsoPredecessor(n, C, m, t)}

\* The transition relation of each input; IC3IA has that of the abstraction,
\* and IC3SA and SygusPdr no inputs.
Moves == IF opt.engine \in {"ic3ia", "ic3sa", "sygus"} THEN {rel} ELSE sys.moves

----------------------------------------------------------------------------
(* Predicate abstraction: the next state is only required to agree with a  *)
(* concrete one on the predicates.                                         *)

AbstractTrans(L) ==
  UNION {{p[1]} \X {u \in State : \A l \in L : u \in l <=> p[2] \in l} : p \in sys.trans}

\* What is reachable by R along the sets of C: empty when interpolants over
\* the literals R is built from rule the trace out.
Follow(R, C) ==
  LET after[n \in 1..Len(C)] ==
        IF n = 1 THEN C[1]
        ELSE C[n] \cap {p[2] : p \in {q \in R : q[1] \in after[n-1]}}
  IN  after[Len(C)]

\* IC3IA::refine asks for the cubes of the trace, or for any path to bad of
\* its length.
Along == [n \in DOMAIN cex |-> Denotes(cex[n])]
RefineQuery ==
  IF opt.sim THEN Along
  ELSE [n \in DOMAIN cex |-> IF n = 1 THEN sys.init
                             ELSE IF n = Len(cex) THEN sys.bad
                             ELSE State \ sys.bad]

\* reduce_predicates keeps a core of the fresh predicates.  All of them stay
\* without it, and when it fails: they do not rule the cubes of the trace out,
\* or these are ruled out by themselves and the core is empty.
Reduced(A) ==
  {A} \cup
  {R \in SUBSET A : /\ opt.reduce /\ R # {}
                    /\ Follow(AbstractTrans(lits \cup Signed(R)), Along) = {}}

\* The executions along cex that end in bad, as sequences.
Executions(C) ==
  LET prefix[n \in 1..Len(C)] ==
        IF n = 1 THEN {<<s>> : s \in C[1] \cap sys.init}
        ELSE UNION {{Append(p, s) : s \in {t \in C[n] : <<p[n-1], t>> \in sys.trans}}
                      : p \in prefix[n-1]}
  IN  {p \in prefix[Len(C)] : p[Len(C)] \in sys.bad}
AnyPath == [n \in DOMAIN cex |-> State]

\* compute_witness: a plain BMC query of the length of cex, guided by its
\* cubes when that is possible.
WitnessOf(p) == [t \in 0..Len(p)-1 |-> p[t+1]]
Witnesses ==
  LET guided == Executions(Along)
  IN  IF guided # {} THEN guided ELSE Executions(AnyPath)

----------------------------------------------------------------------------
\* IC3SA::initialize: the parts of the system whose terms and predicates are
\* collected, the leaves of all parts at the lower levels.
Mined ==
  CASE opt.initial = 0 -> {}
    [] opt.initial = 1 -> {"bad"}
    [] opt.initial = 3 -> {"init", "bad"}
    [] OTHER           -> {"init", "trans", "bad"}
FirstTerms ==
  (UNION {sys.parts[p].terms : p \in Mined}) \cup IF opt.initial <= 2 THEN sys.leaves ELSE {}
FirstPredicates == UNION {sys.parts[p].preds : p \in Mined}

\* IC3IA starts from the predicates of init and of bad, each being one atom;
\* the model of SygusPdr is one literal.
FirstLiterals ==
  CASE opt.engine = "ic3"   -> Signed(Bits)
    [] opt.engine = "mbic3" -> Equalities
    [] opt.engine = "ic3ia" -> Signed({sys.init, sys.bad})
    [] opt.engine = "ic3sa" -> NoValues(Signed(FirstPredicates)) \cup Partition(FirstTerms)
    [] opt.engine = "sygus" -> {{s} : s \in State}

BaseInit ==
  /\ \E c \in Cases : sys = c[1] /\ opt = c[2]
  /\ lits = FirstLiterals
  /\ rel = IF opt.engine = "ic3ia" THEN AbstractTrans(lits) ELSE sys.trans
  /\ terms = (IF opt.engine = "ic3sa" THEN FirstTerms ELSE {}) /\ kept = {}
  /\ frames = <<{}>>
  /\ goals = {}
  /\ cex = <<>>
  /\ pc = "loop"
  /\ i = 0
  /\ goal = [idx |-> 0, trace |-> <<>>] /\ gen = {} /\ needed = {}
  /\ level = 0 /\ todo = {}
  /\ reached = -1
  /\ verdict = "NONE" /\ invar = {} /\ witness = <<>>

\* The bounds are used up.
GiveUp ==
  /\ pc = "loop"
  /\ i > opt.bound
  /\ pc' = "done"
  /\ verdict' = "UNKNOWN"
  /\ UNCHANGED <<setup, abstraction, frames, goals, cex, i, work, reached, invar, witness>>

\* step has nothing to do for bound 1, which step_01 completes with bound 0.
Skip ==
  /\ pc = "loop"
  /\ i <= opt.bound
  /\ i <= reached
  /\ i' = i + 1
  /\ UNCHANGED <<setup, abstraction, frames, goals, cex, pc, work, reached, answer>>

\* A counterexample has been found, which for IC3IA may be spurious.
Trace(C) == cex' = C /\ pc' = "refine"

AtStep == pc = "loop" /\ reached < i /\ i <= opt.bound

\* step_01: bad in an initial state.
InitialBad ==
  /\ AtStep
  /\ reached = -1
  /\ Meets(sys.init, sys.bad)
  /\ Trace(<<{sys.bad}>>)
  /\ UNCHANGED <<setup, abstraction, frames, goals, i, work, reached, answer>>

\* step_01: no bad state in init, but one is reached from it in one step.
OneStepBad ==
  /\ AtStep
  /\ reached < 1
  /\ reached = -1 => ~Meets(sys.init, sys.bad)
  /\ \E p \in rel :
       /\ p[1] \in sys.init /\ p[2] \in sys.bad
       /\ Trace(<<Cube(p[1]), {sys.bad}>>)
  /\ reached' = 0
  /\ UNCHANGED <<setup, abstraction, frames, goals, i, work, answer>>

\* step_01: neither.
NoBadWithinOneStep ==
  /\ AtStep
  /\ reached < 1
  /\ reached = -1 => ~Meets(sys.init, sys.bad)
  /\ \A p \in rel : ~(p[1] \in sys.init /\ p[2] \in sys.bad)
  /\ reached' = 1
  /\ i' = i + 1
  /\ UNCHANGED <<setup, abstraction, frames, goals, cex, pc, work, answer>>

\* The transitions from the frontier into bad.
ReachesBad == {p \in rel : p[1] \in Labels(frontier) /\ p[2] \in sys.bad}

\* block_all: a state of the frontier that reaches bad is the first goal.
FindGoal ==
  /\ AtStep
  /\ reached >= 1
  /\ \E p \in ReachesBad : \E m \in Moves :
       /\ p \in m
       /\ \E c \in Predecessors(frontier + 1, sys.bad, m, p[1], p[2]) :
            goals' = {[idx |-> frontier, trace |-> <<c>>]}
  /\ pc' = "queue"
  /\ UNCHANGED <<setup, abstraction, frames, cex, i, work, reached, answer>>

\* block_all has nothing left to block; the frames grow by one and the
\* clauses of frame 1 are propagated first.
NoGoal ==
  /\ AtStep
  /\ reached >= 1
  /\ ReachesBad = {}
  /\ frames' = Append(frames, {})
  /\ pc' = "propagate"
  /\ level' = 1
  /\ todo' = frames[1]
  /\ UNCHANGED <<setup, abstraction, goals, cex, i, goal, gen, needed, reached, answer>>

----------------------------------------------------------------------------
(* Proof goals.                                                            *)

Target(g) == Head(g.trace)
Lowest == {g \in goals : \A h \in goals : g.idx <= h.idx}

\* A goal that has come back to an initial state.
ReachInit ==
  /\ pc = "queue"
  /\ \E g \in Lowest :
       /\ g.idx = 0
       /\ Trace(Append(g.trace, {sys.bad}))
  /\ goals' = {}
  /\ UNCHANGED <<setup, abstraction, frames, i, work, reached, answer>>

\* is_blocked: by a clause that subsumes it, or by what the frame implies.
IsBlocked(g) ==
  \/ \E n \in g.idx..frontier : \E c \in frames[n] : c \subseteq Target(g)
  \/ ~Meets(Frame(g.idx), Denotes(Target(g)))

\* Where block_all goes when a goal has been dealt with.
Continue(G) == goals' = G /\ pc' = (IF G = {} THEN "loop" ELSE "queue")

PopBlocked ==
  /\ pc = "queue"
  /\ \E g \in Lowest : g.idx > 0 /\ IsBlocked(g) /\ Continue(goals \ {g})
  /\ UNCHANGED <<setup, abstraction, frames, cex, i, work, reached, answer>>

\* The target has a predecessor in the frame before: that is a goal first.
FindPredecessor ==
  /\ pc = "queue"
  /\ \E g \in Lowest :
       /\ g.idx > 0 /\ ~IsBlocked(g)
       /\ \E p \in RelInd(g.idx, Target(g)) : \E m \in Moves :
            /\ p \in m
            /\ \E c \in Predecessors(g.idx, Denotes(Target(g)), m, p[1], p[2]) :
                 goals' = goals \cup {[idx |-> g.idx - 1, trace |-> <<c>> \o g.trace]}
  /\ UNCHANGED <<setup, abstraction, frames, cex, pc, i, work, reached, answer>>

\* The results of ModelBasedIC3::inductive_generalization in modes 1 and 2: a
\* core of the split literals, or the negation of an interpolant, which is
\* taken apart into its disjuncts.
AtOnce(n, c) ==
  LET into == sys.init \cup {p[2] : p \in {q \in rel : q[1] \in Frame(n-1) \ Denotes(c)}}
  IN  IF opt.mode = 1
      THEN {G \in SUBSET SplitCube(c) : G # {} /\ ~Meets(Denotes(G), into)}
      ELSE {G \in SUBSET {l \in Signed(sys.atoms) : Denotes(c) \subseteq l} :
              /\ G # {} /\ ~Meets(Denotes(G), into)
              /\ \A l \in G : Denotes(G \ {l}) # Denotes(G)}

\* The target has no predecessor: generalise it, at once or literal by
\* literal, unless that is switched off.
Blockable == {g \in Lowest : g.idx > 0 /\ ~IsBlocked(g) /\ RelInd(g.idx, Target(g)) = {}}
Refuse ==
  /\ pc = "queue"
  /\ opt.engine # "sygus"
  /\ \E g \in Blockable :
       /\ goals' = goals \ {g}
       /\ goal' = g
       /\ level' = g.idx
       /\ \E c \in Cores(g.idx, Target(g)) :
            IF opt.indgen /\ opt.mode > 0
            THEN gen' \in AtOnce(g.idx, c) /\ pc' = "raise"
            ELSE gen' = c /\ pc' = IF opt.indgen THEN "generalize" ELSE "raise"
  /\ needed' = {}
  /\ UNCHANGED <<setup, abstraction, frames, cex, i, todo, reached, answer>>

----------------------------------------------------------------------------
(* inductive_generalization, find_highest_frame and constrain_frame.       *)

Undecided == gen \ needed

Droppable(l) ==
  /\ ~Meets(Denotes(gen \ {l}), sys.init)
  /\ RelInd(level, gen \ {l}) = {}

DropLiteral ==
  /\ pc = "generalize"
  /\ Cardinality(gen) > 1
  /\ \E l \in Undecided : Droppable(l) /\ gen' \in Cores(level, gen \ {l})
  /\ UNCHANGED <<setup, abstraction, frames, goals, cex, pc, i, goal, needed, level, todo,
                 reached, answer>>

KeepLiteral ==
  /\ pc = "generalize"
  /\ Cardinality(gen) > 1
  /\ \E l \in Undecided : ~Droppable(l) /\ needed' = needed \cup {l}
  /\ UNCHANGED <<setup, abstraction, frames, goals, cex, pc, i, goal, gen, level, todo,
                 reached, answer>>

Generalized ==
  /\ pc = "generalize"
  /\ Cardinality(gen) = 1 \/ Undecided = {}
  /\ pc' = "raise"
  /\ UNCHANGED <<setup, abstraction, frames, goals, cex, i, work, reached, answer>>

CanRaise == level < frontier /\ RelInd(level + 1, gen) = {}

Raise ==
  /\ pc = "raise"
  /\ CanRaise
  /\ level' = level + 1
  /\ gen' \in Cores(level + 1, gen)
  /\ UNCHANGED <<setup, abstraction, frames, goals, cex, pc, i, goal, needed, todo,
                 reached, answer>>

\* constrain_frame: the new clause replaces those it subsumes up to frame n.
Constrain(n, c) ==
  [m \in DOMAIN frames |->
     IF m > n THEN frames[m]
     ELSE {d \in frames[m] : ~(c \subseteq d)} \cup (IF m = n THEN {c} ELSE {})]

Block ==
  /\ pc = "raise"
  /\ ~CanRaise
  /\ frames' = Constrain(level, gen)
  /\ Continue(goals \cup IF level < frontier THEN {[goal EXCEPT !.idx = level + 1]} ELSE {})
  /\ UNCHANGED <<setup, abstraction, cex, i, work, reached, answer>>

----------------------------------------------------------------------------
(* The propagation phase.                                                  *)

\* A clause that holds one frame later moves there, with its core; one that
\* is already there is not looked for.
Propagate ==
  /\ pc = "propagate"
  /\ \E c \in todo :
       /\ RelInd(level + 1, c) = {}
       /\ \E G \in Cores(level + 1, c) :
            frames' = [frames EXCEPT ![level] = @ \ {c}, ![level+1] = @ \cup {G}]
       /\ todo' = todo \ {c}
  /\ UNCHANGED <<setup, abstraction, goals, cex, pc, i, goal, gen, needed, level,
                 reached, answer>>

Stay ==
  /\ pc = "propagate"
  /\ \E c \in todo : RelInd(level + 1, c) # {} /\ todo' = todo \ {c}
  /\ UNCHANGED <<setup, abstraction, frames, goals, cex, pc, i, goal, gen, needed, level,
                 reached, answer>>

FixedPoint == Frame(level + 1)

\* A frame all of whose clauses moved on equals the next one.
Proved ==
  /\ pc = "propagate"
  /\ todo = {}
  /\ frames[level] = {}
  /\ invar' = FixedPoint
  /\ verdict' = "TRUE"
  /\ pc' = "done"
  /\ UNCHANGED <<setup, abstraction, frames, goals, cex, i, work, reached, witness>>

NextLevel ==
  /\ pc = "propagate"
  /\ todo = {}
  /\ frames[level] # {}
  /\ IF level + 1 < frontier
     THEN /\ level' = level + 1
          /\ todo' = frames[level + 1]
          /\ UNCHANGED <<pc, i, reached>>
     ELSE /\ reached' = reached + 1
          /\ i' = i + 1
          /\ pc' = "loop"
          /\ UNCHANGED <<level, todo>>
  /\ UNCHANGED <<setup, abstraction, frames, goals, cex, goal, gen, needed, answer>>

----------------------------------------------------------------------------
\* IC3SA::refine learns from the executions of the trace, or, when that is
\* switched off or nothing is left of what it learns, from values.  A lemma of
\* known predicates is one that simplifies to a value.
Values == ValuePaths(rel, sys.free, sys.init, cex)
OfExecutions == FunctionalLemmas(rel, sys.free, sys.init, cex)
IsNew(L) == ~(NoValues(L.preds) \subseteq lits /\ L.terms \subseteq terms)
OfValues ==
  UNION {ValueLemmas(rel, sys.free, cex, p) : p \in {q \in Values : Len(q) < Len(cex) - 1}}
Lemmas ==
  IF ~opt.func THEN OfValues
  ELSE UNION {IF \A L \in M : IsNew(L) THEN M ELSE {L \in M : IsNew(L)} \cup OfValues :
                M \in {OfExecutions}}

\* All values of a path fit the trace.
ValuesFollow == \E q \in Values : Len(q) = Len(cex) - 1

\* refine finds the trace to be a counterexample.
Confirmed ==
  CASE Len(cex) = 1        -> TRUE
    [] opt.engine = "ic3ia" -> Follow(sys.trans, RefineQuery) # {}
    [] opt.engine = "ic3sa" ->
         IF opt.func /\ ~Spurious(rel, sys.init, cex) THEN TRUE
         ELSE ValuesFollow /\ (opt.func => \E L \in OfExecutions : ~IsNew(L))
    [] OTHER                -> TRUE

\* The trace is a counterexample, always so without abstraction.
Refute ==
  /\ pc = "refine"
  /\ Confirmed
  /\ verdict' = "FALSE"
  /\ IF Witnesses = {} THEN UNCHANGED witness
     ELSE \E p \in Witnesses : witness' = WitnessOf(p)
  /\ pc' = "done"
  /\ UNCHANGED <<setup, abstraction, frames, goals, cex, i, work, reached, invar>>

\* The trace is spurious: new predicates that rule it out, or none and no
\* answer.  block_all or step_01 then starts again with the same frames.
Refine ==
  /\ pc = "refine"
  /\ opt.engine = "ic3ia" /\ Len(cex) > 1
  /\ Follow(sys.trans, RefineQuery) = {}
  /\ \E A \in SUBSET (sys.atoms \ lits) :
       /\ Follow(AbstractTrans(lits \cup Signed(A)), RefineQuery) = {}
       /\ IF A = {}
          THEN verdict' = "UNKNOWN" /\ pc' = "done" /\ UNCHANGED abstraction
          ELSE /\ \E R \in Reduced(A) : lits' = lits \cup Signed(R)
               /\ rel' = AbstractTrans(lits')
               /\ pc' = "loop"
               /\ UNCHANGED <<verdict, terms, kept>>
  /\ UNCHANGED <<setup, frames, goals, cex, i, work, reached, invar, witness>>

\* Predicates that interpolants of the trace without init are made of; there
\* are none if it can be followed from elsewhere.
FromInterpolants ==
  IF ~opt.interp \/ Follow(sys.trans, Along) # {} THEN {{}}
  ELSE {A \in SUBSET sys.atoms : Follow(AbstractTrans(Signed(A)), Along) = {}}

\* What the lemma is made of joins the abstraction, and its symbols are kept
\* in every projection from now on.
Learn ==
  /\ pc = "refine"
  /\ opt.engine = "ic3sa" /\ Len(cex) > 1
  /\ \E L \in Lemmas : \E A \in FromInterpolants :
       /\ rel' = rel \ L.lost
       /\ terms' = terms \cup L.terms
       /\ lits' = lits \cup NoValues(Signed(L.preds \cup A)) \cup Partition(terms')
       /\ kept' = kept \cup (UNION {SymbolsOf(l) : l \in NoValues(L.preds) \ lits})
                       \cup (UNION {SymbolsOfTerm(t) : t \in L.terms \ terms})
  /\ pc' = "loop"
  /\ UNCHANGED <<setup, frames, goals, cex, i, work, reached, answer>>

----------------------------------------------------------------------------
BaseNext ==
  \/ GiveUp
  \/ Skip
  \/ InitialBad
  \/ OneStepBad
  \/ NoBadWithinOneStep
  \/ FindGoal
  \/ NoGoal
  \/ ReachInit
  \/ PopBlocked
  \/ FindPredecessor
  \/ Refuse
  \/ DropLiteral
  \/ KeepLiteral
  \/ Generalized
  \/ Raise
  \/ Block
  \/ Propagate
  \/ Stay
  \/ Proved
  \/ NextLevel
  \/ Refute
  \/ Refine
  \/ Learn

----------------------------------------------------------------------------
(* What the asserts after rel_ind_check (ic3base.cpp:608-615) say of a new *)
(* goal holds as long as the goal is in the queue: its target lies outside *)
(* the frame before its own, so that it was not found too late, and the    *)
(* target of a goal of frame 0 holds an initial state.                     *)
GoalsAreNew ==
  \A g \in goals :
    IF g.idx = 0 THEN Meets(Denotes(Target(g)), sys.init)
    ELSE ~Meets(Denotes(Target(g)), Frame(g.idx - 1))

(* FALSE comes with an execution of the length of the trace, and one that  *)
(* follows its cubes, so that compute_witness does not need its fallback:  *)
(* chains of generalised goals can be followed from their first state, and *)
(* for IC3IA the trace that refine lets pass starts in init although it    *)
(* does not ask for init.  With --no-ic3ia-sim-cex the execution may leave *)
(* the cubes, and so may one that IC3SA followed by values, whose inputs   *)
(* it chooses twice.                                                       *)
TraceIsConcrete ==
  verdict = "FALSE" =>
    \/ Executions(Along) # {}
    \/ /\ \/ opt.engine = "ic3ia" /\ ~opt.sim
          \/ opt.engine = "ic3sa" /\ ValuesFollow
       /\ Executions(AnyPath) # {}

FrameSets == [n \in 1..frontier+1 |-> Frame(n-1)]

Frames == INSTANCE ReachSequence WITH
  reach   <- IF reached < 1 THEN <<sys.init>> ELSE FrameSets,
  reached <- IF verdict = "FALSE" THEN Len(cex) - 2 ELSE reached

(* The frames over-approximate what is reachable in as many steps, under   *)
(* the concrete transition relation also for IC3IA; a bound is completed   *)
(* only when they avoid bad; TRUE comes with an inductive invariant, and   *)
(* FALSE with a counterexample of witness_length() = cex_.size() - 1 steps.*)
ImplementsReachSequence == Frames!Spec

(* With a bound beyond the number of states every run ends with an answer: *)
(* goals are used up, propagation empties a frame, and no refinement of a  *)
(* spurious trace is without fresh predicates.                             *)
Decides ==
  opt.bound > Cardinality(State) => <>(verdict \in {"TRUE", "FALSE"})
=============================================================================
