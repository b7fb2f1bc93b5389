-------------------------- MODULE TransitionSystem --------------------------
(***************************************************************************)
(* core/ts.h, ts.cpp, rts.h, rts.cpp, fts.h, fts.cpp: a transition system  *)
(* as the record of its formulas and of the tables that are kept beside    *)
(* them, and the methods that change it.                                   *)
(*                                                                         *)
(* A method returns the changed record.  One that can throw a              *)
(* PonoException has a predicate Can_... beside it.  The names of terms    *)
(* that only log messages show (term_to_name_) are left out.               *)
(***************************************************************************)
EXTENDS Terms, SequencesExt

And(s, t)   == Make("And", <<s, t>>)
Equal(s, t) == Make("Equal", <<s, t>>)

NextSymbol(v) == [v EXCEPT !.name = @ \o <<"next">>]

NewSystem(functional) ==
  [functional       |-> functional,  deterministic |-> FALSE,
   init             |-> True,        trans         |-> True,
   statevars        |-> {},          inputvars     |-> {},
   next_statevars   |-> {},          next_map      |-> <<>>,
   state_updates    |-> <<>>,        no_state_updates |-> {},
   named_terms      |-> <<>>,        constraints   |-> <<>>]

\* The copy a RelationalTransitionSystem makes of a system.
Relational(ts) == [ts EXCEPT !.functional = FALSE, !.deterministic = FALSE]

contains(t, symbols) == FreeSymbols(t) \subseteq symbols
only_curr(ts, t) == contains(t, ts.statevars)
no_next(ts, t)   == contains(t, ts.statevars \cup ts.inputvars)

NextOf(ts, t) == Substitute(t, ts.next_map)
CurrMap(ts) == [n \in {ts.next_map[c] : c \in DOMAIN ts.next_map} |->
                  CHOOSE c \in DOMAIN ts.next_map : ts.next_map[c] = n]

----------------------------------------------------------------------------
(* Names and variables.                                                    *)

Can_name_term(ts, name, t) == name \in DOMAIN ts.named_terms => ts.named_terms[name] = t
name_term(ts, name, t) == [ts EXCEPT !.named_terms = (name :> t) @@ @]

add_statevar(ts, cv, nv) ==
  LET added == [ts EXCEPT !.inputvars = @ \ {cv, nv},
                          !.statevars = @ \cup {cv},
                          !.no_state_updates = @ \cup {cv},
                          !.next_statevars = @ \cup {nv},
                          !.next_map = (cv :> nv) @@ @]
  IN  name_term(name_term(added, cv.name, cv), nv.name, nv)

add_inputvar(ts, v) == name_term([ts EXCEPT !.inputvars = @ \cup {v}], v.name, v)

make_inputvar(ts, name, sort) == add_inputvar(ts, Symbol(name, sort))
make_statevar(ts, name, sort) ==
  LET state == Symbol(name, sort)
  IN  add_statevar([ts EXCEPT !.deterministic = FALSE], state, NextSymbol(state))

Can_promote_inputvar(ts, iv) == iv \in ts.inputvars
promote_inputvar(ts, iv) ==
  add_statevar([ts EXCEPT !.inputvars = @ \ {iv}, !.deterministic = FALSE], iv, NextSymbol(iv))

promote_inputvars_in(ts, t) ==
  FoldSet(LAMBDA v, s : promote_inputvar(s, v), ts, FreeSymbols(t) \cap ts.inputvars)

----------------------------------------------------------------------------
(* Initial states, updates and constraints.                                *)

set_init(ts, t)       == [ts EXCEPT !.init = t]
constrain_init(ts, t) == [ts EXCEPT !.init = And(@, t)]

Can_assign_next(ts, state, val) ==
  state \in ts.statevars /\ no_next(ts, val) /\ state \notin DOMAIN ts.state_updates

assign_next(ts, state, val) ==
  LET updates == (state :> val) @@ ts.state_updates
  IN  [ts EXCEPT !.state_updates = updates,
                 !.no_state_updates = @ \ {state},
                 !.trans = And(@, Equal(ts.next_map[state], val)),
                 !.deterministic = IF ts.functional /\ ts.constraints = <<>>
                                   THEN Cardinality(DOMAIN updates) = Cardinality(ts.statevars)
                                   ELSE @]

\* What add_invar, constrain_inputs and add_constraint share.
InTrans(ts, c, flag) ==
  [ts EXCEPT !.deterministic = FALSE, !.trans = And(@, c), !.constraints = Append(@, <<c, flag>>)]
Invariant(ts, c, flag) ==
  LET t == InTrans(ts, c, flag)
  IN  [t EXCEPT !.init = And(@, c), !.trans = And(@, NextOf(ts, c))]

add_invar(ts, c)        == Invariant(ts, c, TRUE)
constrain_inputs(ts, c) == InTrans(ts, c, TRUE)

Can_add_constraint(ts, c) == no_next(ts, c)
add_constraint(ts, c, to_init_and_next) ==
  IF only_curr(ts, c) /\ to_init_and_next
  THEN Invariant(ts, c, TRUE)
  ELSE InTrans(ts, c, to_init_and_next)

\* RelationalTransitionSystem.
set_updated_states(ts, t) ==
  [ts EXCEPT !.no_state_updates = @ \ {CurrMap(ts)[n] : n \in FreeSymbols(t) \cap ts.next_statevars}]
set_trans(ts, t)       == set_updated_states([ts EXCEPT !.trans = t], t)
constrain_trans(ts, t) == set_updated_states([ts EXCEPT !.trans = And(@, t)], t)
set_behavior(ts, init, trans) == set_trans([ts EXCEPT !.init = init], trans)

----------------------------------------------------------------------------
(* Rebuilding a system.                                                    *)

\* The updates of some states, and then the constraints once more.
TransOf(ts, states) ==
  FoldSet(LAMBDA s, t : And(t, Equal(ts.next_map[s], ts.state_updates[s])), True,
          states \cap DOMAIN ts.state_updates)

AddAll(ts, cs) == FoldLeft(LAMBDA s, c : add_constraint(s, c[1], c[2]), ts, cs)

rebuild_trans_based_on_coi(ts, states, inputs) ==
  LET trans   == TransOf(ts, states)
      rebuilt == AddAll([ts EXCEPT !.trans = trans, !.constraints = <<>>], ts.constraints)
      kept    == FreeSymbols(rebuilt.init) \cup states
      inSys(t) == \A v \in FreeSymbols(t) :
                    (IF v \in DOMAIN CurrMap(ts) THEN CurrMap(ts)[v] ELSE v) \in kept \cup inputs
  IN  [rebuilt EXCEPT
         !.statevars = kept,
         !.inputvars = inputs,
         !.state_updates = Restrict(@, states \cap DOMAIN @),
         !.no_state_updates = states \ DOMAIN ts.state_updates,
         !.named_terms = Restrict(@, {n \in DOMAIN @ : inSys(@[n])})]

\* Slip: the transition relation stays.
drop_state_updates_KeepTrans(ts, svs) ==
  [ts EXCEPT !.state_updates = Restrict(@, DOMAIN @ \ svs), !.no_state_updates = @ \cup svs]

Can_drop_state_updates(ts, svs) == svs \subseteq ts.statevars
drop_state_updates(ts, svs) ==
  LET dropped == [ts EXCEPT !.state_updates = Restrict(@, DOMAIN @ \ svs),
                            !.no_state_updates = @ \cup svs]
  IN  AddAll([dropped EXCEPT !.trans = TransOf(dropped, DOMAIN dropped.state_updates)],
             ts.constraints)

\* The loop reads the vector it appends to; with two constraints or more it
\* reads what the vector has freed.
IsUndefined_drop_state_updates(ts) == Len(ts.constraints) > 1

\* The constraints are copied as they are.
Can_replace_terms(ts, map) ==
  /\ \A t \in DOMAIN map : \A s \in {t, map[t]} :
       contains(s, ts.statevars \cup ts.inputvars \cup ts.next_statevars)
  /\ only_curr(ts, Substitute(ts.init, map))
  /\ ts.functional => \A v \in DOMAIN ts.state_updates :
                        no_next(ts, Substitute(ts.state_updates[v], map))

replace_terms(ts, map) ==
  LET visit(t) == Substitute(t, map)
      rebuilt(f) == [s \in {visit(t) : t \in DOMAIN f} |->
                       visit(f[CHOOSE t \in DOMAIN f : visit(t) = s])]
  IN  [ts EXCEPT !.init = visit(@), !.trans = visit(@),
                 !.named_terms = [n \in DOMAIN @ |-> visit(@[n])],
                 !.state_updates = rebuilt(@), !.next_map = rebuilt(@)]
=============================================================================
