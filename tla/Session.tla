------------------------------ MODULE Session -------------------------------
(***************************************************************************)
(* A program that uses the library, as the tests and the Python bindings   *)
(* do: it has a file encoded and goes on changing the system with the      *)
(* methods of core/ts.h, in any order.                                     *)
(***************************************************************************)
EXTENDS Main

CONSTANTS
  Edited,     (* the files whose systems are changed                        *)
  MaxEdits    (* bound on the calls                                         *)

VARIABLE edits

sessionVars == <<vars, edits>>

SessionInit == Init /\ edits = 0

\* The driver goes on unless the program has taken the system over.
Drive == edits = 0 /\ Next /\ UNCHANGED edits

\* Simple conditions over some symbols, and values for a symbol.
Conditions(symbols) == {Equal(v, Value(1, BV(1))) : v \in {s \in symbols : s.sort = BV(1)}}
Variables == e.ts.statevars \cup e.ts.inputvars
Symbols   == Variables \cup e.ts.next_statevars

\* A call that returns; one that throws at most clears deterministic.
Call(ts) ==
  /\ pc \in {"select", "edit"} /\ filename.base \in Edited /\ edits < MaxEdits
  /\ e' = [e EXCEPT !.ts = ts]
  /\ edits' = edits + 1
  /\ pc' = "edit"
  /\ UNCHANGED <<cmd, o, solver, lines, engine, report>>

AddInvar        == \E c \in Conditions(Symbols) : only_curr(e.ts, c) /\ Call(add_invar(e.ts, c))
ConstrainInputs == \E c \in Conditions(Symbols) : no_next(e.ts, c) /\ Call(constrain_inputs(e.ts, c))
AddConstraint   ==
  \E c \in Conditions(Symbols), flag \in BOOLEAN :
    Can_add_constraint(e.ts, c) /\ Call(add_constraint(e.ts, c, flag))
ConstrainInit   == \E c \in Conditions(Symbols) : only_curr(e.ts, c) /\ Call(constrain_init(e.ts, c))
SetInit         == \E c \in Conditions(Symbols) : only_curr(e.ts, c) /\ Call(set_init(e.ts, c))
AssignNext      ==
  \E s \in e.ts.no_state_updates, v \in Variables :
    s.sort = v.sort /\ Can_assign_next(e.ts, s, v) /\ Call(assign_next(e.ts, s, v))
Promote         == \E v \in Symbols : Can_promote_inputvar(e.ts, v) /\ Call(promote_inputvar(e.ts, v))

\* With two constraints or more the call is undefined.
DropUpdates ==
  \E s \in Symbols :
    /\ Can_drop_state_updates(e.ts, {s}) /\ ~IsUndefined_drop_state_updates(e.ts)
    /\ Call(drop_state_updates(e.ts, {s}))

\* An update that is in no constraint, which replace_terms does not look at.
Replace ==
  \E s \in DOMAIN e.ts.state_updates, v \in Variables :
    LET map == e.ts.state_updates[s] :> v
    IN  /\ ~IsLeaf(e.ts.state_updates[s]) /\ v.sort = s.sort
        /\ \A c \in Range(e.ts.constraints) : Substitute(c[1], map) = c[1]
        /\ Can_replace_terms(e.ts, map)
        /\ Call(replace_terms(e.ts, map))

\* A relational system takes any transition relation.
MakeRelational ==
  /\ e.ts.functional
  /\ Call(Relational(e.ts))
SetBehavior ==
  \E s \in e.ts.statevars, v \in Variables :
    /\ ~e.ts.functional /\ s.sort = v.sort
    /\ Call(set_behavior(e.ts, e.ts.init, Equal(e.ts.next_map[s], v)))
ConstrainTrans ==
  \E s \in e.ts.statevars, v \in Variables :
    /\ ~e.ts.functional /\ s.sort = v.sort
    /\ Call(constrain_trans(e.ts, Equal(e.ts.next_map[s], v)))

SessionNext ==
  \/ Drive
  \/ AddInvar
  \/ ConstrainInputs
  \/ AddConstraint
  \/ ConstrainInit
  \/ SetInit
  \/ AssignNext
  \/ Promote
  \/ DropUpdates
  \/ Replace
  \/ MakeRelational
  \/ SetBehavior
  \/ ConstrainTrans

SessionSpec == SessionInit /\ [][SessionNext]_sessionVars

----------------------------------------------------------------------------
(* However a functional system is built, its transition relation is that   *)
(* of the tables beside it: the updates and the constraints, whose copies  *)
(* for the next state exclude no more than they say there.  A variable     *)
(* that is said to have no update has none, and in any system the          *)
(* relation mentions its next value only in a constraint.                  *)
TransIsItsParts ==
  pc \in {"edit", "prover"} =>
    LET ts == e.ts
        constraints == {c[1] : c \in Range(ts.constraints)}
        updated(f, g) == \A v \in DOMAIN ts.state_updates : g[v.name] = Eval(ts.state_updates[v], f)
        holds(f)   == \A c \in constraints : Eval(c, f) = 1
        later(g)   == \A c \in constraints : only_curr(ts, c) => Eval(c, g) = 1
        step(f, g) == Eval(ts.trans, Joined(ts, f, g)) = 1
        inConstraints == UNION {FreeSymbols(c) : c \in constraints}
    IN  /\ ts.functional => \A f \in FramesOf(ts), g \in Frames(ts.statevars) :
             /\ step(f, g) => updated(f, g) /\ holds(f)
             /\ updated(f, g) /\ holds(f) /\ later(g) => step(f, g)
        /\ ts.no_state_updates \cap DOMAIN ts.state_updates = {}
        /\ \A v \in ts.no_state_updates :
             ts.next_map[v] \in FreeSymbols(ts.trans) => v \in inConstraints
=============================================================================
