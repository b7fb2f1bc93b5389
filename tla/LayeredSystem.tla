--------------------------- MODULE LayeredSystem ---------------------------
(***************************************************************************)
(* A transition system and what the front of the pipeline has put on top   *)
(* of it, one layer per call of a modifier (modifiers/mod_ts_prop.cpp,     *)
(* prop_monitor.cpp, control_signals.cpp, static_coi.cpp,                  *)
(* liveness_to_safety_translator.cpp and instrument_ts of kliveness.cpp).  *)
(* A layer sees the system below it, so that the order of the calls        *)
(* matters as it does in the code.                                         *)
(*                                                                         *)
(* A state assigns values to the names of the state variables, which       *)
(* differ from layer to layer; a frame is a state and values of the        *)
(* inputs.                                                                 *)
(***************************************************************************)
EXTENDS Integers, FiniteSets, Sequences, TLC

Bit == 0..1

\* The names in the states of a set, which have the same ones.
Names(S) == IF S = {} THEN {} ELSE DOMAIN (CHOOSE a \in S : TRUE)
On(f, V) == [v \in DOMAIN f \cap V |-> f[v]]

\* The system a frontend built, with one property and some justice conditions.
Frames(s) == DOMAIN s.next
StateVars(s) == Names(s.states)

\* add_constraint: over state variables only, a constraint holds in every
\* state, and if it mentions an input only in states that are left.
OverState(s) == \A f, g \in Frames(s) :
  On(f, StateVars(s)) = On(g, StateVars(s)) => (f \in s.constraint <=> g \in s.constraint)
Allowed(s) ==
  IF OverState(s) THEN {On(f, StateVars(s)) : f \in s.constraint} ELSE s.states
Step(s, f) == IF f \in s.constraint THEN s.next[f] \cap Allowed(s) ELSE {}

IsSystem(s) ==
  /\ s.relational \in BOOLEAN
  /\ Frames(s) = {a @@ i : a \in s.states, i \in [s.inputs -> Bit]}
  /\ s.next \in [Frames(s) -> SUBSET s.states]   \* before constraints
  /\ s.constraint \subseteq Frames(s)
  /\ s.init \subseteq Allowed(s)
  /\ s.step = [f \in Frames(s) |-> Step(s, f)]
  /\ s.kind \in {"state", "input", "next"}       \* what the property mentions
  /\ s.prop \subseteq IF s.kind = "next" THEN Frames(s) \X s.states ELSE Frames(s)
  /\ s.justice \in Seq(SUBSET Frames(s))

\* The frames of the system itself that agree with a frame of a layer.
Below(s, f) ==
  LET all == StateVars(s) \cup s.inputs
  IN  IF all \subseteq DOMAIN f THEN {On(f, all)}
      ELSE {g \in Frames(s) : \A v \in DOMAIN g \cap DOMAIN f : g[v] = f[v]}

----------------------------------------------------------------------------
(* The cone of influence (utils/fcoi.cpp), with what a formula mentions    *)
(* taken for what its value depends on.                                    *)

OffBy(f, g, v) == \A w \in DOMAIN f \ {v} : f[w] = g[w]
Depends(s, F, v) == \E f, g \in Frames(s) : OffBy(f, g, v) /\ f \in F /\ g \notin F
Value(s, v, f) == {a[v] : a \in s.next[f]}
Influences(s, v, w) ==
  \E f, g \in Frames(s) : OffBy(f, g, v) /\ Value(s, w, f) # Value(s, w, g)

\* compute_coi from the formulas Fs and the variables V; init is not looked at.
Cone(s, Fs, V) ==
  LET all == StateVars(s) \cup s.inputs
      seed == V \cup {v \in all : \E F \in Fs \cup {s.constraint} : Depends(s, F, v)}
      grow[n \in 0..Cardinality(all)] ==
        IF n = 0 THEN seed
        ELSE grow[n-1] \cup
               {v \in all : \E w \in grow[n-1] \cap StateVars(s) : Influences(s, v, w)}
  IN  grow[Cardinality(all)]

----------------------------------------------------------------------------
(* Properties.  The property of a prover is what an atom says once the     *)
(* reset sequence is over and the pseudo-initial state has been left.      *)

Property(atom) == [atom |-> atom, after |-> 0, guarded |-> FALSE, count |-> 0]

Holds(s, p, f, t) ==
  \/ p.after > 0 /\ f["cnt"] < p.after
  \/ p.guarded /\ f["pseudo_init"]
  \/ CASE p.atom = "prop" /\ s.kind = "next" ->
            \E g \in Below(s, f), a \in s.states : On(t, StateVars(s)) = a /\ <<g, a>> \in s.prop
       [] p.atom = "prop" -> Below(s, f) \cap s.prop # {}
       [] p.atom = "l2s" -> ~(f["saved"] /\ f["loop"] = On(f, DOMAIN f["loop"])
                              /\ \A n \in DOMAIN f["justice"] : f["justice"][n])
       [] p.atom = "counter" -> f["counter"] # p.count
       [] OTHER -> f[p.atom]

\* Justice condition n in a frame of a layer.
IsJust(s, n, f) == Below(s, f) \cap s.justice[n] # {}

----------------------------------------------------------------------------
(* Layers.                                                                 *)

Top(L) == L[Len(L)]
Rest(L) == SubSeq(L, 1, Len(L) - 1)
Kinds(L) == {L[n].kind : n \in DOMAIN L}

Promoted(L) == UNION {L[n].vars : n \in {m \in DOMAIN L : L[m].kind = "promote"}}
Inputs(s, L) ==
  ((IF "coi" \in Kinds(L) THEN s.inputs \cap L[CHOOSE n \in DOMAIN L : L[n].kind = "coi"].cone
    ELSE s.inputs)
     \cup (IF "l2s" \in Kinds(L) THEN {"save"} ELSE {})) \ Promoted(L)
InputValues(s, L) ==
  [Inputs(s, L) -> Bit]

Reset(l, f) == (f["cnt"] < l.bound) <=> (f[l.signal] = l.active)

\* promote_inputvars adds the constraints that mention promoted inputs again,
\* which makes them hold in every state; a functional system has lost them
\* when pseudo_init_and_prop made it relational.
Rechecked(s, L, f) ==
  ~("pseudo" \in Kinds(L) /\ ~s.relational) =>
    /\ Below(s, f) \cap s.constraint # {}
    /\ \A n \in DOMAIN L : L[n].kind = "reset" => Reset(L[n], f)

\* What the flag of a justice condition becomes.
Just(s, f, n) == f["justice"][n] \/ ((f["save"] = 1 \/ f["saved"]) /\ IsJust(s, n, f))

\* The value the counter of instrument_ts takes when it is increased.
Increased(l, n) ==
  CASE l.encoding = "bv_binary" -> (n + 1) % 2^l.width
    [] l.encoding = "bv_one_hot" -> (2 * n) % 2^l.width
    [] l.encoding = "integer" -> n + 1

\* All states of a system with layers, but for the layers that come last.
RECURSIVE Universe(_, _)
Universe(s, L) ==
  IF L = <<>> THEN s.states
  ELSE LET U == Universe(s, Rest(L))
           l == Top(L)
           Add(name, V) == {a @@ (name :> v) : a \in U, v \in V}
       IN CASE l.kind = "reset" -> Add("cnt", 0..2^l.width - 1)
            [] l.kind = "coi" -> {On(a, l.kept) : a \in U}
            [] l.kind = "promote" -> {a @@ i : a \in U, i \in [l.vars -> Bit]}
            [] l.kind = "l2s" ->
                 {a @@ [saved |-> v, loop |-> b, justice |-> j] :
                    a \in U, v \in BOOLEAN, b \in U, j \in [DOMAIN s.justice -> BOOLEAN]}
            [] OTHER -> U

RECURSIVE InitOf(_, _)
InitOf(s, L) ==
  IF L = <<>> THEN s.init
  ELSE LET I == InitOf(s, Rest(L))
           l == Top(L)
           Add(name, v) == {a @@ (name :> v) : a \in I}
       IN CASE l.kind = "clock" -> {a \in I : a[l.signal] = 0}
            [] l.kind = "reset" -> Add("cnt", 0)
            [] l.kind = "coi" -> {On(a, l.kept) : a \in I}
            [] l.kind = "pseudo" -> {a @@ [pseudo_init |-> TRUE, prop_monitor |-> TRUE] :
                                       a \in Universe(s, Rest(L))}
            [] l.kind = "promote" -> {b \in {a @@ i : a \in I, i \in [l.vars -> Bit]} :
                                        Rechecked(s, L, b)}
            [] l.kind = "monitor" -> Add("monitor", TRUE)
            [] l.kind = "l2s" ->
                 {a @@ [saved |-> FALSE, loop |-> b, justice |-> [n \in DOMAIN s.justice |-> FALSE]] :
                    a \in I, b \in Universe(s, Rest(L))}
            [] l.kind = "count" -> Add("counter", l.zero)
            [] OTHER -> I

\* The successors of a frame.
RECURSIVE Next_(_, _, _)
Next_(s, L, f) ==
  IF L = <<>> THEN UNION {s.step[g] : g \in Below(s, f)}
  ELSE LET N == Next_(s, Rest(L), f)
           l == Top(L)
           Add(name, v) == {a @@ (name :> v) : a \in N}
       IN CASE l.kind = "clock" -> {a \in N : a[l.signal] = 1 - f[l.signal]}
            [] l.kind = "reset" ->
                 IF Reset(l, f)
                 THEN Add("cnt", IF f["cnt"] < l.bound THEN (f["cnt"] + 1) % 2^l.width ELSE f["cnt"])
                 ELSE {}
            \* Variables outside the cone have lost their updates.
            [] l.kind = "coi" ->
                 LET full == {b @@ On(f, Inputs(s, L)) : b \in
                                {b \in Universe(s, Rest(L)) :
                                   \A v \in DOMAIN b \cap DOMAIN f \cap l.cone : b[v] = f[v]}}
                     after == UNION {Next_(s, Rest(L), g) : g \in full}
                 IN  {b \in {On(a, l.kept) : a \in Universe(s, Rest(L))} :
                        \E a \in after : On(a, l.cone) = On(b, l.cone)}
            [] l.kind = "pseudo" ->
                 {a @@ [pseudo_init |-> FALSE,
                        prop_monitor |-> IF l.current THEN Holds(s, l.prop, a @@ [pseudo_init |-> FALSE], a)
                                         ELSE Holds(s, l.prop, f, a)] :
                    a \in IF f["pseudo_init"] THEN InitOf(s, Rest(L)) ELSE N}
            [] l.kind = "promote" ->
                 {b \in {a @@ i : a \in N, i \in [l.vars -> Bit]} : Rechecked(s, L, b)}
            [] l.kind = "monitor" -> {a @@ [monitor |-> Holds(s, l.prop, f, a)] : a \in N}
            [] l.kind = "assume" -> IF Holds(s, l.prop, f, f) THEN N ELSE {}
            [] l.kind = "l2s" ->
                 {a @@ [saved |-> f["saved"] \/ f["save"] = 1,
                        loop |-> IF f["save"] = 1 /\ ~f["saved"] THEN On(f, DOMAIN f["loop"])
                                 ELSE f["loop"],
                        justice |-> [n \in DOMAIN s.justice |-> Just(s, f, n)]] : a \in N}
            [] l.kind = "count" ->
                 Add("counter", IF IsJust(s, 1, f) THEN Increased(l, f["counter"]) ELSE f["counter"])

FramesOf(s, L, S) == {a @@ i : a \in S, i \in InputValues(s, L)}
Image(s, L, S) == UNION {Next_(s, L, f) : f \in FramesOf(s, L, S)}

----------------------------------------------------------------------------
(* What an engine finds in a system with layers, as ProverContract has it. *)

Bad(s, p, S) == {a \in S : ~Holds(s, p, a, a)}

\* The states reached in 0, 1, ... steps, to the first with bad ones or to k.
RECURSIVE Levels(_, _, _, _, _)
Levels(s, L, p, k, seq) ==
  IF Len(seq) > k \/ Bad(s, p, Top(seq)) # {} THEN seq
  ELSE Levels(s, L, p, k, Append(seq, Image(s, L, Top(seq))))

RECURSIVE Reach(_, _, _)
Reach(s, L, S) == LET T == S \cup Image(s, L, S) IN IF T = S THEN S ELSE Reach(s, L, T)

IsSafe(s, L, p) == Bad(s, p, Reach(s, L, InitOf(s, L))) = {}

\* The executions through the levels that end in one of the targets.
RECURSIVE Paths(_, _, _, _)
Paths(s, L, levels, targets) ==
  IF Len(levels) = 1 THEN {<<f>> : f \in FramesOf(s, L, targets)}
  ELSE LET before == {a \in levels[Len(levels)-1] : Image(s, L, {a}) \cap targets # {}}
       IN  UNION {{Append(q, f) : f \in FramesOf(s, L, Next_(s, L, q[Len(q)]) \cap targets)} :
                    q \in Paths(s, L, Rest(levels), before)}
=============================================================================
