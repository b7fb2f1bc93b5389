------------------------------ MODULE MCDriver ------------------------------
(***************************************************************************)
(* Systems and option settings on which TLC runs the driver.  x counts     *)
(* from 0 to 2; there may be an input u, a clock c, a variable y that x    *)
(* does not depend on, and a variable v without an update.                 *)
(***************************************************************************)
EXTENDS Driver

\* f, looked up from now on and not computed again.
Table(f) == f @@ <<>>

FramesOver(S, I) == {a @@ i : a \in S, i \in [I -> Bit]}

\* A system in which f gives the successors of a frame and nothing is bad.
Build(S, I, f(_)) ==
  [states |-> S, inputs |-> I, relational |-> FALSE,
   init |-> {a \in S : a.x = 0},
   next |-> Table([g \in FramesOver(S, I) |-> f(g)]),
   step |-> Table([g \in FramesOver(S, I) |-> f(g)]),
   constraint |-> FramesOver(S, I),
   kind |-> "state", prop |-> FramesOver(S, I), justice |-> <<FramesOver(S, I)>>]

Where(s, P(_)) == {f \in Frames(s) : P(f)}

X == [x : 0..2]
Up(n) == IF n < 2 THEN n + 1 ELSE n
Round(n) == (n + 1) % 3

\* u takes x back to 0, or lets it go round.
BackOnU == Build(X, {"u"}, LAMBDA f : {[x |-> IF f.u = 1 THEN 0 ELSE Up(f.x)]})
RoundOnU == Build(X, {"u"}, LAMBDA f : {[x |-> IF f.u = 1 THEN Round(f.x) ELSE f.x]})
NotTwo(s) == [s EXCEPT !.prop = Where(s, LAMBDA f : f.x # 2)]
Never(s, P(_)) == [s EXCEPT !.prop = Where(s, LAMBDA f : ~P(f)), !.kind = "input"]
Only(s, P(_)) ==
  LET c == [s EXCEPT !.constraint = Where(s, P)]
  IN  [c EXCEPT !.step = Table([f \in Frames(c) |-> Step(c, f)]), !.init = @ \cap Allowed(c)]

Safety ==
  {NotTwo(BackOnU),
   NotTwo(Only(BackOnU, LAMBDA f : f.x # 1)),
   NotTwo(Only(BackOnU, LAMBDA f : f.x = 1 => f.u = 1)),
   Never(RoundOnU, LAMBDA f : f.x = 1 /\ f.u = 1),
   Never(BackOnU, LAMBDA f : f.x = 2 /\ f.u = 0),
   Never(Only(RoundOnU, LAMBDA f : f.x = 1 => f.u = 0), LAMBDA f : f.x = 1 /\ f.u = 1)}

\* A relational system and a property over next states.
Jumps ==
  LET s == Build(X, {"u"}, LAMBDA f : {[x |-> n] : n \in {Up(f.x), IF f.u = 1 THEN 0 ELSE f.x}})
  IN  [s EXCEPT !.relational = TRUE, !.kind = "next",
                !.prop = {p \in Frames(s) \X X : ~(p[1].x = 1 /\ p[2].x = 2)}]

\* x moves while the clock is high.
Clocked ==
  LET s == Build([x : 0..2, c : Bit], {"u"},
                 LAMBDA f : {[x |-> IF f.c = 1 THEN Up(f.x) ELSE f.x, c |-> n] : n \in Bit})
  IN  NotTwo(s)

\* y runs beside x, from 0 or from anywhere, or without an input.
Beside(I) ==
  LET s == Build([x : 0..2, y : Bit], I,
                 LAMBDA f : {[x |-> IF "u" \in I /\ f["u"] = 1 THEN 0 ELSE Up(f.x), y |-> 1 - f.y]})
  IN  [NotTwo(s) EXCEPT !.justice = <<Where(s, LAMBDA f : f.x = 2)>>]
FromZero(s) == [s EXCEPT !.init = {a \in @ : a.y = 0}]

----------------------------------------------------------------------------
Fair(s, P(_)) == [s EXCEPT !.justice = <<Where(s, P)>>]

Cycle == Build(X, {}, LAMBDA f : {[x |-> Round(f.x)]})
Line == Build(X, {}, LAMBDA f : {[x |-> Up(f.x)]})

\* A variable without update decides whether x moves.
Wild ==
  LET s == Build([x : 0..2, v : Bit], {},
                 LAMBDA f : {[x |-> IF f.v = 1 THEN Round(f.x) ELSE f.x, v |-> n] : n \in Bit})
  IN  Fair(s, LAMBDA f : f.x = 2 /\ f.v = 1)

Justice ==
  {Fair(Cycle, LAMBDA f : f.x = 2),
   Fair(Line, LAMBDA f : f.x < 2),
   Fair(Line, LAMBDA f : f.x = 2),
   Fair(RoundOnU, LAMBDA f : f.x = 2 /\ f.u = 1),
   Fair(Only(RoundOnU, LAMBDA f : f.x = 2 => f.u = 0), LAMBDA f : f.x < 2 /\ f.u = 1),
   Fair(BackOnU, LAMBDA f : f.x = 1),
   Wild}

TwoConditions ==
  {[RoundOnU EXCEPT !.justice = <<Where(RoundOnU, LAMBDA f : f.x = 2 /\ f.u = 0),
                                  Where(RoundOnU, LAMBDA f : f.x = 0 /\ f.u = 0)>>],
   [Line EXCEPT !.justice = <<Where(Line, LAMBDA f : f.x = 1), Where(Line, LAMBDA f : f.x = 2)>>]}

----------------------------------------------------------------------------
Plain ==
  [justice |-> FALSE, klive |-> FALSE, bound |-> 4, complete |-> FALSE, clock |-> "none",
   reset |-> 0, signal |-> "u", active |-> 1, coi |-> FALSE, pseudo |-> FALSE,
   promote |-> FALSE, assume |-> FALSE, start |-> 1, step |-> 1, max |-> 6,
   encoding |-> "bv_binary", revisit |-> TRUE, lockstep |-> TRUE, slack |-> 0]

\* Everything that may be combined, with bounds around the violations.
Combined ==
  {[Plain EXCEPT !.reset = r, !.pseudo = p, !.promote = m, !.assume = a, !.bound = b] :
     r \in {0, 2}, p, m, a \in BOOLEAN, b \in {1, 4}}

Resets == {[Plain EXCEPT !.reset = r, !.active = v, !.bound = 6] : r \in 1..3, v \in Bit}
Clocks == {[Plain EXCEPT !.clock = c, !.pseudo = p] : c \in {"state", "input"}, p \in BOOLEAN}
Cones == {[Plain EXCEPT !.coi = TRUE, !.reset = r, !.pseudo = p] : r \in 0..1, p \in BOOLEAN}

ToSafety ==
  {[Plain EXCEPT !.justice = TRUE, !.complete = TRUE, !.bound = 12, !.assume = a] : a \in BOOLEAN}

DefaultCount ==
  [Plain EXCEPT !.justice = TRUE, !.klive = TRUE, !.bound = 14, !.complete = TRUE]

Counts ==
  {[DefaultCount EXCEPT !.encoding = e, !.start = s, !.step = s] :
     e \in {"bv_binary", "bv_one_hot", "integer"}, s \in 1..2}
    \cup {[DefaultCount EXCEPT !.start = s, !.revisit = r, !.lockstep = l, !.slack = k] :
            s \in 1..2, r, l \in BOOLEAN, k \in 0..1}

AllCases ==
  (Safety \X Combined)
    \cup ({NotTwo(BackOnU)} \X Resets)
    \cup ({Jumps} \X {o \in Combined : o.reset = 0})
    \cup {<<[Jumps EXCEPT !.relational = FALSE], Plain>>, <<Jumps, [Plain EXCEPT !.coi = TRUE]>>}
    \cup ({Clocked} \X Clocks)
    \cup ({Beside({"u"}), FromZero(Beside({"u"}))} \X Cones)
    \cup ((Justice \cup TwoConditions) \X ToSafety)
    \cup (Justice \X Counts)
    \cup (TwoConditions \X {DefaultCount})
    \cup ({Beside({}), FromZero(Beside({}))} \X
            {[o EXCEPT !.coi = TRUE] : o \in ToSafety \cup {DefaultCount}})
    \cup (Justice \X {[DefaultCount EXCEPT !.promote = TRUE], [DefaultCount EXCEPT !.bound = 3],
                      [DefaultCount EXCEPT !.complete = FALSE, !.max = 2]})
=============================================================================
