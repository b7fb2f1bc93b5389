------------------------------- MODULE MCIC3 -------------------------------
(***************************************************************************)
(* Systems over one 3-bit variable v on which TLC runs IC3: 7 is bad.      *)
(***************************************************************************)
EXTENDS SygusPdr

S(n) == [v \in Vars |-> n]
Where(N) == {S(n) : n \in N}

BitsOfV == {Where({4, 5, 6, 7}), Where({2, 3, 6, 7}), Where({1, 3, 5, 7})}
EqualitiesOfV == {Where({n}) : n \in Vals}
AtMost(n) == Where(0..n)
AtLeast(n) == Where(n..7)
SplitV == [e \in EqualitiesOfV |->
             LET n == CHOOSE k \in Vals : e = Where({k}) IN {AtMost(n), AtLeast(n)}]
Orders == {AtMost(n) : n \in {1, 3, 5}}

Move(f) == {<<S(n), S(f[n])>> : n \in Vals}
Relation(f) == UNION {{S(n)} \X Where(f[n]) : n \in Vals}

System(I, M, det) ==
  [init |-> Where(I), bad |-> Where({7}), constr |-> State, noupd |-> {},
   moves |-> M, trans |-> UNION M, deterministic |-> det, atoms |-> Orders]
Deterministic(I, F) == System(I, {Move(f) : f \in F}, TRUE)
Relational(I, f) == System(I, {Relation(f)}, FALSE)

F(a, b, c, d, e, f, g, h) ==
  0 :> a @@ 1 :> b @@ 2 :> c @@ 3 :> d @@ 4 :> e @@ 5 :> f @@ 6 :> g @@ 7 :> h

Add(k) == [n \in Vals |-> (n + k) % 8]
Saturate(k, m) == [n \in Vals |-> IF n + k > m THEN m ELSE n + k]
Stay0 == [n \in Vals |-> n]

Few ==
  {Deterministic({0}, {Add(1)}), Deterministic({0}, {Add(2)}), Deterministic({0,1}, {Add(2), Stay0}),
   Deterministic({0}, {Saturate(1, 5), Stay0}), Deterministic({0}, {Add(4), Add(2)}),
   Deterministic({0}, {F(1,2,0,4,5,7,7,7)}), Deterministic({0,3}, {F(1,2,0,4,3,7,5,0), Add(4)}),
   Deterministic({2,7}, {Stay0}),
   Relational({0}, F({1,2}, {0}, {3}, {}, {7}, {4}, {5}, {6})),
   Relational({0}, F({1,2}, {4}, {3}, {6}, {}, {7}, {0,5}, {6}))}

\* Systems the predicates of Orders can decide.
Coarse ==
  {Deterministic({0}, {F(1,2,2,2,7,7,7,7)}),
   Deterministic({0}, {Saturate(1, 5), Stay0}),
   Relational({0}, F({1,2}, {2,3}, {0,1}, {0}, {6}, {7,1}, {7}, {0})),
   Relational({0}, F({1,2}, {4,5}, {0,1}, {0}, {6}, {7,1}, {7}, {0}))}

\* For IC3SA the variable is taken apart into w, of two bits, and u, of one.
High == [sort |-> "bv2", val |-> [s \in State |-> s["v"] \div 2]]
Low  == [sort |-> "bv1", val |-> [s \in State |-> s["v"] % 2]]
HighAndLow == {High, Low}
Number(sort, n) == [sort |-> sort, val |-> [s \in State |-> n]]
Widths == [bv1 |-> 1, bv2 |-> 2]
Bit(k) == [sort |-> "bv1", val |-> [s \in State |-> (High.val[s] \div k) % 2]]
BitsOfHigh == High :> {Bit(1), Bit(2)} @@ Low :> {}
Above(n) == {s \in State : High.val[s] > n}
Is(n) == {s \in State : High.val[s] = n}

\* w starts as 0 and becomes f[2w+u], 3 is bad; u has no update, or is negated.
Words(f, free, T, P) ==
  LET next == {p \in State \X State : High.val[p[2]] = f[p[1]["v"] + 1]
                                   /\ (free \/ Low.val[p[2]] # Low.val[p[1]])}
  IN
  [init |-> Is(0), bad |-> Is(3), constr |-> State, noupd |-> {}, deterministic |-> TRUE,
   atoms |-> {Above(n) : n \in 0..2} \cup {{s \in State : Low.val[s] = 1}},
   trans |-> next, moves |-> {next},
   free |-> IF free THEN {Low} ELSE {},
   \* What the learner makes of the update by putting 0 for w; the slice the
   \* design takes of w.
   pool |-> {[sort |-> "bv2", val |-> [s \in State |-> f[Low.val[s] + 1]]]}, slices |-> {Bit(2)},
   leaves |-> HighAndLow \cup {Number("bv2", n) : n \in {0, 3}},
   parts |-> [init  |-> [terms |-> {High, Number("bv2", 0)}, preds |-> {Is(0)}],
              bad   |-> [terms |-> {High, Number("bv2", 3)}, preds |-> {Is(3)}],
              trans |-> [terms |-> T \cup HighAndLow, preds |-> P]]]

\* The terms of trans are the two cases of the update of w, by u, or that update.
Cases2(f) == {[sort |-> "bv2", val |-> [s \in State |-> f[2 * High.val[s] + k]]] : k \in {1, 2}}
Updated(f) == [sort |-> "bv2", val |-> [s \in State |-> f[s["v"] + 1]]]
Mixed(f, free) == Words(f, free, {Updated(f)}, {})
OnU(f, free) == Words(f, free, Cases2(f), {{s \in State : Low.val[s] = 1}})

Syntactic ==
  {Mixed(<<2,0, 3,3, 3,1, 3,3>>, FALSE), Mixed(<<0,0, 2,2, 3,3, 3,0>>, TRUE),
   OnU(<<0,1, 1,2, 2,3, 3,3>>, TRUE), OnU(<<1,1, 0,0, 3,3, 3,3>>, FALSE),
   OnU(<<1,2, 2,0, 0,3, 0,1>>, TRUE), OnU(<<1,1, 2,2, 1,1, 0,3>>, FALSE)}

\* Systems with spurious traces at the lower levels.
Explained == {OnU(<<2,0, 1,1, 3,1, 1,1>>, FALSE), OnU(<<0,1, 1,1, 3,1, 3,1>>, TRUE)}
Refined == Explained \cup {OnU(<<1,1, 0,0, 3,3, 0,1>>, TRUE)}

\* Systems whose first terms do not always do.
Enumerated ==
  {OnU(<<2,0, 1,1, 3,1, 1,1>>, FALSE), OnU(<<1,1, 0,0, 3,3, 3,3>>, FALSE),
   OnU(<<0,1, 1,2, 2,3, 3,3>>, TRUE)}

Base == [engine |-> "ic3", bound |-> 9, pregen |-> TRUE, preimage |-> FALSE, indgen |-> TRUE, mode |-> 0,
         core |-> TRUE, sim |-> TRUE, reduce |-> TRUE, initial |-> 4, func |-> TRUE, interp |-> FALSE,
         collect |-> "design", width |-> 2]
Plain == [Base EXCEPT !.pregen = FALSE, !.indgen = FALSE, !.core = FALSE]
MB == [Base EXCEPT !.engine = "mbic3"]
IA == [Base EXCEPT !.engine = "ic3ia", !.pregen = FALSE]
SA == [Base EXCEPT !.engine = "ic3sa", !.core = FALSE]
SG == [Base EXCEPT !.engine = "sygus", !.core = FALSE]

AllCases ==
  (Few \X {Base, Plain, MB, [MB EXCEPT !.mode = 1]})
    \cup (Few \X {[Base EXCEPT !.bound = n] : n \in {0, 2}})
    \cup (Coarse \X {[MB EXCEPT !.mode = 2], IA, [IA EXCEPT !.sim = FALSE],
                 [IA EXCEPT !.sim = FALSE, !.reduce = FALSE]})
    \cup (Syntactic \X {SA, [SA EXCEPT !.initial = 2]})
    \cup (Explained \X {[SA EXCEPT !.initial = 3, !.interp = TRUE]})
    \cup (Refined \X {[SA EXCEPT !.initial = 3, !.func = FALSE],
                       [SA EXCEPT !.initial = 3, !.pregen = FALSE, !.core = TRUE]})
    \cup (Enumerated \X {SG, [SG EXCEPT !.width = 3], [SG EXCEPT !.collect = "ext"],
                          [SG EXCEPT !.collect = "vc"], [SG EXCEPT !.collect = "split"]})
=============================================================================
