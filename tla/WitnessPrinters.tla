--------------------------- MODULE WitnessPrinters --------------------------
(***************************************************************************)
(* printers/btor2_witness_printer.cpp and vcd_witness_printer.cpp, and the *)
(* values they print, which SafetyProver::compute_witness collects.        *)
(*                                                                         *)
(* A trace is a sequence of maps from terms to values, with time 0 first.  *)
(* The value of an array is what the solver returns: stores on top of a    *)
(* constant array.  A printed number stands for its digits.                *)
(***************************************************************************)
EXTENDS Btor2Encoder

CONSTANTS
  Internal,   (* the symbols that begin with a $                             *)
  Positions   (* the symbols of digits, dots and dashes after the last colon *)

\* Any way to write an array down: a default and the elements that differ.
ArrayValues(a) ==
  {[default |-> d, writes |-> Restrict(a, {i \in DOMAIN a : a[i] # d})] : d \in Range(a)}

\* compute_witness: the solver's values for a frame of the system.
Shown(ts) == ts.statevars \cup ts.inputvars \cup Range(ts.named_terms)
IsArray(t) == SortKind(t) = "ARRAY"
compute_witness(ts, frames, default) ==
  [k \in DOMAIN frames |->
    [t \in {s \in Shown(ts) : FreeSymbols(s) \cap ts.next_statevars = {}} |->
       LET v == Eval(t, frames[k])
       IN  IF IsArray(t)
           THEN CHOOSE a \in ArrayValues(v) : default \in Range(v) => a.default = default
           ELSE v]]

----------------------------------------------------------------------------
(* The BTOR2 witness: sections of "#", the states, or "@", the inputs, at  *)
(* a time.  An entry has the number of the variable, an index if it is an  *)
(* element of an array (None if not), and the value.                       *)

None == -1
Entry(num, index, value) == [num |-> num, index |-> index, value |-> value]

appears_in_ts_coi(t, ts) == t \in ts.statevars \cup ts.inputvars

\* A constant of 0 is what the simulator assumes anyway.
ElementsOf(num, a, size) ==
  {Entry(num, i, a.writes[i]) : i \in DOMAIN a.writes}
    \cup IF a.default = 0 THEN {}
         ELSE {Entry(num, i, a.default) : i \in (0 .. size - 1) \ DOMAIN a.writes}

print_btor_val_at_time(num, t, ts, valmap) ==
  IF ~appears_in_ts_coi(t, ts) THEN {}
  ELSE IF IsArray(t) THEN ElementsOf(num, valmap[t], 2^t.sort.index.width)
  ELSE {Entry(num, None, valmap[t])}

\* The variables of a list, numbered from 0, but for those to skip.
print_btor_vals_at_time(vec, valmap, ts, skip) ==
  UNION {print_btor_val_at_time(n, vec[n], ts, valmap) : n \in {m \in DOMAIN vec : vec[m] \notin skip}}

FromZero(vec) == [n \in 0 .. Len(vec) - 1 |-> vec[n + 1]]
Section(kind, time, entries) == [kind |-> kind, time |-> time, entries |-> entries]

\* Slip: states without next are printed at time 0 only.
StatesAt_FirstOnly(e, cex, ts, k) == <<>>

StatesAt(e, cex, ts, k) ==
  IF k > 0 /\ e.no_next_states # <<>>
  THEN <<Section("#", k, print_btor_vals_at_time(e.no_next_states, cex[k + 1], ts, {}))>>
  ELSE <<>>

print_witness_btor(e, cex, ts) ==
  LET first == Section("#", 0, print_btor_vals_at_time(FromZero(e.statesvec), cex[1], ts,
                                                       e.initialized_states))
      at(k) == Append(StatesAt(e, cex, ts, k),
                 Section("@", k, print_btor_vals_at_time(FromZero(e.inputsvec), cex[k + 1], ts, {})))
  IN  <<first>> \o FlattenSeq([n \in DOMAIN cex |-> at(n - 1)])

----------------------------------------------------------------------------
(* The VCD trace.  A signal has a path of scopes, whether it is a reg or a *)
(* wire (or an array), and the term whose value it shows.                  *)

\* Only a symbol can be a position: the other names have letters.
PathOf(name) == IF name \in Positions THEN <<"property", name>> ELSE name
IsHidden(name) == name \in Internal

Signal(kind, name, t) == [kind |-> kind, path |-> PathOf(name), term |-> t]
NameOf(e, key) == lookup_or_key(e.symbol_map, key)
KindOf(ts, t) == IF t \in ts.statevars THEN "reg" ELSE "wire"

NamedSignals(e, ts) ==
  {Signal(KindOf(ts, ts.named_terms[n]), NameOf(e, n), ts.named_terms[n]) :
     n \in {m \in DOMAIN ts.named_terms : LET t == ts.named_terms[m]
              IN  t \notin ts.next_statevars /\ ~IsArray(t) /\ ~IsHidden(NameOf(e, m))}}

VarSignals(e, ts, vars, kind) ==
  {Signal(kind, NameOf(e, v.name), v) :
     v \in {u \in vars : ~IsArray(u) /\ ~IsHidden(NameOf(e, u.name))}}

\* check_insert_scope: a signal whose path and kind are taken is dropped.
\* Named terms come first, in any order.
Inserted(signals, more) ==
  signals \cup {s \in more : \A r \in signals : r.path # s.path \/ r.kind # s.kind}
OnePerPath(signals) ==
  {S \in SUBSET signals :
     \A s \in signals : Cardinality({r \in S : r.path = s.path /\ r.kind = s.kind}) = 1}

\* The bit-vector signals of a VCDWitnessPrinter.
allsig_bv(e, ts) ==
  {Inserted(Inserted(S, VarSignals(e, ts, ts.statevars, "reg")),
            VarSignals(e, ts, ts.inputvars, "wire")) : S \in OnePerPath(NamedSignals(e, ts))}

\* The elements of arrays that some step writes, and the default.
allsig_array(e, ts, cex) ==
  UNION {{[kind |-> "array", path |-> NameOf(e, s.name), term |-> s, index |-> i] :
            i \in (UNION {DOMAIN cex[k][s].writes : k \in DOMAIN cex}) \cup {None}} :
         s \in {v \in ts.statevars : IsArray(v)}}

\* Two arrays of one name: "has been registered already".
ArraysClash(e, ts) ==
  \E s, t \in {v \in ts.statevars : IsArray(v)} : s # t /\ NameOf(e, s.name) = NameOf(e, t.name)

\* The signals a step has a value for.
ValuesAt(signals, valmap) ==
  [s \in {r \in signals :
            \/ r.kind # "array" /\ r.term \in DOMAIN valmap
            \/ r.kind = "array" /\ r.index \in DOMAIN valmap[r.term].writes \cup {None}} |->
     IF s.kind # "array" THEN valmap[s.term]
     ELSE IF s.index = None THEN valmap[s.term].default ELSE valmap[s.term].writes[s.index]]

NewBuffer(buffer, values) == values @@ buffer

\* dump_all at time 0 and dump_diff after: what is written at each time.
Changes(buffer, values) ==
  Restrict(values, {s \in DOMAIN values : s \in DOMAIN buffer => buffer[s] # values[s]})

DumpValues(signals, cex) ==
  LET step(r, valmap) == LET values == ValuesAt(signals, valmap)
                         IN  [dump |-> Append(r.dump, Changes(r.buffer, values)),
                              buffer |-> NewBuffer(r.buffer, values)]
  IN  FoldLeft(step, [dump |-> <<>>, buffer |-> <<>>], cex).dump
=============================================================================
