-------------------------------- MODULE Main --------------------------------
(***************************************************************************)
(* pono.cpp from the command line to the exit status: the options, the     *)
(* solver, the lines of a BTOR2 file that become a transition system, the  *)
(* cone of influence and the promotion of inputs, an engine, the answer    *)
(* and its witness, and the exceptions on the way.                         *)
(*                                                                         *)
(* The engine is a black box that answers rightly for the system it is     *)
(* handed, or gives up; what it does is the business of other modules, and *)
(* so are the modifiers that change the property.  The build is one with   *)
(* NDEBUG, which catches exceptions.                                       *)
(***************************************************************************)
EXTENDS WitnessPrinters, Options, Launch

Format == INSTANCE Btor2

CONSTANTS
  Commands,   (* the command lines                                          *)
  Content,    (* the lines of each file that exists                         *)
  Writable    (* the files that can be written                              *)

VARIABLES
  cmd, pc,
  o,          (* pono_options                                               *)
  solver,     (* the solver that is created for the engine                  *)
  lines,      (* the lines of the file that are still to be read            *)
  e,          (* the encoder with the transition system                     *)
  prover,     (* the prover that is put together                            *)
  res,        (* its answer                                                 *)
  cex,        (* the values of its counterexample, if a witness is wanted   *)
  printed,    (* the BTOR2 witness, its label and the file it goes to       *)
  vcd,        (* the VCD trace                                              *)
  out,        (* the words on standard output                               *)
  status      (* the exit status                                            *)

engine == <<prover, res, cex>>
report == <<printed, vcd, out, status>>
vars   == <<cmd, pc, o, solver, lines, e, engine, report>>

NothingPrinted == [file |-> "", label |-> <<>>, witness |-> <<>>]
NoTrace == [signals |-> {}, dump |-> <<>>]

Init ==
  /\ cmd \in Commands
  /\ pc = "options"
  /\ o = Defaults
  /\ solver = NoSolver
  /\ lines = <<>>
  /\ e = NewEncoder(NewSystem(TRUE))
  /\ prover = NoProver /\ res = "UNKNOWN" /\ cex = <<>>
  /\ printed = NothingPrinted
  /\ vcd = NoTrace
  /\ out = <<>>
  /\ status = "NONE"

Exit(s) == pc' = "done" /\ status' = s

\* An exception that main catches.
Throw ==
  /\ out' = out \o <<"error", <<"b", o.prop_idx>>>>
  /\ Exit("ERROR")
  /\ UNCHANGED <<cmd, o, solver, lines, e, engine, printed, vcd>>

----------------------------------------------------------------------------
(* Before the engine.                                                      *)

ParseOptions ==
  LET parsed == parse_and_set_options(cmd)
  IN  /\ pc = "options"
      /\ o' = parsed.o
      /\ IF parsed.result = "UNKNOWN" THEN pc' = "solver" /\ UNCHANGED status
         ELSE Exit(parsed.result)
      /\ UNCHANGED <<cmd, solver, lines, e, engine, printed, vcd, out>>

filename == NonOptions(cmd)[1].file

CreateSolver ==
  LET s == create_solver_for(o.smt_solver, o.engine, FALSE, o.ceg_prophecy_arrays,
                             o.printing_smt_solver, o.smt_solver_opts)
  IN  /\ pc = "solver"
      /\ IF s = NoSolver THEN Throw
         ELSE /\ solver' = [s EXCEPT !.logging = o.logging_smt_solver]
              /\ o' = [o EXCEPT !.promote_inputvars = @ \/ o.engine = "ic3sa"]
              /\ pc' = "open"
              /\ UNCHANGED <<cmd, lines, e, engine, report>>

Open ==
  /\ pc = "open"
  /\ IF filename.ext \notin {"btor", "btor2"} \/ filename.base \notin DOMAIN Content THEN Throw
     ELSE /\ lines' = Content[filename.base]
          /\ e' = preprocess(e, Content[filename.base])
          /\ pc' = "encode"
          /\ UNCHANGED <<cmd, o, solver, engine, report>>

\* The lines of a file become what they stand for one after the other.
EncodeLine ==
  /\ pc = "encode"
  /\ IF lines = <<>> THEN pc' = "select" /\ UNCHANGED <<cmd, o, solver, lines, e, engine, report>>
     ELSE IF EncodeThrows(e, Head(lines)) THEN Throw
     ELSE /\ e' = Encode(e, Head(lines))
          /\ lines' = Tail(lines)
          /\ UNCHANGED <<cmd, pc, o, solver, engine, report>>

SelectProperty ==
  /\ pc = "select"
  /\ IF o.prop_idx >= Len(IF o.justice THEN e.justicevec ELSE e.propvec) THEN Throw
     ELSE /\ pc' = "modify"
          /\ UNCHANGED <<cmd, o, solver, lines, e, engine, report>>

----------------------------------------------------------------------------
(* check_prop: the cone of influence, the inputs and the prover.           *)

prop == e.propvec[o.prop_idx + 1]

RECURSIVE Grown(_, _)
Grown(ts, S) ==
  LET more == S \cup UNION {FreeSymbols(ts.state_updates[v]) : v \in S \cap DOMAIN ts.state_updates}
  IN  IF more = S THEN S ELSE Grown(ts, more)

\* Slip: constraints are not looked into.
ConeOf_NoConstraints(ts, t) == Grown(ts, FreeSymbols(t))

\* compute_coi: from the property and the constraints through the updates.
ConeOf(ts, t) ==
  Grown(ts, FreeSymbols(t) \cup UNION {FreeSymbols(c[1]) : c \in Range(ts.constraints)})

StaticConeOfInfluence(ts, t) ==
  LET cone == ConeOf(ts, t)
  IN  rebuild_trans_based_on_coi(ts, cone \cap ts.statevars, cone \cap ts.inputvars)

\* A fresh system: the names of terms that are no variables are not copied,
\* and the constraints are added again.
promote_inputvars(ts, inputs) ==
  LET copied(s, v)  == add_statevar(s, v, ts.next_map[v])
      input(s, v)   == IF v \in inputs THEN promote_inputvar(add_inputvar(s, v), v) ELSE add_inputvar(s, v)
      updated(s, v) == assign_next(s, v, ts.state_updates[v])
      variables == FoldSet(LAMBDA v, s : input(s, v),
                     FoldSet(LAMBDA v, s : copied(s, v), NewSystem(ts.functional), ts.statevars),
                     ts.inputvars)
      updates   == FoldSet(LAMBDA v, s : updated(s, v), set_init(variables, ts.init),
                           DOMAIN ts.state_updates)
  IN  AddAll(IF ts.functional THEN updates ELSE set_trans(updates, ts.trans), ts.constraints)

\* Justice properties keep the system as it is: the engine works on a copy.
Modified(ts) ==
  LET cut == IF o.static_coi /\ ~o.justice THEN StaticConeOfInfluence(ts, prop) ELSE ts
  IN  IF o.justice THEN cut
      ELSE IF o.promote_inputvars THEN promote_inputvars(cut, cut.inputvars)
      ELSE IF ~only_curr(cut, prop) THEN promote_inputvars(cut, FreeSymbols(prop))
      ELSE cut

ModifySystem ==
  /\ pc = "modify"
  /\ e' = [e EXCEPT !.ts = Modified(@)]
  /\ pc' = "prover"
  /\ UNCHANGED <<cmd, o, solver, lines, engine, report>>

\* The prover may create an interpolating solver, and it sets options.
MakeProver ==
  LET p == IF o.justice THEN make_prover(o.engine) ELSE ProverFor(o)
      interpolator == create_interpolating_solver_for(o.smt_interpolator, o.engine,
                        o.printing_smt_interpolator, o.smt_interpolator_opts)
  IN  /\ pc = "prover"
      /\ IF p = NoProver \/ (Interpolates(o) /\ interpolator = NoSolver) THEN Throw
         ELSE /\ prover' = p
              /\ solver' = set_opts(solver, ConstructorOpts(p, o))
              /\ pc' = "check"
              /\ UNCHANGED <<cmd, o, lines, e, res, cex, report>>

----------------------------------------------------------------------------
(* The engine: the frames of the system, and the steps between them.       *)

FramesOf(ts) == Frames(ts.statevars \cup ts.inputvars)
Joined(ts, f, g) ==
  [n \in {ts.next_map[v].name : v \in ts.statevars} |-> g[Front(n)]] @@ f

\* f, looked up from now on and not computed again.
Computed(f) == f @@ <<>>

Graph(ts) ==
  LET all == FramesOf(ts)
  IN  [init |-> {f \in all : Eval(ts.init, f) = 1},
       succ |-> Computed([f \in all |-> {g \in all : Eval(ts.trans, Joined(ts, f, g)) = 1}])]

Post(g, S) == UNION {g.succ[f] : f \in S}
RECURSIVE Closure(_, _), Layer(_, _), PathsTo(_, _, _)
Closure(g, S) == LET more == S \cup Post(g, S) IN IF more = S THEN S ELSE Closure(g, more)

\* The paths of n steps into S, found backwards.
Layer(g, n) == IF n = 0 THEN g.init ELSE Post(g, Layer(g, n - 1))
PathsTo(g, n, S) ==
  IF n = 0 THEN {<<f>> : f \in S}
  ELSE UNION {{Append(p, f) : f \in S \cap g.succ[Last(p)]} :
                p \in PathsTo(g, n - 1, {d \in Layer(g, n - 1) : g.succ[d] \cap S # {}})}

IsLasso(p, justice) ==
  \E k \in 1 .. Len(p) - 1 :
    /\ p[k] = Last(p)
    /\ \A n \in DOMAIN justice : \E i \in k .. Len(p) : Eval(justice[n], p[i]) = 1

\* The counterexamples of n steps: into a bad state, or lassos for the justice
\* properties.
CounterexamplesAt(g, n) ==
  IF o.justice
  THEN {p \in PathsTo(g, n, Layer(g, n)) : IsLasso(p, e.justicevec[o.prop_idx + 1])}
  ELSE PathsTo(g, n, {f \in Layer(g, n) : Eval(prop, f) = 0})

\* The shortest of at most bound steps, and at least n.
RECURSIVE Counterexamples(_, _, _)
Counterexamples(g, n, bound) ==
  LET here == CounterexamplesAt(g, n)
  IN  IF here # {} \/ n = bound THEN here ELSE Counterexamples(g, n + 1, bound)

IsSafe(g) == ~o.justice /\ \A f \in Closure(g, g.init) : Eval(prop, f) = 1

\* check_until and witness: an answer that is right, or none.
Answer(r, frames) ==
  /\ res' = r
  /\ \E default \in 0 .. 1 :
       cex' = IF o.witness THEN compute_witness(e.ts, frames, default) ELSE <<>>
  /\ pc' = "report"
  /\ UNCHANGED <<cmd, o, solver, lines, e, prover, report>>

Check ==
  /\ pc = "check"
  /\ LET g == Graph(e.ts)
     IN  \/ \E p \in Counterexamples(g, 0, o.bound) : Answer("FALSE", p)
         \/ IsSafe(g) /\ Answer("TRUE", <<>>)
         \/ Answer("UNKNOWN", <<>>)

----------------------------------------------------------------------------
(* The report.                                                             *)

prop_label == <<IF o.justice THEN "j" ELSE "b", o.prop_idx>>
Say(word) == out' = out \o <<word, prop_label>>

SayOther ==
  /\ pc = "report" /\ res # "FALSE"
  /\ Say(IF res = "TRUE" THEN "unsat" ELSE "unknown")
  /\ Exit(res)
  /\ UNCHANGED <<cmd, o, solver, lines, e, engine, printed, vcd>>

SayFalse ==
  /\ pc = "report" /\ res = "FALSE"
  /\ Say("sat")
  /\ IF cex = <<>> THEN Exit("FALSE") ELSE pc' = "witness" /\ UNCHANGED status
  /\ UNCHANGED <<cmd, o, solver, lines, e, engine, printed, vcd>>

\* print_witness_btor, or dump_witness_btor, whose label is always a b.
PrintWitness ==
  /\ pc = "witness"
  /\ IF o.btor2_witness_name \notin Writable \cup {""} THEN Throw
     ELSE /\ printed' = [file |-> o.btor2_witness_name,
                         label |-> IF o.btor2_witness_name = "" THEN prop_label ELSE <<"b", o.prop_idx>>,
                         witness |-> print_witness_btor(e, cex, e.ts)]
          /\ IF o.vcd_name = "" THEN Exit("FALSE") ELSE pc' = "vcd" /\ UNCHANGED status
          /\ UNCHANGED <<cmd, o, solver, lines, e, engine, vcd, out>>

\* VCDWitnessPrinter and dump_trace_to_file.
PrintVCD ==
  /\ pc = "vcd"
  /\ IF o.justice \/ ArraysClash(e, e.ts) \/ o.vcd_name \notin Writable THEN Throw
     ELSE /\ \E S \in allsig_bv(e, e.ts) :
               LET signals == S \cup allsig_array(e, e.ts, cex)
               IN  vcd' = [signals |-> signals, dump |-> DumpValues(signals, cex)]
          /\ Exit("FALSE")
          /\ UNCHANGED <<cmd, o, solver, lines, e, engine, printed, out>>

Finished == pc = "done" /\ UNCHANGED vars

Next ==
  \/ ParseOptions
  \/ CreateSolver
  \/ Open
  \/ EncodeLine
  \/ SelectProperty
  \/ ModifySystem
  \/ MakeProver
  \/ Check
  \/ SayOther
  \/ SayFalse
  \/ PrintWitness
  \/ PrintVCD
  \/ Finished

Spec == Init /\ [][Next]_vars

----------------------------------------------------------------------------
(* What the file means.                                                    *)

text == Content[filename.base]

\* A frame of the file in the names the encoder gives.
Encoded(f) == [n \in {<<text[id].tag, id>> : id \in DOMAIN f} |-> f[n[2]]]

\* The lines of saddo, smulo and usubo do not say what they should.
Wrong == {"saddo", "smulo", "usubo"}
ValueLines == {id \in DOMAIN e.terms : text[id].tag \in (SpecialTags \cup DOMAIN bvopmap) \ Wrong}
BadLines == SetToSortSeq(Format!Ids(text, "bad"), <)

FileGraph ==
  LET allowed == {f \in Format!AllFrames(text) : Format!Constrained(text, f)}
  IN  [init |-> {f \in allowed : Format!IsInitial(text, f)},
       succ |-> Computed([f \in allowed |-> {g \in allowed : Format!IsStep(text, f, g)}])]

(* The system that is built from a file has the initial states, the steps  *)
(* and the bad states the file describes, and each line its value, with    *)
(* Booleans for some bit-vectors, inputs turned into states and            *)
(* constraints copied to the initial and the next states on the way.       *)
SystemIsTheFile ==
  pc = "select" =>
    LET all == Format!AllFrames(text)
    IN  /\ \A f \in all :
             /\ Eval(e.ts.init, Encoded(f)) = 1 <=>
                  Format!IsInitial(text, f) /\ Format!Constrained(text, f)
             /\ \A id \in ValueLines : Eval(e.terms[id], Encoded(f)) = Format!ValueAt(text, id, f)
             /\ \A k \in DOMAIN e.propvec :
                  Eval(e.propvec[k], Encoded(f)) = 0 <=> Format!IsBad(text, BadLines[k], f)
        /\ \A f, g \in all :
             Eval(e.ts.trans, Joined(e.ts, Encoded(f), Encoded(g))) = 1 <=>
               /\ Format!IsStep(text, f, g)
               /\ Format!Constrained(text, f) /\ Format!Constrained(text, g)

(* What is printed is true of the file: unsat that no bad state can be     *)
(* reached, sat that one can within the bound, with the label of the       *)
(* property; the exit status is that answer, unless an exception came      *)
(* after it, and only then is error printed as well.                       *)
StatusIsTheAnswer ==
  /\ out # <<>> /\ out[1] \in {"sat", "unsat"} /\ ~o.justice =>
       LET g == FileGraph
           bad(S) == \E f \in S : Format!IsBad(text, BadLines[o.prop_idx + 1], f)
       IN  IF out[1] = "unsat" THEN ~bad(Closure(g, g.init))
           ELSE \E k \in 0 .. o.bound : bad(Layer(g, k))
  /\ status \in {"TRUE", "FALSE", "UNKNOWN"} =>
       out = <<CASE status = "TRUE" -> "unsat" [] status = "FALSE" -> "sat" [] OTHER -> "unknown",
               prop_label>>
  /\ status = "ERROR" => out = <<>> \/ out[Len(out) - 1] = "error"

----------------------------------------------------------------------------
(* A witness as btorsim reads it.                                          *)

\* The value of a variable in a section: what is not said is 0.
Said(kind, time, num, sort) ==
  LET entries == UNION {s.entries : s \in {t \in Range(printed.witness) : t.kind = kind /\ t.time = time}}
      at(index) == {x \in entries : x.num = num /\ x.index = index}
      value(index) == IF at(index) = {} THEN 0 ELSE (CHOOSE x \in at(index) : TRUE).value
  IN  IF sort.kind = "ARRAY" THEN [i \in 0 .. 2^sort.index.width - 1 |-> value(i)] ELSE value(None)

Ordinal(id) == Cardinality({k \in Format!Ids(text, text[id].tag) : k < id})
SaidOf(id, time) ==
  Said(IF text[id].tag = "state" THEN "#" ELSE "@", time, Ordinal(id), Format!SortOfLine(text, id))

StateLines == SetToSortSeq(Format!Ids(text, "state"), <)

Replayed(time, f) ==
  LET inputs == [id \in Format!Ids(text, "input") |-> SaidOf(id, time)]
      value(g, s) ==
        IF time = 0
        THEN IF Format!InitLine(text, s) = {} THEN SaidOf(s, 0) ELSE Format!InitValue(text, s, g)
        ELSE IF Format!NextLine(text, s) = {} THEN SaidOf(s, time) ELSE Format!NextValue(text, s, f)
  IN  FoldLeft(LAMBDA g, s : (s :> value(g, s)) @@ g, inputs, StateLines)

Replay == FoldLeft(LAMBDA fs, k : Append(fs, Replayed(k - 1, IF fs = <<>> THEN <<>> ELSE Last(fs))),
                   <<>>, [k \in DOMAIN cex |-> k])

\* What a viewer shows of a signal at time k: what was written last.
Viewed(s, k) == LET n == CHOOSE n \in 1 .. k : s \in DOMAIN vcd.dump[n]
                           /\ \A m \in n + 1 .. k : s \notin DOMAIN vcd.dump[m]
                IN  vcd.dump[n][s]

(* The witness is an execution of the file: read as the simulator reads    *)
(* it, with 0 for what is left out, initialised states skipped, the        *)
(* defaults of arrays spelled out and the variables numbered as in the     *)
(* file, it satisfies the constraints and ends in a bad state.  The VCD    *)
(* trace, which only has the changes, shows the same values.               *)
WitnessReplays ==
  /\ printed.witness # <<>> /\ ~o.justice =>
       LET replay == Replay
       IN  /\ \A k \in DOMAIN replay : Format!Constrained(text, replay[k])
           /\ Format!IsBad(text, BadLines[o.prop_idx + 1], Last(replay))
  /\ \A s \in {t \in vcd.signals : t.kind # "array"}, k \in DOMAIN vcd.dump :
       Viewed(s, k) = cex[k][s.term]

----------------------------------------------------------------------------
NeedsAssumptions ==
  \/ Range(prover) \cap ic3_variants # {}
  \/ "CegProphecyArrays" \in Range(prover) /\ (o.cegp_consec_axiom_red \/ o.cegp_timed_axiom_red)

(* The solver an engine is handed can do what the engine asks of it: an    *)
(* IC3 engine and the reduction of axioms need the assumptions of an       *)
(* unsatisfiable query, the prophecy loop values that are not Booleans,    *)
(* and what the user has set stays as it is.                               *)
SolverServesProver ==
  pc = "check" =>
    /\ solver.enum \in solver_enums
    /\ NeedsAssumptions => <<"produce-unsat-assumptions", "true">> \in {<<n, solver.opts[n]>> : n \in DOMAIN solver.opts}
    /\ "CegProphecyArrays" \in Range(prover) => "bool_model_generation" \notin DOMAIN solver.opts
    /\ Restrict(solver.opts, DOMAIN o.smt_solver_opts) = o.smt_solver_opts

(* The order of the options on the command line does not matter, neither   *)
(* for whether they are accepted nor for what they set, if none is given   *)
(* twice.                                                                  *)
OptionOrderIsIrrelevant ==
  pc = "options" =>
    LET words  == Options(cmd)
        once   == \A m, n \in DOMAIN words : words[m].name = words[n].name => m = n
        orders == {[n \in DOMAIN words |-> words[p[n]]] : p \in Permutations(DOMAIN words)}
        given  == parse_and_set_options(cmd)
    IN  once => \A w \in orders :
          LET other == parse_and_set_options(w \o NonOptions(cmd))
          IN  IF given.result = "UNKNOWN" THEN other = given ELSE other.result # "UNKNOWN"
=============================================================================
