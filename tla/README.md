# Pono with PDKind: verification models

TLA+ modules, TLC runs and TLAPS proofs for Pono, the SMT-based model checker in
`src/pono-src`, with its property-directed k-induction engine (PDKind). Line numbers are those
of the repository; `PROJECT.json` maps every definition to the lines it stands for.

## The system

A frontend reads a transition system and a safety or justice property. `pono.cpp` rewrites the
system (reset, clock, cone of influence, pseudo-init, input promotion, property monitor,
assumed property), builds an engine, and calls its `check_until(k)`. The engine asserts timed
copies of the system's formulas (the unroller) in an incremental solver and answers TRUE, FALSE
with a witness, or UNKNOWN. A justice property is translated to safety or counted by KLiveness,
which runs a safety engine for each count. The CEGAR engines run an engine on an abstraction and
refine it. `scripts/parallel_pono.py` runs one process per engine and reports the first answer.
Pono itself has no threads and persists nothing; only the script is concurrent. What makes this
code hard is the protocol between an engine and its solver (assertions that stay, frames that are
pushed and popped across functions, models and interpolants that may be any, answers that may be
UNKNOWN), the indices of times and bounds, the side conditions on the system that make a query
mean what the comments say, and the order in which the system is rewritten.

| component | state | operations | hard behaviour | what makes it correct |
|---|---|---|---|---|
| PDKind (`engines/pdk_ind`) | solver context, `lemmas_`, `reached_k_`, the CTI and its cube | `check_until`, `inductive_check`, `extract_cti`, `literal_drop`, `try_add_lemma` | lemmas stay for the whole run, also in base checks; frames cross function boundaries; budgets; UNKNOWN | verdicts are right, no lemma blocks a reachable state, the context is exact, it ends |
| BMC (`engines/bmc`) | `reached_k_`, solver frames, the interval searched | `check_until`, `step`, three searches for a shorter counterexample | intervals, blocked bounds, popping by counters, a second call | FALSE is real, the witness is shortest where promised, `reached_k_` never passes a counterexample |
| K-induction, BMC with simple paths (`engines/kinduction`, `bmc_simplepath`) | assertions under selector literals, `reached_k_` | three inductive checks, base check, final base check | selectors, lazy simple paths, skipped base checks, variables without update | TRUE and FALSE are right, lazy equals eager, it decides |
| IC3 family (`ic3base`, `ic3`, `ic3bits`, `mbic3`, `ic3ia`, `ic3sa`, `syguspdr`) | frames, proof goals, the predicates | `step`, `block_all`, `rel_ind_check`, generalisation, propagation, `refine` | order of blocking and propagation over long runs; cores and interpolants that meet init; spurious traces | frames over-approximate and are monotone, an equal pair is an invariant, traces can be executed, it decides |
| Interpolation (`interpolantmc`, `interp_seq_mc`, `dual_approx_reach`) | reached sets or sequences, the unrolling kept between steps | `step`, strengthening, fixed-point checks | any interpolant; queries that fail; bounds completed several at a time | sets over-approximate, the two sequences stay apart, it decides |
| Prover interface (`engines/prover`) | `reached_k_`, `witness_`, `invar_`, the answer | `check_until`, `prove`, `witness`, `compute_witness` | engines keep it by convention | the abstract specifications `ProverContract` and `ReachSequence` |
| Transition systems (`core/ts`, `rts`, `fts`) | init, trans, constraints, updates, variables without update | builder operations, `add_constraint`, `is_right_total`, `replace_terms`, COI rebuild | several redundant pieces of state that must agree | constraints hold everywhere, functional and relational views agree |
| Unrollers (`core/unroller`, `functional_unroller`) | caches of timed terms | `at_time`, `untime` | functional unrolling with intervals | a model of the unrolling is an execution |
| Modifiers (`modifiers/mod_ts_prop`, `prop_monitor`, `control_signals`, `static_coi`) | the system and property they rewrite | pseudo-init, `prop_in_trans`, input promotion, monitor, reset, clock, COI | their order, and the bound and witness corrections each needs | the verdict is preserved, the witness is one of the system as read |
| Liveness (`kliveness`, `liveness_to_safety_translator`) | counter or saved state; the inner safety engine | `check_until`, instrumentation, revisits, lock-step BMC | rebuilds the system for each bound; looks for a lasso in a finite counterexample | a lasso exists exactly when the answer says so |
| CEGAR engines, abstractors, refiners | abstract system and refinement axioms, prophecy and history variables | `check_until`, `cegar_refine` | spurious abstract traces; axioms copied to the next step | no axiom hides a counterexample, each refinement makes progress |
| Driver (`pono.cpp`) | options, the system as read | `check_prop`, `main` | order of passes, exceptions | what is reported holds of the system as read |
| Portfolio script (`scripts/parallel_pono.py`) | processes, their files, what it reports | launch, poll, report, clean up | engines end, crash or hang at any time; interrupts and failing calls at any step, in the exit handler too | the report is one engine's, what is left behind is accounted for, it returns |
| BTOR2 frontend (`frontends/btor2_encoder`) | sorts and terms by line, the states, the properties, the system built so far | one case per tag | inputs that become states after they were used, Booleans or bit-vectors of width one, two updates of one state | the system means what the file means |
| Options (`options/options`) | the fields of `PonoOptions` | one case per option | options that look at earlier ones, numbers that wrap | the order of the words does not matter |
| Witness printers (`printers/btor2_witness_printer`, `vcd_witness_printer`) | what was printed last | one frame per time | values left out, arrays, promoted inputs | the witness replays, the trace shows its values |
| Solver construction (`smt/available_solvers`, `utils/make_provers`) | the options of a solver | `create_solver_for`, `make_prover` | what an engine needs depends on engine, solver and the user's options | the solver can do what the engine asks |
| Python bindings (`python/pono`) | the system of a session | the methods of `core/ts.h` | any order of calls | the system's parts agree |
| SMV, VMT and CoreIR frontends, logging, pure term traversals, evaluation scripts | - | parsing, printing, glue | - | - |

Interaction is by calls, but for the script: the driver owns the system and hands it by reference to modifiers
and engines, an engine owns its unroller and shares one solver with it, and KLiveness and the CEGAR
engines own an inner engine. The models follow these borders. Every engine is checked against what
`prover.h` promises of it; KLiveness, the driver and the CEGAR loops are modelled around *any* engine
that keeps that promise, so that no run multiplies the states of two engines.

`PROJECT.json` lists the hazards at their lines, each with the properties that would catch it.

## Modules

| module | stands for |
|---|---|
| `Unrolling` | a transition system by what its formulas denote, timed formulas and their models, and what the system itself does: `Reachable`, `Safe`, `HasCex`, `Total`, `WellFormed`; `TransitionSystem::add_constraint` and `prop_in_trans` on such a system |
| `ProverContract` | the abstract specification of a safety engine |
| `ReachSequence` | the abstract specification of an engine that proves by over-approximation: a sequence of sets, an inductive invariant; between those engines and `ProverContract` |
| `PDKind` | `check_until` of PDKind and everything it calls |
| `Bmc` | `check_until` of BMC, `step`, and its searches |
| `KInduction` | `check_until` of K-induction; with `no_prop` it is BMC with simple paths |
| `IC3` | `IC3Base` with what its flavours override: generalisation of predecessors and of clauses, abstraction and refinement |
| `IC3SA`, `SygusPdr` | what these two flavours override, on top of `IC3`: projections onto terms and the partition they induce; cubes over the terms of a partial model and the enumerated clauses |
| `Interpolation`, `InterpolantMC`, `DualApproxReach` | what the interpolation engines share, the two that interpolate from the initial states (`InterpolantMC` and `InterpSeqMC`) and the one that interpolates from both ends; `InterpolationEngines` puts them together |
| `LayeredSystem` | a system with inputs and what the front of the pipeline puts on top of it, one layer per call of a modifier |
| `CheckProp` | `check_prop`: modifiers in their order, the engine, the corrections of its counterexample; the translation of justice to safety |
| `KLiveness` | the KLiveness engine on top of it |
| `Driver` | the three ways through `pono.cpp` |
| `Answers` | the abstract specification of the pipeline: what the user is told is true of the system as read |
| `CegarTerms` | `CegarOpsUf` and `CegarValues` with their abstractors |
| `CegProphecyArrays` | counterexample-guided prophecy: uninterpreted arrays, axioms, history and prophecy variables |
| `Terms` | sorts, terms and their values (external: smt-switch) |
| `TransitionSystem` | `core/ts.h`, `rts`, `fts` on terms: every method that changes a system, and when it throws |
| `Btor2Encoder`, `Btor2` | the BTOR2 frontend line by line; what a BTOR2 file and its witness mean by the description of the format (external) |
| `Options`, `Launch` | the command line; the solvers of a build, how they are created, and the provers put together |
| `WitnessPrinters` | what the BTOR2 witness and the VCD trace say |
| `Main` | `pono.cpp` from the command line to the exit status, around an engine that answers rightly |
| `Session` | calls of the methods of `TransitionSystem` in any order, as the Python bindings and the tests make them |
| `Portfolio` | the script and the processes it starts |
| `UnrollingProofs`, `PDKindProofs`, `BmcProofs`, `KInductionProofs`, `InterpolationProofs`, `IC3Proofs`, `CegarProofs`, `PortfolioProofs` | theorems about the module each is named after, `InterpolationProofs` about `InterpolationEngines`, `IC3Proofs` about `IC3`, `IC3SA` and `SygusPdr`, `CegarProofs` about `CegProphecyArrays` and, under `OfTerms!`, `CegarTerms` |
| `MC...` | the systems and option settings TLC runs on; `MCCegar` runs both CEGAR modules; the last definitions of `MCPDKind`, `MCKInduction` and `MCCegar` hold what a comment says and the code contradicts |

**Data.** In the engines' modules a state assigns a value of `Vals` to each variable of `Vars`; a formula over states is the
set of states it denotes. Inputs are projected: a pair of states is in `trans` when some input
allows it, which is exact because the engines only ask for bad states over current-state variables
and constraints that mention inputs are conjoined to the transition relation too. In `IC3` a literal is
the set of states it denotes, a cube a set of literals, and a move is the relation of one input. In
`LayeredSystem` and above, where modifiers add variables and treat inputs, a state is a function on
variable names and a frame adds the inputs. In `CegarTerms` and `CegProphecyArrays` an abstract state
carries what the abstraction is free to choose: a function for the operator, a value per abstracted
term, or a table of reads per array. In `Terms` and what extends it a term is a tree with a value
in every assignment, so that what the frontend builds can be compared with what the file means.

**Solver.** In `PDKind`, `Bmc` and `KInduction` an engine's assertion is a timed formula (`At`, `TransAt`, `Differ`, `Sometime`) and the solver is the set of
those asserted permanently (`base`) and per pushed frame (`scopes`). A query is satisfiable when
`Models` is not empty; where the code reads the model, the step may continue with any one, and where it
asks for a core or an interpolant, with any one. Where
the code handles UNKNOWN, a parameter says which queries may return it.

**Control.** `pc` names the next query; one action is one solver query with everything the code does on its
answer until the next query. So `InductiveSat` is the SAT branch of `inductive_check`, the reading of the CTI, the pop
in `check_until` and the push at the head of `literal_drop`; `NextBound` is the end of the loop body. In
`KInduction` an assertion carries the name of its selector literal and a query names the selectors
it assumes; the frame pushed for `bad@i` is popped before the next block of assertions, so it is
written as part of its queries. In `Bmc` the two searches that replace the top frame share
`ProbeSat` and `ProbeUnsat`, and the three parts of one turn (pop, push, query) are one action. In
`CheckProp` one action is one modifier, in the CEGAR modules one round is the engine's answer and one
refinement, in `Main` one line of the file or one block of `main`, in `Session` one call of a method,
and in `Portfolio` one action is one system call of the script (the row of the summary, the output, a rename, a signal, the removal of a file,
the reading of stderr), one change of its dictionary, or one event of a process. `clean_up` is one set of actions for both of its callers, with
`walk` what it has not done with, and `exiting` says whether it is the atexit handler that runs it. An exception can come
between any two steps: in `main` it starts that handler (`struck` remembers where), in the handler it ends it (`"aborted"`).

**Contracts.** `ProverContract` is written from `prover.h` and `proverresult.h`: the last bound
completed never passes a counterexample, TRUE means safe, FALSE has a counterexample of
`reached_k_ + 1` steps, UNKNOWN promises nothing. `PDKind!ImplementsContract` checks it as a
refinement (the identity on the shared variables); `Bmc!KeepsContract` and
`KInduction!KeepsContract` check it step by step under the option settings that claim to be exact.
`ReachSequence` says what `IC3` (frames) and the interpolation engines (sets) have in common; both implement it by refinement
mappings that pick out their sequences. `Answers` is the contract of the whole pipeline, `Driver` implements it
with the witness that is reported in place of the engine's.

**Mutated forms.** A comment "Slip:" marks an operator that is a wrong version of the definition
after it. No specification uses them: they are there to show that the run's property fails when the
code is wrong in that way.

## Runs

| run | question | result |
|---|---|---|
| `pdkind` | Are PDKind's verdicts right, is no bound wasted, and what if the solver gives up and the budgets run out? | TRUE and FALSE are right, FALSE is shortest, no lemma blocks a reachable state, a reduced cube still forces bad, between bounds the solver holds exactly the constraints and lemmas at every time, every bound that plain k-induction with simple paths could close is closed if some variable has an update, it decides when it is given time, and it implements the contract in every case |
| `bmc` | Which settings are exact, and can the searches run dry? | one bound at a time is exact and shortest, also with negated init states; intervals are exact without dead ends with the `less_inc` and linear search; these two searches, also when one follows a failed binary search, always have a counterexample left in their interval; FALSE always visits a bad state; every call returns |
| `kinduction` | Do the four checks, which share one context through selectors, mean what they should? | TRUE and FALSE are right, with a base check per bound each step keeps the contract, lazy lets a bound pass only if eager does, it decides |
| `ic3` | Do frames, goals and traces mean what they should over whole runs, in each flavour? | frames over-approximate, TRUE has an inductive invariant, FALSE an execution of the length of its trace, and but for two ways to refine one along its cubes, goals are never found too late, every run with a large enough bound decides |
| `interpolation` | Does it matter which interpolants the solver returns, or that it returns none? | the sets over-approximate, completed bounds have no counterexample, the two sequences stay apart at every pair of positions, and it decides with every setting but eager unrolling |
| `driver` | Is what the user is told true of the system as read? | the verdict and the reported frames are right through every combination of modifiers, and for justice by either way; bounds are covered but for the steps the options text speaks of; every call ends with an answer, or the error the code raises |
| `cegar` | Do refinements, axioms and prophecy variables keep counterexamples, are they enough, and do they make progress? | the answers are right and the loops end, for functions, values, arrays and, in functional systems, free symbols; no counterexample is lost and `assert(ok)` holds |
| `main` | Is what `pono` prints true of the file it read, and does it matter how the command line or a session is ordered? | the system is the file's, but for the operators named below; the answer, the status, the witness and the trace are true of the file; the solver has the options its engine needs; the order of options is irrelevant, and however a system is edited its transition relation is that of its tables |
| `portfolio` | What if engines end at any time, crash or hang, the script is interrupted and calls fail? | the report is one engine's; what is left behind was signalled, in hand when `main` was struck, or not yet done with when the exit handler was; and it returns unless killed, with every process it has signalled |
| `pdkind_assumed_property` | `mod_ts_prop.h:38-39`: assuming the property in the pre-state is sound | violated with PDKind |
| `kinduction_dead_choice` | `kinduction.h:79-81`: the final base check misses no counterexample | violated: totality is decided with variables without update quantified existentially |
| `cegar_inputs` | `ops_abstractor.cpp:220`: a free symbol is equivalent to an input | violated: in a relational system the equality added for the next state reuses this step's input |

### Bounds

- `pdkind` (94,892 states): four states (two Booleans), `MaxBound = 4`, which is beyond the longest simple path, so every run goes through
  the bounds where the property can first be proved, where the simple-path constraints run out, and
  where a counterexample can first appear. A cube has zero, one or two literals
  left, so each outcome of `literal_drop` and of the two gates occurs. The systems are all those with one or two
  successors per state, the deterministic ones with several bad sets and no, one or two initial states,
  and those with a variable without update, with and without a constraint on it. On the functional ones (`HardSystems`) the
  solver may also answer UNKNOWN to every query but the base check. `kMaxDropProbes = 2`, with depths 1 and 2 in place of 20 and 50, so that the full, the halved
  and the zero budget all occur. Time budgets are the nondeterministic `KeepRemaining`.
- `bmc` (12,312 states): 150 graphs over three states that combine self loops, ways back, ways on, shortcuts and dead ends;
  `check_until(2)` and then `check_until(4)`, so that bounds are skipped on the second call and intervals straddle both. Its 14
  settings cover each option and each search with a start, step or doubling that makes an interval
  longer than 2, which is where the searches loop.
- `kinduction` (8,767 states): dead ends, loops and a variable without update over two Booleans; six settings, one per check that can be switched off or varied, and two solvers:
  one that decides everything, one that may leave every query but the base check undecided.
- `ic3` (56,996 states): eight states of a three-bit variable, with 7 bad. Ten systems with all moves for `ic3` and
  `mbic3` (with and without generalisation, generalisation modes 0 and 1, bounds 0, 2 and 9); coarse systems, which the order predicates can decide,
  for `mbic3` mode 2 (interpolants) and for `ic3ia` with and without simulation of the trace and, without it, reduction of predicates, which may then fail and leaves all of them.
  For `ic3sa` and `syguspdr` the variable is split into `w` (two bits) and `u` (one bit, without update or negated): `ic3sa` at
  initial-term levels 2 to 4 with refinement by interpolants, values and functional unrolling; `syguspdr` in its term modes with two
  initial widths. Bound 9 is beyond the eight states.
- `interpolation` (25,039 states): four values, for which every interpolant is enumerated; lines, cycles, branches and dead ends; bound 5 is beyond the diameter.
  All eight settings of `InterpolantMC`; solvers that may fail on an interpolation query at bound 2.
- `driver` (about 19,000 states): `x` counts from 0 to 2; beside it an input, a clock, a variable outside the cone or one without update.
  Bounds lie below, at and beyond the violations; reset sequences of 1 to 3 steps of either polarity; counts of KLiveness
  in three encodings with starts and steps of 1 and 2. The engine inside may answer anything its contract allows, with counterexamples up to `slack` steps longer than the shortest.
- `cegar` (2,673 states): for terms, three values, two inputs, the operator `+ 1 mod 3` and two terms over the state, the input or the next state; initial states, steps and
  bad states that mention them or not. `MaxBound = 3` is the number of states. For arrays, two indices and two elements, one array, three index terms over the input, a register or a constant; bound 3, with
  programs that need axioms at one time, over two times and over more ("latch early").
- `main` (3,200 states): eleven files of up to 68 lines with every tag and operator, words of one to three bits, arrays, constraints on
  inputs, justice and malformed lines; command lines with every engine and solver and those options that act
  on each other. Sessions of two calls (`MaxEdits = 2`) after a file was read: a second call is where an earlier one left tables that disagree.
  `ULongMax` and `IntMax` stand for the limits of the two types, so that numbers wrap and overflow.
- `portfolio` (3,052,968 states): three engines, so that a row is deleted with rows before and after it; with and without `witness_file` and `-v`;
  at most one exception in `main` and one in the handler, since no third one finds anything running. `-s` is taken as given: without it there are no rows.

### Fairness and deadlock

`check_until` runs in one thread to its return, so each engine has `WF_vars(Next)` and nothing
stronger; the solver is assumed to answer each query (possibly with UNKNOWN). `Driver` and the CEGAR loops state
the same without ENABLED, whose evaluation is expensive for their actions: either the end is reached, or steps
are taken for ever (`[]<>(pc = "done") \/ []<><<Next>>_vars`; `driver` checks that nothing else can stop, and in `CegProphecyArrays` every
step that is not the end has a successor by the form of its actions). In `Portfolio` the script is
fair and a signal that was sent arrives, which also ends the wait for stderr in `clean_up`; nothing is assumed of engines, which may run for ever, nor of interrupts. An engine that has returned stops,
so the runs but `driver` and `cegar` (whose end is a step that repeats) do not check for deadlock; `Returns` and `Decides` check instead that it stops
only there.

## Proofs

`UnrollingProofs` holds the facts about executions: what is reachable is closed and least; a walk
(a path of transitions from a reachable state) stays reachable; in a total system a walk of any
length starts in every reachable state; a reachable state ends a run; an unsafe system has a
shortest counterexample; and a counterexample can be cut between two times when the transition into
the first also leads to the second.
`PDKindProofs` proves, for every choice of variables, values, systems, bound, budgets and UNKNOWN patterns that satisfy the named assumptions of `PDKind`:

| theorem | statement |
|---|---|
| `TypeInvariant` | `Spec => []TypeOK`; with it, that there is at most one pushed frame |
| `LemmaSoundness` | no lemma blocks a reachable state |
| `ProofSoundness` | TRUE means safe |
| `CexSoundness` | FALSE has an execution of `reached_k_ + 1` steps into bad, and none is shorter |
| `Refinement` | `PDKind` implements `ProverContract`, if every system is well formed and the base check is always decided |
| `BackgroundTheorem` | between two bounds the solver holds exactly what was meant to be asserted |
| `DropTheorem` | the cube `literal_drop` leaves forces bad |
| `DominationTheorem` | no bound is passed at which k-induction with simple paths proves the property |

For the first five the inductive invariant is `TypeInv /\ (Trusted => Sound)`. `Trusted` is the side condition: the
system is well formed (every reachable state has a successor, constraints hold in every reachable
state, variables without update are free) and the solver decides base checks. `Sound` has four
parts. `ContextSound`: every formula asserted permanently is one that all walks satisfy (a constraint, a
transition, the negation of an unreachable cube), the frame of `inductive_check` holds only the
induction hypothesis, bad at the bound and simple-path constraints, and all transitions up to the bound are there.
`LemmasSound`: no lemma meets the reachable states, and between the two gates the cube holds no
initial state. `ProgressSound`: no counterexample ends at a bound already completed. `VerdictSound`: what the
answer promises. None of them is inductive alone. A base check rules out counterexamples only if no
lemma excludes an execution. A lemma is sound because every walk is a model of what is asserted, so that
its consecution query speaks about every reachable state; totality is what makes a step from a reachable
state part of a walk of full length. And for TRUE, the last steps of a shortest counterexample, which
`ProgressSound` says is longer than the bound, would be a model of the query that was UNSAT: they
satisfy the simple-path constraints because a shortest counterexample can be cut wherever two of its
states agree on the compared variables, which is where `NoUpdateIsFree` is needed.

The last three need no side condition. Their invariant is `Exact` with the types: `BackgroundExact` says that the
context outside every scope is `Stamped` at the last unrolled bound in every piece of the loop body, `FrameExact` what the pushed frame holds,
`CubeForces` that the literals kept and the literals not yet tried together force bad (each is a step
of the argument that none of the cubes on the way is lost when the budget ends), and `InductionBeaten` that after a loop-free model
of `inductive_check` k-induction has the same model: it satisfies the constraints of every pair because
`CyclicPairs` of it is empty, and it satisfies the other formulas because the frame is not smaller than the hypothesis.

`BmcProofs`, for every system, every setting and any calls of `check_until`: `CexTheorem`, `SearchTheorem`, `ContractTheorem`. The
invariant says what the permanent assertions are at most (an execution with no bad state up to the last settled bound, so that no
counterexample beyond it is lost) and at least; that in the binary search every model of the pushed frames is bad between `low` and `high`; that in the
other two the interval has a model, and that below the top frame there is only the clause from which the search
started, which is why the searches after a failed binary one still find what is left; and that `reached_k_` has
passed no counterexample.

`KInductionProofs`, for every system, setting, bound and pattern of UNKNOWN answers: `AnswerTheorem`, `LazyTheorem`, `ContractTheorem`. The
invariant says which assertions, each under its selector, can be there and which must be; that the eager check has asserted the constraint of every
pair up to the bound in progress, and the lazy one leaves the bound only with a loop-free model; and that after the
inductive checks of bound `i` no shortest counterexample has `i` steps or more. The heart is that every piece of a shortest counterexample
is a model of the assertions with any selectors (`PieceSatisfies`): a suffix for the backward check, a prefix for the forward check.

`InterpolationProofs`, for every set of systems and options and whatever interpolants the solver returns: `DarSeparates`,
`EnginesImplementReachSequence` and, because an implementation of `ReachSequence` is one of `ProverContract` whatever it does to its
sets (`SetsKeepContract`, and `FramesKeepContract` for `IC3`), `EnginesKeepContract`. The invariant `IInv` says where
`check_until` is (`ControlInv`: the bound to complete is `reached_k_ + 1`, also after eager unrolling has skipped some) and, for each engine,
what its sets are. All sequences are *chains*: a step along the transitions (backwards for `backward_seq_`) leads from each set into
the next; strengthening a position keeps this only because the interpolant holds what the position before leads to. `IsmcInv` relates the
position being strengthened to the interpolant the next one starts from, which may be larger. `DarInv` says which pairs of positions are
apart in the middle of `pairwise_strengthen`: those above the one it started from, then also those below; once all are, the new positions
avoid bad and the initial states, since bad and init are the first positions of the other sequence. `ImcInv` says that the last interpolant
holds what is reached in exactly `interp_count` steps and that what only `R` holds leads back to `R` and not to `FormulaB`. So an
unsatisfiable query excludes one counterexample length at a time, which is what lets eager unrolling complete several bounds at once; and
at convergence `R` is closed, and a counterexample of any length would have a state in `R` as many steps before its end as the bound. Where every state has a
successor, `R` itself has no bad state, because the time 1 is always among those of `bad_disjuncts_`.

`IC3Proofs`, for every set of systems, options and literals, every flavour, and whatever models, cores, interpolants and orders
the solver and the hash sets give:

| theorem | statement |
|---|---|
| `IC3ProofIsInductive` | TRUE comes with an inductive invariant of the concrete system that avoids bad |
| `IC3GoalsAreNew` | no proof goal is found too late, and those of frame 0 hold an initial state |
| `IC3TraceIsConcrete` | FALSE comes with an execution of the length of the trace |
| `IC3ImplementsReachSequence` | `IC3` implements `ReachSequence` |
| `IC3KeepsContract` | `IC3` implements `ProverContract`, by `FramesKeepContract` |

The inductive invariant `IInv` has one part per piece of state. `StepsInv`: a step of the relation that is used, that of the abstraction
included, leads from each frame into the next; that frames grow (`FrameGrows`), avoid bad and hold what is reachable in as many steps
follows from it and from `Frame` being cumulative. It is kept by a new clause because of `GenInv`: the cube being generalised has no initial
state and no step leads into it from the frame before, whichever literals have been dropped and wherever it was raised to
(`Strengthened`; `RelInd` assumes the negation of the cube, and a cube that nothing leads into from outside of it nothing leads into at all from a frame
that leaves it out). Refinement keeps it because it only takes transitions away, and takes none of the system (`LearnRelShrinks`,
`AbstractSteps`). `GoalInv` says of each goal that it is fresh, which is what `GoalsAreNew` asks and needs that the goal before it was not
blocked, and that bad can be reached along its trace from *any* of its states (`Leads`): that is what generalising a predecessor may not break. For SygusPdr
it is "from any of its states, but for the values of variables without update" (`Swap`), and `InitIsClosed` is why that is enough at the
initial states. `CexInv` carries it to the trace in `refine`, and `CallsInv` holds the stack of SygusPdr's recursive calls together with the goal
they serve. For IC3IA and IC3SA the goals say nothing of the concrete system; there FALSE is right because of what
`refine` asks. Frames, traces and stacks are sequences of elements that need no type (`IsSeq`), as clauses are sets of sets of states.

These theorems have side conditions. `~Blind`, for all of them: with its functional preimage, MBIC3 generalises a predecessor to the label of the
transition relation (below), so that goals and traces then say nothing. `~Sygus`, for `IC3GoalsAreNew` only: a cube without the variables
without update may hold states of an earlier frame when bad mentions such a variable (below). `FreeStart`, for what is
said of FALSE: the initial states of IC3SA leave the variables without update free. The proof of `RefuteIsConcrete` needed it, and
without it the code gives a wrong answer (below).

`CegarProofs` is about both CEGAR loops. For every operator on any set of values, all finite sets of states and inputs, and any cores and witnesses,
`TermsAnswerTheorem` says that each answer of `CegarOpsUf` and `CegarValues` is true of the concrete system, and that no refinement hides a counterexample. The
systems are `Proper`, which says what terms and formulas are about (TLC evaluates it on those of the run), and `NoSharedInputs`: in a
relational system no free symbol stands for a term over inputs, which is the exception that `cegar_inputs` shows. The part of the invariant
that matters is `AxiomsInv`: an equality added to the initial states or the target of a transition, with free symbols, is over the state. For then a concrete state
`Fits`, with what the abstraction chooses read off it, in every place the equalities are asked for, and an execution lifts state by state
(`StepFits`); going back to the concrete system, all equalities together leave only one choice (`PathIsConcrete`), in the last state of a path
for values because their variables are frozen.

For `CegProphecyArrays`, with any registers, inputs, indices and elements (finite where the model counts them), any system with an array,
and whatever cores and times are chosen, `ArraysTheorem` says that no axiom and no prophecy hides a counterexample, and that TRUE about the refined
system is true of the concrete one. `ExecutionIsSeen` is the heart: an execution of the concrete system is one of the abstract system under
*every* set of axioms at once, of the same length, with the witness of the equality where the last array differs, each history variable what its term was so many steps
before (`SeenSteps`; before the start it is free), and each prophecy variable what its term will be so many steps before the end, so that all prophecies come
true there (`SeenIsForetold`). This is why it does not matter when an axiom is added nor at which end of a transition. The
inductive invariant `ArraysInv` therefore says nothing of the axioms; it says that a prophecy variable is for a term at a time, with finitely
many times (`NeededAreGuesses`: what `reduce_nonconsecutive_axioms` leaves was found before), without which there are no histories to
fill, that the bound is one, and what the verdict TRUE says. The theorem does not say that the axioms suffice (`AxiomsSuffice`): that no
`assert(ok)` fails and no alarm is false depends on all classes of axioms together and is model-checked.

`PortfolioProofs`, for any number of engines: `ReportTheorem` and `CleanUpTheorem`, with an exception at any step of `main` and another at any
step of the atexit handler. The invariant ties the dictionary to the processes (`ListInv`: an engine is listed from when it was recorded to
when it is deleted, after its row was written), says that rows are true and all but the last are of engines without an answer (`RowInv`), that a file is
there for each engine that is listed or being launched and holds a witness if it answered SAT (`FileInv`), and where things to clean up can be
(`CleanInv`): while `main` runs, a process is listed or has just been started, and a file is of a listed engine, of the one being launched, or of the one deleted
that `clean_up` has not reached; afterwards each is in the walk of the handler, signalled, or was in hand when `main` was struck. `CleanInv` also
has to say, within a turn of the walk, what has been done to its first engine, for an exception may come there too.

The run that checks a property shows it on small instances; the theorem shows it for all. TLC finds the inductive
invariants true on those instances too, but for `ProgressInv` of `KInductionProofs`, which speaks of all lengths.

The theorems assume of the constants what the modules' named assumptions say. Those of `IC3` are the conditions under which
the code runs a flavour (`OptionsAssumption`: SygusPdr always generalises, the functional flavours refuse other systems) and what its literals are
(`SystemsAssumption`, `LiteralsAssumption`: the literals of a model leave one state, the bounds of an equality hold where it does;
`SymbolsAssumption`: variables take values independently). Those of `CegProphecyArrays` are that its systems are of
their type, that registers, tables and terms are finitely many, and that the witness is not one of the terms. Two more came out of the proofs: `Systems \subseteq SystemType`
in `Bmc` and `KInduction`, and, in `KInduction!LazyIsEager` and `PDKind!DominatesSimplePathInduction`, the guard that there is a variable to
compare, without which the property is false.

Only model-checked are: the liveness properties (`Decides`, `Returns`, `LoopDecides`), which are out of the prover's reach;
`AxiomsSuffice`; and everything about the driver, the frontend and the modifiers, whose modules reach RECURSIVE operators. `TermsAnswerIsRight` of
`MCCegar` is what `TermsAnswerTheorem` proves, for the instance that is run.
MBIC3 with the functional preimage is in the model, but neither a run nor a theorem speaks of it.

## What the models leave out

The SMV, VMT and CoreIR frontends, logging, pure term traversals and the evaluation scripts are
not modelled: they parse, print and pass on, and keep no state a step could find stale. Of the
modelled components:

- *Engines.* UNKNOWN outside PDKind and K-induction (`Bmc` and the others take a solver that
  decides; interpolation queries may fail); `reset_env` and a second `check_until` of engines other than BMC;
  integer overflow of bounds. `kind_no_ind_check`, which implies that both inductive checks are off
  (`kinduction.cpp:97-99`) and then only saves an assertion that no query uses (line 210).
- *IC3.* SygusPdr's operator abstraction (`op_abstractor.cpp`) and its refinement, its
  constraints, and how its learner builds a term (the model takes any choice from a pool of terms); `may` goals are popped
  with the step after the one that blocks them. `MsatIC3IA`, whose engine is an external library; important variables, resets of the solver and
  the cosmetic order of goals. `IC3SA` takes its terms and predicates from the system's description, in
  place of the walk over its formulas.
- *Order of literals, clauses and goals.* Where the code takes them in the order of a hash set, or
  of the random generator of `ic3_random_seed`, the models take any order.
- *Terms.* Hashing, rewriting and the unrollers' caches: `Unrolling` says what a timed formula means.
  The functional unroller is modelled with interval 0 only, as IC3SA uses it (`IC3SA!Unrolled`).
- *Systems.* `replace_ts`, `swap` and the copy between solvers, in `TransitionSystem`. `LayeredSystem` has the effect of the
  builder operations on what a system denotes; nothing proves that the two views agree.
- *Driver.* Signals, profiling, logging, `--check-invar`. `Main` leaves the modifiers that change the property to `CheckProp`, and
  `BaseProver::witness`, which translates terms back.
- *Files.* What the parser of BTOR2 rejects; the layout of witness and trace.
- *CEGAR.* Axioms about infinite index sorts, `prove()` with `MsatIC3IA`, and the concretization of
  terms. The engine inside is any that keeps its contract, so these runs show what the refinement loop adds.
- *Proofs.* A module that reaches a RECURSIVE operator (`LayeredSystem`, `Terms` and what extends them)
  has no theorems.

## Divergences without a run

Three disagreements between a comment and the code have a run. Those below were met while modelling; the models
follow the code, and the properties name the settings they exclude for that reason. *Latent* marks what no caller reaches.

Engines:

- `interpolantmc.cpp:199`: `invar_` may contain a bad state that has no successor, although `prover.h:124-126` and
  `pono.cpp:194-201` take it for an invariant that implies the property.
- `bmc.cpp:148-151` calls the counterexample minimal also when the interval is longer than one bound.
- `bmc.cpp:187` and `kinduction.cpp:456` take UNKNOWN for UNSAT.
- `mbic3.cpp:331` substitutes in the label of the transition relation, so that the functional preimage is
  the label itself, against `ic3base.h:321-322` and the asserts at `ic3base.cpp:608-615`.
- Eager unrolling in `interpolantmc.cpp:237` skips bounds whose bad states never enter `bad_disjuncts_`;
  the options text (`options.cpp:716-720`) warns only for the first-and-last setting.
- `options.cpp:954-955` lacks a `break`.
- `pdk_ind.cpp` says that PDKind proves everything k-induction proves. With no variable that has an update and a dead end it does not: for
  two times after the first K-induction asserts an empty disjunction and has its proof at bound 2, where
  `inductive_check` skips the pair (`DominatesSimplePathInduction` asks for a variable with an update).
- `pdk_ind.cpp:328` describes a check that K-induction makes from the initial states and PDKind does not.
- `ic3sa.cpp`: levels 0 and 1 of `--ic3sa-initial-terms-lvl` leave init or bad undecided by the
  predicates, and the asserts at `ic3base.cpp:608-615` can fail (`OptionsAssumption` requires level 2);
  value refinement chooses the inputs of a step twice (line 530 puts a fresh symbol where the model of the step before had a value), so that with
  `--no-ic3sa-func-refine` and initial states that fix a variable without update, which `check_ts` allows, FALSE is answered for a safe system, against
  "this is a concrete counterexample" (line 556): TLC finds it from `w = u = 0` with `w` becoming the element `2w + u + 1` of
  `<<1,2, 1,1, 3,3, 3,3>>` and 3 bad, which only `u = 1` in the first step reaches; `assert(!interp_res.is_sat())` (line 340) can fail, as
  the query leaves init out; the lemma of functional refinement is valid in every state, so that it is
  only through its predicates and terms that the loop makes progress.
- `syguspdr.cpp`: a variable without update whose initial value is fixed is dropped from cubes (only constraints are looked at), so that a
  predecessor query can fail where `assert(succ)` expects it not to; `IC3SA` and `SygusPdr` are run where this does not
  happen (`InitIsClosed`). When bad mentions a variable without update (`pono.cpp:105-112` makes states of the inputs of the property), a goal's
  cube loses it too (`syguspdr.cpp:909-922`) and may meet an earlier frame, so that `ic3base.cpp:608-615` can fail in the model, which takes any
  partial model. `rel_ind_check_may_block` returns the true term both for a cube that meets init and for an empty partial model;
  `assert(conj_full)` (release: goes on with true) fails for a constant update.
- `syntax_analysis.cpp:126-133` loops for ever when the accumulated bound reaches the number of terms (the default is 0 and no option sets
  it); mode `VAR_C_EXT` asserts that more terms are never needed; `syntax_analysis_walker.cpp:436-447` collects slices of terms that mention
  only some variable of the model.

Driver, modifiers and liveness:

- `control_signals.cpp:44` declares a variable that shadows the one it means to set; a clock that is an input
  ends in an exception.
- `pono.cpp:163`: pseudo-init with inputs in the property delays it by two steps (`options.cpp:440-444`), the
  trailing state of the witness stays, and the bound is not enlarged; with next-state variables it throws.
- The liveness translation runs before `--reset` adds its own states; KLiveness ignores the reset, clock,
  pseudo-init and assume-property options; with `--static-coi` its `store_cex` throws; more than one justice
  condition throws.
- Pseudo-init on a functional system loses `constraints_` (`CheckProp!Rechecked` decides them again).
- `prover.cpp:262-268` discards the result of a `for_each` (latent); `ts.cpp:767` iterates `constraints_`
  while it is appended to (latent); `ts.cpp:868` copies `constraints_` without replacing terms (latent);
  `functional_unroller.cpp:63` decides about fresh variables by the time asked for, not the time it builds (only with intervals).

Frontend, systems, options and printers:

- `btor2_encoder.cpp`: the outer equality of `saddo` should be a conjunction (about line 613), `smulo` extends its arguments
  without sign, and `usubo` does not negate its second argument, so that the three differ from the format.
- The promotion of an input loses it where outputs and named terms mention it; the initial value of an array given
  as a Boolean throws.
- `ts.cpp:745`: `drop_state_updates` appends to the vector it walks over and leaves `deterministic_` TRUE;
  `replace_terms` leaves the constraints as they were (`ts.cpp:800-874`); `is_right_total` leaves the next states of variables without
  update unquantified.
- The VCD printer does not print an array element that goes back to its default, and keeps one of two signals of the same name. `dump_witness` prints `b`
  for justice properties.
- `options.cpp`: `stoul` throws `out_of_range`, which nothing catches, and negative numbers wrap; `ic3bool` is accepted but cannot be built.
- `available_solvers.cpp`: the tuned branch of the MathSAT interpolator cannot be reached; for IC3IA with MathSAT a second
  `emplace("model_generation", "false")` has no effect.

CEGAR:

- `cegar_ops_uf.cpp:231` with BMC steps longer than 1, or K-induction with one base check, meets
  the same counterexample for ever.
- `array_axiom_enumerator.cpp`: lambdas are never frozen, against the note at 221-223 (infinite index sorts); constant arrays become state
  variables that are not frozen; `array_abstractor.cpp:170` rebuilds a store with child 1 in place of 2 (latent).
- `cegar_values.cpp:94-111` compares bit-vectors without sign against the negated cutoff, which never holds, so that small constants are
  abstracted too; `refine` throws for every engine but CEGP with IC3IA.
- `compute_witness` does nothing in `CegProphecyArrays`, so that `witness()` throws after FALSE.

Portfolio:

- An exception that is not caught ends the script with status 1, which is also that of UNSAT.
- `parallel_pono.py:205-206` deletes the entry before `clean_up` removes the file, and 186-193 creates file and process before there is an entry: an
  exception in between leaves a file, and at 192 a running process, that the atexit handler does not know of.
- An exception in the atexit handler itself, such as a second Ctrl-C while `-v` waits at line 118, ends it: later engines are not terminated and
  their files stay.
- The handler removes a file right after the signal (115-117), and a process that is still running may write it again.

That an engine writes its witness before it exits is assumed of `pono`, whose code does so. `main`'s steps before the first launch (the header of the summary,
`find_executable`) are not modelled: nothing is there to clean up when they fail.

## Plan

1. The modifiers: what each layer of `LayeredSystem` keeps of the layer below, as lemmas, once its recursive operators
   are written as functions.
2. The functional unroller with intervals and extra constraints, against `Unrolling`.
3. UNKNOWN answers in `Bmc` and `IC3`.
