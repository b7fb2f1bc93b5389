------------------------------ MODULE Options ------------------------------
(***************************************************************************)
(* options/options.h and options.cpp: the fields of PonoOptions with their *)
(* defaults, the options of the command line with the arguments they take, *)
(* and what each does to the fields.                                       *)
(*                                                                         *)
(* A command line is a sequence of words; an option and its argument are   *)
(* one word.  Fields are named as in PonoOptions, without the last         *)
(* underscore.  Numbers are scaled down: an unsigned long goes to ULongMax *)
(* and an int to IntMax.                                                   *)
(***************************************************************************)
EXTENDS Integers, SequencesExt, TLC

CONSTANTS ULongMax, IntMax

ASSUME WidthAssumption == IntMax \in Nat /\ ULongMax \in Nat /\ 10 < IntMax /\ IntMax < ULongMax

\* The words of a command line; numbers and pairs are texts that have no name here.
Flag(name)             == [name |-> name, kind |-> "none"]
Number(name, n)        == [name |-> name, kind |-> "number", number |-> n, text |-> "number"]
Text(name, t)          == [name |-> name, kind |-> "text", text |-> t]
Pair(name, key, value) == [name |-> name, kind |-> "pair", key |-> key, value |-> value, text |-> "pair"]
File(file)             == [name |-> "", kind |-> "file", file |-> file]

----------------------------------------------------------------------------
(* The table usage: what argument each option takes.  A number or a pair   *)
(* is a text too, which is what Arg::NonEmpty asks for.                    *)

Table(flags, numbers, texts, pairs) ==
  [o \in flags |-> "none"] @@ [o \in numbers |-> "number"]
    @@ [o \in texts |-> "text"] @@ [o \in pairs |-> "pair"]

UsageGeneral == Table(
  {"help", "version", "logging-smt-solver", "printing-smt-solver", "printing-smt-interpolator",
   "witness", "justice"},
  {"bound", "prop", "verbosity", "random-seed"},
  {"engine", "vcd", "smt-solver", "smt-interpolator", "dump-btor2-witness", "justice-translator"},
  {"smt-solver-opt", "smt-interpolator-opt"})

UsageSystem == Table(
  {"static-coi", "show-invar", "check-invar", "check-trans-total"}, {"resetsteps"},
  {"reset", "clock"}, {})

UsageIC3 == Table(
  {"no-ic3-pregen", "no-ic3-indgen", "ic3-functional-preimage", "no-ic3-unsatcore-gen",
   "no-ic3ia-reduce-preds", "no-ic3ia-track-important-vars", "no-ic3ia-sim-cex",
   "no-ic3sa-func-refine", "pseudo-init-prop", "assume-prop"},
  {"ic3-gen-max-iter", "mbic3-indgen-mode"}, {"profiling-log"}, {})

UsageCegar == Table(
  {"ceg-prophecy-arrays", "no-cegp-timed-axiom-red", "no-cegp-consec-axiom-red",
   "no-cegp-nonconsec-axiom-red", "cegp-force-restart", "cegp-abs-vals", "cegp-strong-abs",
   "ceg-bv-arith", "ceg-bv-arith-as-free-symbol", "promote-inputvars", "ic3sa-interp",
   "print-wall-time"},
  {"cegp-abs-vals-cutoff", "ceg-bv-arith-min-bw", "sygus-op-lv", "sygus-term-mode",
   "ic3sa-initial-terms-lvl"}, {}, {})

UsageBounded == Table(
  {"bmc-neg-init-step", "bmc-exponential-step", "bmc-single-bad-state", "bmc-neg-bad-step",
   "bmc-neg-bad-step-all", "bmc-min-cex-linear-search", "bmc-min-cex-less-inc-bin-search",
   "bmc-allow-non-minimal-cex", "no-kind-simple-path-check", "kind-eager-simple-path-check",
   "no-kind-multi-call-simple-path-check", "no-kind-ind-check-init-states",
   "no-kind-ind-check", "no-kind-ind-check-property"},
  {"bmc-bound-start", "bmc-bound-step"}, {}, {})

UsageUnbounded == Table(
  {"kind-one-time-base-check", "no-interp-frontier-simpl", "interp-eager-unroll",
   "interp-backward", "no-klive-check-lasso-in-cex", "no-klive-lockstep-bmc"},
  {"kind-bound-step", "klive-bound", "klive-start-step", "klive-step-size"},
  {"interp-props", "klive-counter-enc"}, {})

Usage == UsageGeneral @@ UsageSystem @@ UsageIC3 @@ UsageCegar @@ UsageBounded @@ UsageUnbounded

IsKnown(w) == w.name \in DOMAIN Usage

\* Arg::Numeric, Arg::NonEmpty, Arg::ColonSepPair.
IsLegal(w) == IsKnown(w) =>
  \/ Usage[w.name] = w.kind
  \/ Usage[w.name] = "text" /\ w.kind \in {"number", "pair"}

\* std::stoul wraps a negative number around, and throws what is not a
\* PonoException if the number does not fit.
InRange(n) == -ULongMax <= n /\ n <= ULongMax
Stoul(n) == n % (ULongMax + 1)

----------------------------------------------------------------------------
(* The fields and their defaults.                                          *)

DefaultsGeneral ==
  [engine |-> "bmc", prop_idx |-> 0, bound |-> 10, verbosity |-> 0, random_seed |-> 0,
   witness |-> FALSE, justice |-> FALSE, justice_translator |-> "l2s",
   vcd_name |-> "", btor2_witness_name |-> "", reset_name |-> "", clock_name |-> "",
   reset_bnd |-> 1, static_coi |-> FALSE, show_invar |-> FALSE, check_invar |-> FALSE,
   check_trans_total |-> FALSE, smt_solver |-> "bzla", smt_solver_opts |-> <<>>,
   smt_interpolator |-> "bzla", smt_interpolator_opts |-> <<>>,
   logging_smt_solver |-> FALSE, printing_smt_solver |-> FALSE,
   printing_smt_interpolator |-> FALSE, profiling_log_filename |-> "",
   print_wall_time |-> FALSE]

DefaultsIC3 ==
  [ic3_pregen |-> TRUE, ic3_indgen |-> TRUE, ic3_gen_max_iter |-> 2, mbic3_indgen_mode |-> 0,
   ic3_functional_preimage |-> FALSE, ic3_unsatcore_gen |-> TRUE, ic3ia_reduce_preds |-> TRUE,
   ic3ia_track_important_vars |-> TRUE, ic3ia_sim_cex |-> TRUE, ic3sa_func_refine |-> TRUE,
   ic3sa_initial_terms_lvl |-> 4, ic3sa_interp |-> FALSE,
   sygus_term_mode |-> 4, sygus_term_extract_depth |-> 0, sygus_initial_term_width |-> 8,
   sygus_initial_term_inc |-> 8, sygus_accumulated_term_bound |-> 0,
   sygus_use_operator_abstraction |-> 0]

DefaultsModifiers ==
  [pseudo_init_prop |-> FALSE, assume_prop |-> FALSE, promote_inputvars |-> FALSE,
   ceg_prophecy_arrays |-> FALSE, cegp_timed_axiom_red |-> TRUE,
   cegp_consec_axiom_red |-> TRUE, cegp_nonconsec_axiom_red |-> TRUE,
   cegp_force_restart |-> FALSE, cegp_abs_vals |-> FALSE, cegp_abs_vals_cutoff |-> 100,
   cegp_strong_abstraction |-> FALSE, ceg_bv_arith |-> FALSE,
   ceg_bv_arith_as_free_symbol |-> FALSE, ceg_bv_arith_min_bw |-> 16]

DefaultsUnrolling ==
  [bmc_bound_start |-> 0, bmc_bound_step |-> 1, bmc_neg_init_step |-> FALSE,
   bmc_exponential_step |-> FALSE, bmc_single_bad_state |-> FALSE,
   bmc_neg_bad_step |-> FALSE, bmc_neg_bad_step_all |-> FALSE,
   bmc_min_cex_linear_search |-> FALSE, bmc_min_cex_less_inc_bin_search |-> FALSE,
   bmc_allow_non_minimal_cex |-> FALSE,
   kind_no_simple_path_check |-> FALSE, kind_eager_simple_path_check |-> FALSE,
   kind_no_multi_call_simple_path_check |-> FALSE, kind_no_ind_check_init_states |-> FALSE,
   kind_no_ind_check |-> FALSE, kind_no_ind_check_property |-> FALSE,
   kind_one_time_base_check |-> FALSE, kind_bound_step |-> 1,
   interp_frontier_set_simpl |-> TRUE, interp_props |-> "all",
   interp_eager_unroll |-> FALSE, interp_backward |-> FALSE,
   klive_bound |-> 1000, klive_start_step |-> 1, klive_step_size |-> 1,
   klive_counter_encoding |-> "bv-binary", klive_check_lasso_in_cex |-> TRUE,
   klive_lockstep_bmc |-> TRUE]

Defaults == DefaultsGeneral @@ DefaultsIC3 @@ DefaultsModifiers @@ DefaultsUnrolling

----------------------------------------------------------------------------
(* The switch of parse_and_set_options, case by case.                      *)

FlagsGeneral ==
  "logging-smt-solver" :> [logging_smt_solver |-> TRUE]
    @@ "printing-smt-solver" :> [printing_smt_solver |-> TRUE]
    @@ "printing-smt-interpolator" :> [printing_smt_interpolator |-> TRUE]
    @@ "witness" :> [witness |-> TRUE] @@ "justice" :> [justice |-> TRUE]
    @@ "static-coi" :> [static_coi |-> TRUE] @@ "show-invar" :> [show_invar |-> TRUE]
    @@ "check-invar" :> [check_invar |-> TRUE]
    @@ "check-trans-total" :> [check_trans_total |-> TRUE]

\* The two cases before no-ic3ia-sim-cex fall through.
FlagsIC3 ==
  "no-ic3-pregen" :> [ic3_pregen |-> FALSE] @@ "no-ic3-indgen" :> [ic3_indgen |-> FALSE]
    @@ "ic3-functional-preimage" :> [ic3_functional_preimage |-> TRUE]
    @@ "no-ic3-unsatcore-gen" :> [ic3_unsatcore_gen |-> FALSE]
    @@ "no-ic3ia-reduce-preds" :> [ic3ia_reduce_preds |-> FALSE,
                                   ic3ia_track_important_vars |-> FALSE, ic3ia_sim_cex |-> FALSE]
    @@ "no-ic3ia-track-important-vars" :> [ic3ia_track_important_vars |-> FALSE,
                                           ic3ia_sim_cex |-> FALSE]
    @@ "no-ic3ia-sim-cex" :> [ic3ia_sim_cex |-> FALSE]
    @@ "no-ic3sa-func-refine" :> [ic3sa_func_refine |-> FALSE]

FlagsCegar ==
  "pseudo-init-prop" :> [pseudo_init_prop |-> TRUE] @@ "assume-prop" :> [assume_prop |-> TRUE]
    @@ "ceg-prophecy-arrays" :> [ceg_prophecy_arrays |-> TRUE]
    @@ "no-cegp-timed-axiom-red" :> [cegp_timed_axiom_red |-> FALSE]
    @@ "no-cegp-consec-axiom-red" :> [cegp_consec_axiom_red |-> FALSE]
    @@ "no-cegp-nonconsec-axiom-red" :> [cegp_nonconsec_axiom_red |-> FALSE]
    @@ "cegp-force-restart" :> [cegp_force_restart |-> TRUE]
    @@ "cegp-abs-vals" :> [cegp_abs_vals |-> TRUE]
    @@ "cegp-strong-abs" :> [cegp_strong_abstraction |-> TRUE]
    @@ "ceg-bv-arith" :> [ceg_bv_arith |-> TRUE]
    @@ "ceg-bv-arith-as-free-symbol" :> [ceg_bv_arith_as_free_symbol |-> TRUE]
    @@ "promote-inputvars" :> [promote_inputvars |-> TRUE]
    @@ "ic3sa-interp" :> [ic3sa_interp |-> TRUE]
    @@ "print-wall-time" :> [print_wall_time |-> TRUE]

FlagsUnrolling ==
  "bmc-neg-init-step" :> [bmc_neg_init_step |-> TRUE]
    @@ "bmc-exponential-step" :> [bmc_exponential_step |-> TRUE]
    @@ "bmc-single-bad-state" :> [bmc_single_bad_state |-> TRUE]
    @@ "bmc-neg-bad-step" :> [bmc_neg_bad_step |-> TRUE]
    @@ "bmc-neg-bad-step-all" :> [bmc_neg_bad_step_all |-> TRUE]
    @@ "bmc-min-cex-linear-search" :> [bmc_min_cex_linear_search |-> TRUE]
    @@ "bmc-min-cex-less-inc-bin-search" :> [bmc_min_cex_less_inc_bin_search |-> TRUE]
    @@ "bmc-allow-non-minimal-cex" :> [bmc_allow_non_minimal_cex |-> TRUE]
    @@ "no-kind-simple-path-check" :> [kind_no_simple_path_check |-> TRUE]
    @@ "kind-eager-simple-path-check" :> [kind_eager_simple_path_check |-> TRUE]
    @@ "no-kind-multi-call-simple-path-check" :> [kind_no_multi_call_simple_path_check |-> TRUE]
    @@ "no-kind-ind-check-init-states" :> [kind_no_ind_check_init_states |-> TRUE]
    @@ "no-kind-ind-check" :> [kind_no_ind_check |-> TRUE, kind_no_ind_check_init_states |-> TRUE,
                               kind_no_ind_check_property |-> TRUE]
    @@ "no-kind-ind-check-property" :> [kind_no_ind_check_property |-> TRUE]
    @@ "kind-one-time-base-check" :> [kind_one_time_base_check |-> TRUE]
    @@ "no-interp-frontier-simpl" :> [interp_frontier_set_simpl |-> FALSE]
    @@ "interp-eager-unroll" :> [interp_eager_unroll |-> TRUE]
    @@ "interp-backward" :> [interp_backward |-> TRUE]
    @@ "no-klive-check-lasso-in-cex" :> [klive_check_lasso_in_cex |-> FALSE]
    @@ "no-klive-lockstep-bmc" :> [klive_lockstep_bmc |-> FALSE]

Flags == FlagsGeneral @@ FlagsIC3 @@ FlagsCegar @@ FlagsUnrolling

Numbers ==
  "bound" :> "bound" @@ "prop" :> "prop_idx" @@ "verbosity" :> "verbosity"
    @@ "random-seed" :> "random_seed" @@ "resetsteps" :> "reset_bnd"
    @@ "ic3-gen-max-iter" :> "ic3_gen_max_iter" @@ "mbic3-indgen-mode" :> "mbic3_indgen_mode"
    @@ "cegp-abs-vals-cutoff" :> "cegp_abs_vals_cutoff"
    @@ "ceg-bv-arith-min-bw" :> "ceg_bv_arith_min_bw"
    @@ "sygus-op-lv" :> "sygus_use_operator_abstraction" @@ "sygus-term-mode" :> "sygus_term_mode"
    @@ "ic3sa-initial-terms-lvl" :> "ic3sa_initial_terms_lvl"
    @@ "bmc-bound-start" :> "bmc_bound_start" @@ "bmc-bound-step" :> "bmc_bound_step"
    @@ "kind-bound-step" :> "kind_bound_step" @@ "klive-bound" :> "klive_bound"
    @@ "klive-start-step" :> "klive_start_step" @@ "klive-step-size" :> "klive_step_size"

\* The numbers that are refused.
Refused(name, n) ==
  \/ name = "bound" /\ n >= IntMax
  \/ name = "mbic3-indgen-mode" /\ n > 2
  \/ name = "ic3sa-initial-terms-lvl" /\ n > 4
  \/ name \in {"bmc-bound-step", "kind-bound-step", "klive-bound", "klive-start-step",
               "klive-step-size"} /\ n = 0

\* str2engine and str2livenessalg.
Engines == {"bmc", "bmc-sp", "ind", "dar", "interp", "ismc", "mbic3", "ic3bool", "ic3bits",
            "ic3ia", "msat-ic3ia", "ic3sa", "sygus-pdr", "pdkind"}

Spellings ==
  "engine" :> Engines @@ "justice-translator" :> {"l2s", "klive"}
    @@ "smt-solver" :> {"btor", "bzla", "cvc5", "msat", "yices2", "z3"}
    @@ "smt-interpolator" :> {"bzla", "cvc5", "msat"}
    @@ "interp-props" :> {"all", "first-and-last"}
    @@ "klive-counter-enc" :> {"bv-binary", "bv-one-hot", "int"}

TextFields ==
  "engine" :> "engine" @@ "justice-translator" :> "justice_translator"
    @@ "smt-solver" :> "smt_solver" @@ "smt-interpolator" :> "smt_interpolator"
    @@ "interp-props" :> "interp_props" @@ "klive-counter-enc" :> "klive_counter_encoding"
    @@ "vcd" :> "vcd_name" @@ "dump-btor2-witness" :> "btor2_witness_name"
    @@ "reset" :> "reset_name" @@ "clock" :> "clock_name"

PairFields ==
  "smt-solver-opt" :> "smt_solver_opts" @@ "smt-interpolator-opt" :> "smt_interpolator_opts"

\* Slip: only one of the two cases looks at the other.
Conflict_OneWay(o, w) ==
  w.name = "bmc-neg-bad-step" /\ o.bmc_neg_bad_step_all

Conflict(o, w) ==
  \/ w.name = "bmc-neg-bad-step" /\ o.bmc_neg_bad_step_all
  \/ w.name = "bmc-neg-bad-step-all" /\ o.bmc_neg_bad_step

\* A throw of PonoException; the last one is that of a build without gperftools.
Throws(o, w) ==
  \/ Conflict(o, w)
  \/ w.name \in DOMAIN Numbers /\ Refused(w.name, Stoul(w.number))
  \/ w.name \in DOMAIN Spellings /\ w.text \notin Spellings[w.name]
  \/ w.name = "profiling-log"

\* One case of the switch.
Set(o, w) ==
  CASE w.name \in DOMAIN Flags      -> Flags[w.name] @@ o
    [] w.name \in DOMAIN Numbers    -> [o EXCEPT ![Numbers[w.name]] = Stoul(w.number)]
    [] w.name \in DOMAIN PairFields -> [o EXCEPT ![PairFields[w.name]] = (w.key :> w.value) @@ @]
    [] w.name \in {"vcd", "dump-btor2-witness"} ->
         [o EXCEPT ![TextFields[w.name]] = w.text, !.witness = TRUE]
    [] OTHER -> [o EXCEPT ![TextFields[w.name]] = w.text]

----------------------------------------------------------------------------
(* optionparser.h and the checks that come before the switch.              *)

\* Parsing stops at the first word that is not an option.
Options(cmd) ==
  LET stop == {n \in DOMAIN cmd : cmd[n].kind = "file"}
  IN  IF stop = {} THEN cmd ELSE SubSeq(cmd, 1, (CHOOSE n \in stop : \A m \in stop : n <= m) - 1)

NonOptions(cmd) == SubSeq(cmd, Len(Options(cmd)) + 1, Len(cmd))
Words(cmd) == Range(Options(cmd))

\* Usage or the version is printed and ERROR returned.
IsRejected(cmd) ==
  \/ \E w \in Words(cmd) : ~IsLegal(w) \/ ~IsKnown(w) \/ w.name \in {"help", "version"}
  \/ Len(NonOptions(cmd)) # 1

\* parse_and_set_options: the fields and "UNKNOWN", "ERROR" or an abort.
Outcome(result, o) == [result |-> result, o |-> o]
SetNext(r, w) ==
  IF r.result # "UNKNOWN" THEN r
  ELSE IF w.name \in DOMAIN Numbers /\ ~InRange(w.number) THEN Outcome("ABORT", r.o)
  ELSE IF Throws(r.o, w) THEN Outcome("ERROR", r.o)
  ELSE Outcome("UNKNOWN", Set(r.o, w))

parse_and_set_options(cmd) ==
  IF IsRejected(cmd) THEN Outcome("ERROR", Defaults)
  ELSE FoldLeft(SetNext, Outcome("UNKNOWN", Defaults), Options(cmd))
=============================================================================
