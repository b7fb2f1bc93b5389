------------------------------- MODULE Launch -------------------------------
(***************************************************************************)
(* smt/available_solvers.cpp and utils/make_provers.cpp: the solvers a     *)
(* build offers, with what options they are created, and the prover that   *)
(* is put together for an engine.                                          *)
(*                                                                         *)
(* A solver is a record of its kind and of the options set on it; NoSolver *)
(* and NoProver stand for an exception.  A prover is the sequence of its   *)
(* class templates, the engine last.  The options that MathSAT is given    *)
(* for speed alone are left out.                                           *)
(***************************************************************************)
EXTENDS Integers, SequencesExt, TLC

CONSTANT
  Build       (* the WITH_... of the build: of "btor", "msat", "yices2", "z3", "msat-ic3ia" *)

solver_enums == {"bzla", "cvc5"} \cup (Build \cap {"btor", "msat", "yices2", "z3"})
itp_enums    == {"bzla", "cvc5"} \cup (Build \cap {"msat"})

ic3_variants == {"ic3bool", "ic3bits", "mbic3", "ic3ia", "msat-ic3ia", "ic3sa", "sygus-pdr"}

NoSolver == [enum |-> "none"]
NoProver == <<>>

disallowed_smt_opts ==
  {"incremental", "produce-interpolants", "produce-models", "produce-unsat-assumptions"}

check_allowed_smt_opts(opts) == DOMAIN opts \cap disallowed_smt_opts = {}

\* Options set later come first: with @@ they win.
create_solver_base(se, logging, printing) ==
  IF se \in solver_enums
  THEN [enum |-> se, logging |-> logging, printing |-> printing, opts |-> <<>>]
  ELSE NoSolver

set_opts(s, opts) == IF s = NoSolver THEN s ELSE [s EXCEPT !.opts = opts @@ @]

create_solver(se, logging, incremental, produce_model, printing, solver_opts) ==
  IF ~check_allowed_smt_opts(solver_opts) THEN NoSolver
  ELSE set_opts(create_solver_base(se, logging, printing),
         solver_opts @@ (IF se = "btor" THEN "base-context-1" :> "true" ELSE <<>>)
           @@ "produce-models" :> (IF produce_model THEN "true" ELSE "false")
           @@ "incremental" :> (IF incremental THEN "true" ELSE "false"))

\* emplace does not replace: what the user said stays, and for IC3IA the second
\* emplace of model_generation does nothing.
msat_opts_for(e, full_model, solver_opts) ==
  solver_opts @@ "model_generation" :> "true"
    @@ IF ~full_model /\ e = "ic3ia"
       THEN "bool_model_generation" :> "true" @@ "model_generation" :> "false"
       ELSE <<>>

\* Slip: an IC3 engine gets the solver of any other.
create_solver_for_AnyEngine(se, e, logging, full_model, printing, solver_opts) ==
  create_solver(se, logging, TRUE, TRUE, printing, solver_opts)

\* A MathSAT environment is incremental and gives unsat cores as it is.
create_solver_for(se, e, logging, full_model, printing, solver_opts) ==
  IF ~check_allowed_smt_opts(solver_opts) THEN NoSolver
  ELSE IF se = "msat" /\ e \in ic3_variants
  THEN set_opts(create_solver_base(se, logging, printing),
         msat_opts_for(e, full_model \/ e = "ic3sa", solver_opts)
           @@ "incremental" :> "true" @@ "produce-unsat-assumptions" :> "true")
  ELSE set_opts(create_solver(se, logging, TRUE, TRUE, printing, solver_opts),
         IF e \in ic3_variants THEN "produce-unsat-assumptions" :> "true" ELSE <<>>)

create_interpolating_solver(se, printing, solver_opts) ==
  IF ~check_allowed_smt_opts(solver_opts) \/ se \notin itp_enums THEN NoSolver
  ELSE [enum |-> se, logging |-> FALSE, printing |-> printing,
        opts |-> solver_opts @@ "produce-interpolants" :> "true"]

\* The interpolator of the options is a ..._INTERPOLATOR and never MSAT, so
\* the case for the IC3 engines is not reached.
create_interpolating_solver_for(se, e, printing, solver_opts) ==
  create_interpolating_solver(se, printing, solver_opts)

----------------------------------------------------------------------------
(* Provers.                                                                *)

make_prover(e) ==
  IF e \in {"bmc", "bmc-sp", "dar", "ind", "interp", "ismc", "mbic3", "ic3bits", "ic3ia", "ic3sa",
            "sygus-pdr", "pdkind"} \cup (Build \cap {"msat-ic3ia"})
  THEN <<e>> ELSE NoProver

make_ceg_proph_prover(e) ==
  IF e \in {"bmc", "bmc-sp", "dar", "ind", "interp", "ismc", "mbic3", "ic3ia", "ic3sa"}
             \cup (Build \cap {"msat-ic3ia"})
  THEN <<"CegProphecyArrays", e>> ELSE NoProver

make_cegar_values_prover(e, o) ==
  IF e = "ic3ia" /\ o.ceg_prophecy_arrays THEN <<"CegarValues", "CegProphecyArrays", e>> ELSE NoProver

make_cegar_bv_arith_prover(e, o) ==
  IF e = "ic3ia" /\ o.ceg_prophecy_arrays THEN <<"CegarOpsUf", "CegProphecyArrays", e>>
  ELSE IF e \in {"ic3ia", "ic3sa", "interp", "ismc", "dar", "ind", "bmc", "bmc-sp"}
  THEN <<"CegarOpsUf", e>> ELSE NoProver

\* The engines that create an interpolating solver as well.
Interpolates(o) ==
  \/ o.engine \in {"interp", "ismc", "dar", "ic3ia"}
  \/ o.engine = "ic3sa" /\ o.ic3sa_interp
  \/ o.engine = "mbic3" /\ o.mbic3_indgen_mode = 2

\* The order in which check_prop looks at the options.
ProverFor(o) ==
  IF o.cegp_abs_vals THEN make_cegar_values_prover(o.engine, o)
  ELSE IF o.ceg_bv_arith THEN make_cegar_bv_arith_prover(o.engine, o)
  ELSE IF o.ceg_prophecy_arrays THEN make_ceg_proph_prover(o.engine)
  ELSE make_prover(o.engine)

\* What the constructors set on the solver they are handed.
ConstructorOpts(prover, o) ==
  IF \/ "sygus-pdr" \in Range(prover)
     \/ "CegProphecyArrays" \in Range(prover) /\ (o.cegp_consec_axiom_red \/ o.cegp_timed_axiom_red)
  THEN "produce-unsat-assumptions" :> "true" ELSE <<>>
=============================================================================
