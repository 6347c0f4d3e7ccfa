-------------------------- MODULE MCRavelEvidence --------------------------
(* Two regimes with one trial each, seven variants, and versions of the     *)
(* code and of the preregistration that differ in what the evaluator,      *)
(* the gates or the manifest look at.                                      *)
EXTENDS RavelEvidence, TLC

Eval(correct) ==
    [flaws |-> {}, samples |-> 4, correct |-> correct, prediction_samples |-> 4,
     transition_supported |-> 3, transition_correct |-> 2, transition_unknown |-> 1,
     reconstruction_sse_q20 |-> 5, prediction_sse_q20 |-> 7,
     routed_complete_mismatches |-> 0, expert_evaluations |-> 6]
Plan == [flaws |-> {}, cases |-> 2, path_found |-> 1, exact |-> 1, belief |-> 1,
         disconnected |-> 1, no_edge |-> 0]
Variant(c, work) ==
    [flaws |-> {}, expert_count |-> 2, checkpoint_size_bytes |-> 9, training_evaluations |-> work,
     drift |-> c, retention |-> Eval(4), planning |-> Plan]

Candidate(drift) ==
    [adaptation_completed |-> TRUE, expert_count |-> 2, checkpoint_size_bytes |-> 9,
     base_training_evaluations |-> 5, adaptation_training_evaluations |-> 3,
     base_holdout |-> Eval(4), adaptation_training |-> Eval(4),
     static_model_drift_holdout |-> Eval(1), adapted_model_drift_holdout |-> drift,
     base_holdout_retention |-> Eval(4), planning |-> Plan,
     replay |-> [flaws |-> {}, selected |-> 3, unique |-> 3],
     topology |-> [flaws |-> {}, accepted_births |-> 1, births |-> <<2>>, accepted_retirements |-> 1,
                   retired_lineages |-> <<"l">>, objective_before_q20 |-> 1, objective_after_q20 |-> 2,
                   training |-> [births |-> 1, retired |-> 1]]]

Datasets == [base_training |-> 2, drift_holdout |-> 4]

Trial(d, drift) ==
    [flaws |-> {}, schema |-> "ravel-raw-trial/0.5", trial_id |-> d.trial_id, regime |-> d.regime,
     seed |-> d.seed, dataset_seeds |-> [n \in DOMAIN Datasets |-> <<d.seed, n>>],
     dataset_sizes |-> Datasets, candidate |-> Candidate(drift),
     integrity |-> [flaws |-> {}, checkpoint_roundtrip |-> TRUE,
                    checkpoint_mutations |-> [label |-> TRUE, payload_byte |-> TRUE]],
     checkpoint_format |-> [schema_version |-> 5, transition_top_k |-> 3],
     comparisons |-> [v \in RequiredVariants |->
         IF v = "ravel_0_5_candidate" THEN Variant(drift, 8) ELSE Variant(Eval(2), 8)]]

Code(v) == [kind |-> "code", version |-> v]

\* What the binaries report: all well, a weaker drift in one regime, an
\* infinite prediction error, three contradictions within a trial, and one
\* thing or another.
MCObserve(b, d) ==
    LET t == Trial(d, Eval(3))
    IN CASE b.version = "weak" /\ d.regime = "label" -> {Trial(d, Eval(1))}
         [] b.version = "blind"  -> {[t EXCEPT !.candidate.base_holdout.prediction_samples = 0]}
         [] b.version = "double" -> {[t EXCEPT !.comparisons["ravel_0_5_candidate"].retention = Eval(3)]}
         [] b.version = "lost"   -> {[t EXCEPT !.candidate.topology.births = <<>>]}
         [] b.version = "moved"  -> {[t EXCEPT !.dataset_seeds["drift_holdout"] = t.dataset_seeds["base_training"]]}
         [] b.version = "flaky"  -> {t, Trial(d, Eval(2)), Missing}
         [] OTHER -> {t}
MCSelfTests(b) ==
    {IF b.version = "lost" THEN [other |-> TRUE] ELSE [truncated_checkpoint |-> b.version # "weak"]}

Gate(id, metric, op, value) ==
    [flaws |-> {}, gate_id |-> id, metric |-> metric, operator |-> op, value |-> value]
Declared(i, regime, k) == [trial_id |-> i, regime |-> regime, seed |-> <<7, regime, k>>]
Names == {"truncated_checkpoint", "raw_metric_mutation", "threshold_mutation",
          "executable_trial_result_injection", "executable_gate_boolean_injection", "seed_mutation",
          "regime_mutation", "aggregate_mutation", "stale_manifest", "substituted_source",
          "reordered_file", "omitted_file", "build_configuration_mutation", "artifact_mutation",
          "stale_assurance", "evidence_file_mutation", "nondeterministic_output_detection"}

Prereg1 ==
    [kind |-> "prereg", flaws |-> {}, schema |-> "ravel-preregistration/0.5", freeze |-> "FROZEN",
     frozen_before_final_validation |-> TRUE, final_validation_use |-> "one_shot",
     algorithm |-> "sha256-first-u64-big-endian", per_regime |-> 1, root_seed |-> 7,
     datasets |-> Datasets, checkpoint_schema |-> 5, transition_top_k |-> 3,
     trials |-> <<Declared("t1", "separated", 0), Declared("t2", "label", 0)>>,
     variants |-> <<"ravel_0_5_candidate", "no_adaptation_static", "matched_compute_fixed_topology",
                    "ravel_no_birth_same_replay_iterations",
                    "ravel_without_retirement_matched_work", "periodic_replay_policy",
                    "flat_64_expert_complete_scan">>,
     common_gates |-> <<Gate("done", "adaptation_completed", "eq", Count(1)),
                        Gate("routing", "routing_mismatches", "eq", Count(0)),
                        Gate("budget", "matched_compute_training_evaluation_ratio", "le", Q(11, 10))>>,
     regime_gates |-> [separated |-> <<Gate("accuracy", "adapted_drift_accuracy", "ge", Q(1, 2))>>,
                       label |-> <<Gate("gain", "headroom_normalized_accuracy_improvement", "ge", Q(1, 2))>>],
     minimum_passing_trials |-> 2, minimum_passing_trials_per_regime |-> 1,
     dispositions |-> [n \in Names |-> [expected_disposition |-> "reject", expected_observation |-> TRUE]],
     formal |-> [mncs |-> "UNKNOWN", mncds |-> "UNKNOWN", promotion_authorized |-> FALSE]]

MCPaths == {"spec", "prereg", "code", "contract", "evaluator", "stray"}
MCRoles == {"entrypoint", "contract", "preregistration", "manifest_specification",
            "independent_evaluator"}
Text(v) == [kind |-> "text", version |-> v]
Listed == <<[role |-> "entrypoint", path |-> "code"], [role |-> "contract", path |-> "contract"],
            [role |-> "preregistration", path |-> "prereg"],
            [role |-> "manifest_specification", path |-> "spec"],
            [role |-> "independent_evaluator", path |-> "evaluator"]>>
Spec1 == [kind |-> "spec", flaws |-> {}, ordered_files |-> Listed, entrypoint |-> "code",
          maintained |-> {"code"}, generated |-> {}, canonical_flags |-> <<"-std=c11">>]

MCTree == [p \in MCPaths |->
    CASE p = "spec" -> Spec1 [] p = "prereg" -> Prereg1 [] p = "code" -> Code("good")
      [] p = "stray" -> Missing [] OTHER -> Text(1)]

MCEdits ==
    {<<"code", Code(v)>> : v \in {"weak", "blind", "double", "lost", "moved", "flaky"}} \cup
    {<<"prereg", p>> : p \in
        {[Prereg1 EXCEPT !.minimum_passing_trials = 1, !.minimum_passing_trials_per_regime = 0],
         [Prereg1 EXCEPT !.freeze = "DRAFT"], [Prereg1 EXCEPT !.trials[2].seed = <<7, "label", 1>>],
         [Prereg1 EXCEPT !.per_regime = 2],
         [Prereg1 EXCEPT !.common_gates[2].metric = "unheard"],
         [Prereg1 EXCEPT !.dispositions = [n \in Names \ {"seed_mutation"} |-> @[n]]]}} \cup
    {<<"prereg", Missing>>, <<"contract", Text(2)>>, <<"contract", Missing>>, <<"stray", Text(1)>>,
     <<"spec", [Spec1 EXCEPT !.ordered_files = Tail(@)]>>}
============================================================================
